---------------------------- MODULE Findings_proofs ----------------------------
(***************************************************************************)
(* Proofs about Derive: which observations are attached to which assets    *)
(* through merges, that no finding says more than a classification of its  *)
(* asset, that an import has derived what it goes on from, and that new    *)
(* services are missed in a race only, for any batches, assets, rules and  *)
(* advisories.                                                             *)
(***************************************************************************)
EXTENDS Derive_proofs

AllObs == UNION {Obs(b) : b \in Batches}
Looking == {"detect", "evaluate", "read", "write", "titles", "findings", "upsert"}
Classifying == {"titles", "findings", "upsert", "done", "failed"}

(* Changes and findings wait only where they are decided on.               *)
StageInv ==
  \A b \in Batches :
    /\ todo[b] # <<>> => pc[b] \in {"evaluate", "titles", "findings", "upsert"}
    /\ pending[b] # {} => pc[b] \in {"upsert", "failed"}

(* An observation is attached to the asset its batch resolved to, or to    *)
(* one that asset was merged into, and all of a batch are attached once it *)
(* looks for changes.                                                      *)
LinksInv ==
  /\ DOMAIN recent = Batches /\ \A b \in Batches : recent[b] \subseteq AllObs
  /\ \A a \in DOMAIN mergedInto : mergedInto[a] \in DOMAIN class \cup {NoAsset}
  /\ links \subseteq (DOMAIN class) \X AllObs
  /\ \A l \in links : /\ pc[l[2][1]] \notin {"idle", "resolve"}
                      /\ asset[l[2][1]] \in Lineage(l[1])
  /\ \A b \in Batches :
       pc[b] \in Looking \/ (pc[b] = "done" /\ Imported(b)) => Unattached(b) = {}

(* What findings say, and assets show, some batch classified.              *)
Product(a, family) ==
  \E c \in Batches : asset[c] \in Lineage(a) /\ top[c].family = family /\ pc[c] \in Classifying
Strength(state, a, advisory) ==
  state = "potential" \/ (state = "likely" /\ Product(a, advisory.family))
ProductInv ==
  /\ DOMAIN pending = Batches
  /\ \A b \in Batches : top[b].firmware = Unknown
  /\ \A a \in DOMAIN class :
       class[a] # Blank => \E c \in Batches : asset[c] = a /\ top[c] = class[a] /\ pc[c] \in Classifying
  /\ \A b \in Batches : \A f \in pending[b] : Strength(f.state, asset[b], f.advisory)
  /\ \A k \in DOMAIN findings : /\ k.asset \in DOMAIN class
                                /\ Strength(findings[k].state, k.asset, k.advisory)

(* While no call fails, the advisories of a batch's vendor are on their    *)
(* way to be findings; records of an import follow one another.            *)
Covered(b, advisory) ==
  \/ \E f \in pending[b] : f.advisory = advisory
  \/ \E k \in DOMAIN findings : k.advisory = advisory /\ asset[b] \in Lineage(k.asset)
  \/ Overruled(b)
Named == \A b \in Batches : pc[b] \in {"read", "write"} => top[b] # Blank
DerivedInv ==
  /\ load \in Workloads /\ Named
  /\ \A b \in Batches : top[b] # Blank => asset[b] \in DOMAIN class
  /\ faults = 0 => \A b \in Batches : top[b] # Blank =>
       /\ pc[b] \in Classifying =>
            \E c \in Batches : /\ asset[c] = asset[b] /\ top[c] # Blank
                              /\ top[c] = class[asset[b]] /\ pc[c] \in Classifying
       /\ pc[b] \in {"upsert", "done"} =>
            \A n \in DOMAIN AdvisoryBundle :
              top[b].vendor = AdvisoryBundle[n].vendor => Covered(b, AdvisoryBundle[n])
  /\ \A i \in DOMAIN load.import :
       pc[load.import[i]] # "idle" => \A j \in 1..(i - 1) : pc[load.import[j]] = "done"

-----------------------------------------------------------------------------
(* Merges. *)

(* An asset is in its own lineage.                                         *)
LEMMA LineageSelf == ASSUME NEW a \in Assets PROVE a \in Lineage(a) /\ a \in Lineage(a)'
BY DEF Lineage

(* A step that only merges assets that stood for themselves takes nothing  *)
(* out of a lineage.                                                       *)
MergesGrow ==
  \A y \in DOMAIN mergedInto :
    y \in DOMAIN mergedInto' /\ (mergedInto'[y] = mergedInto[y] \/ mergedInto[y] = NoAsset)
LEMMA LineageGrows ==
  ASSUME MergesGrow, NEW a, NEW x \in Lineage(a)
  PROVE  x \in Lineage(a)'
<1>1. ASSUME NEW S \in SUBSET Assets, FollowsMerges(S)' PROVE FollowsMerges(S)
  BY <1>1 DEF FollowsMerges, MergesGrow
<1>2. QED
  BY <1>1 DEF Lineage

(* Whatever is in the lineage of an asset is in that of the one the asset  *)
(* is merged into.                                                         *)
LEMMA LineageMoves ==
  ASSUME MergesGrow, NEW a \in DOMAIN mergedInto', NEW x \in Lineage(a),
         NEW t, mergedInto'[a] = t, t # NoAsset
  PROVE  x \in Lineage(t)'
<1>1. x \in Lineage(a)'
  BY LineageGrows
<1>2. QED
  BY <1>1 DEF Lineage, FollowsMerges

(* All steps only merge assets that stood for themselves. *)
LEMMA NextMerges == MergedInv /\ [Next]_vars => MergesGrow
<1> SUFFICES ASSUME MergedInv, [Next]_vars PROVE MergesGrow
  OBVIOUS
<1>k. ASSUME UNCHANGED mergedInto PROVE MergesGrow
  BY <1>k DEF MergesGrow
<1>1. ASSUME NEW b \in Batches, Resolve(b) PROVE MergesGrow
  <2>1. mergedInto' = mergedInto \/ \E a \in Assets : mergedInto' = Added(mergedInto, a, NoAsset)
    BY <1>1 DEF Resolve
  <2>2. QED
    BY <2>1 DEF Added, MergesGrow
<1>2. ASSUME NEW source, NEW target, Merge(source, target) PROVE MergesGrow
  BY <1>2 DEF Merge, MergesGrow, MergedInv
<1>3. ASSUME NEW b \in Batches, IngestBatch(b) \/ Correlated(b), ~Resolve(b) PROVE UNCHANGED mergedInto
  BY <1>3 DEF IngestBatch, Correlated, Collect, AttachRest, Detect, Report, Evaluate, ReadAsset,
              UpdateClassification, DetectTitle, EvaluateAdvisories, UpsertFinding, Finish, tables
<1>4. QED
  BY <1>k, <1>1, <1>2, <1>3 DEF Next, Operator, SetDisposition, Acknowledge, vars, tables

-----------------------------------------------------------------------------
(* Where a step of a batch brings it. *)
Moves == {<<"idle", "resolve">>, <<"resolve", "attach">>, <<"attach", "detect">>,
          <<"detect", "evaluate">>, <<"evaluate", "titles">>, <<"evaluate", "read">>,
          <<"read", "write">>, <<"write", "titles">>, <<"titles", "findings">>,
          <<"findings", "upsert">>, <<"findings", "failed">>, <<"upsert", "done">>}
LEMMA MoveOfBatch ==
  ASSUME PlaceInv, StageInv, NEW b \in Batches, IngestBatch(b) \/ Correlated(b)
  PROVE  \/ pc' = pc /\ faults' \in {faults, faults + 1}
         \/ \E s \in Stages : /\ <<pc[b], s>> \in Moves /\ pc' = [pc EXCEPT ![b] = s]
                              /\ faults' \in {faults, faults + 1}
         \/ \E s \in {"done", "failed"} :
              /\ pc' = [pc EXCEPT ![b] = s] /\ faults' = faults + 1
              /\ pc[b] \notin {"done", "failed"}
              /\ s = "done" => ~Imported(b) /\ pc[b] \in {"idle", "resolve", "attach"}
<1> USE DEF Goto, At, NoFault, Fault, IngestError, Moves, Stages
<1>1. CASE Collect(b)
  BY <1>1 DEF Collect
<1>2. CASE Resolve(b)
  BY <1>2 DEF Resolve
<1>3. CASE AttachRest(b)
  BY <1>3 DEF AttachRest
<1>4. CASE Detect(b)
  BY <1>4 DEF Detect
<1>5. CASE Report(b)
  <2>1. todo[b] # <<>> /\ pc[b] \notin {"done", "failed"}
    BY <1>5 DEF Report, StageInv
  <2>2. \/ pc' = pc /\ faults' \in {faults, faults + 1}
        \/ pc' = [pc EXCEPT ![b] = "failed"] /\ faults' = faults + 1
    BY <1>5 DEF Report
  <2>3. QED
    BY <2>1, <2>2
<1>6. CASE Evaluate(b)
  <2>1. pc[b] = "evaluate" /\ faults' \in {faults, faults + 1}
    BY <1>6 DEF Evaluate
  <2>2. pc' = [pc EXCEPT ![b] = "titles"] \/ pc' = [pc EXCEPT ![b] = "read"]
    BY <1>6 DEF Evaluate
  <2>3. QED
    BY <2>1, <2>2
<1>7. CASE ReadAsset(b)
  BY <1>7 DEF ReadAsset
<1>8. CASE UpdateClassification(b)
  BY <1>8 DEF UpdateClassification
<1>9. CASE DetectTitle(b)
  BY <1>9 DEF DetectTitle
<1>10. CASE EvaluateAdvisories(b)
  BY <1>10 DEF EvaluateAdvisories
<1>11. CASE UpsertFinding(b)
  BY <1>11 DEF UpsertFinding
<1>12. CASE Finish(b)
  BY <1>12 DEF Finish
<1>13. QED
  BY <1>1, <1>2, <1>3, <1>4, <1>5, <1>6, <1>7, <1>8, <1>9, <1>10, <1>11, <1>12 DEF IngestBatch, Correlated

(* Which actions of a batch change what. *)
LEMMA Untouched ==
  ASSUME NEW b \in Batches, IngestBatch(b) \/ Correlated(b)
  PROVE  /\ Resolve(b) \/ AttachRest(b) \/ UNCHANGED links
         /\ Detect(b) \/ UNCHANGED recent
         /\ Resolve(b) \/ UNCHANGED <<mergedInto, asset, created>>
         /\ Resolve(b) \/ UpdateClassification(b) \/ UNCHANGED class
         /\ Evaluate(b) \/ UNCHANGED top
         /\ EvaluateAdvisories(b) \/ UpsertFinding(b) \/ Report(b) \/ UNCHANGED pending
         /\ UpsertFinding(b) \/ UNCHANGED findings
         /\ \/ Detect(b) \/ UpdateClassification(b) \/ DetectTitle(b) \/ UpsertFinding(b) \/ Report(b)
            \/ UNCHANGED todo
         /\ UNCHANGED load
<1> USE DEF tables
<1>1. CASE Collect(b) \/ Resolve(b) \/ AttachRest(b) \/ Detect(b) \/ Report(b)
  BY <1>1 DEF Collect, Resolve, AttachRest, Detect, Report
<1>2. CASE Evaluate(b) \/ ReadAsset(b) \/ UpdateClassification(b) \/ DetectTitle(b)
  BY <1>2 DEF Evaluate, ReadAsset, UpdateClassification, DetectTitle
<1>3. CASE EvaluateAdvisories(b) \/ UpsertFinding(b) \/ Finish(b)
  BY <1>3 DEF EvaluateAdvisories, UpsertFinding, Finish
<1>4. QED
  BY <1>1, <1>2, <1>3 DEF IngestBatch, Correlated

(* A step of a batch leaves the others where they are. *)
LEMMA OthersStay ==
  ASSUME PlaceInv, ChangesInv, LinksInv, ProductInv, NEW b \in Batches, IngestBatch(b) \/ Correlated(b),
         NEW x \in Batches, x # b
  PROVE  /\ pc'[x] = pc[x] /\ todo'[x] = todo[x] /\ pending'[x] = pending[x]
         /\ top'[x] = top[x] /\ asset'[x] = asset[x] /\ created'[x] = created[x]
         /\ recent'[x] = recent[x]
<1> USE DEF PlaceInv, Goto, IngestError
<1>d. DOMAIN todo = Batches /\ DOMAIN pending = Batches /\ DOMAIN recent = Batches
  BY DEF ChangesInv, ProductInv, LinksInv
<1>1. CASE Collect(b) \/ Resolve(b) \/ AttachRest(b)
  BY <1>1, <1>d DEF Collect, Resolve, AttachRest
<1>2. CASE Detect(b)
  BY <1>2, <1>d DEF Detect
<1>3. CASE Report(b)
  BY <1>3, <1>d DEF Report
<1>4. CASE Evaluate(b)
  <2>1. (pc' = [pc EXCEPT ![b] = "titles"] \/ pc' = [pc EXCEPT ![b] = "read"])
        /\ \E t : top' = [top EXCEPT ![b] = t]
    BY <1>4 DEF Evaluate
  <2>2. UNCHANGED <<todo, pending, asset, created, recent>>
    BY <1>4 DEF Evaluate
  <2>3. QED
    BY <2>1, <2>2
<1>5. CASE ReadAsset(b) \/ UpdateClassification(b) \/ DetectTitle(b)
  BY <1>5, <1>d DEF ReadAsset, UpdateClassification, DetectTitle
<1>6. CASE EvaluateAdvisories(b) \/ Finish(b)
  BY <1>6, <1>d DEF EvaluateAdvisories, Finish
<1>7. CASE UpsertFinding(b)
  <2>1. PICK f \in pending[b] : RowWritten(b, f)
    BY <1>7, RowOfUpsert
  <2>2. UNCHANGED <<asset, created, recent, top>>
    BY <1>7 DEF UpsertFinding
  <2>3. QED
    BY <2>1, <2>2, <1>d DEF RowWritten
<1>8. QED
  BY <1>1, <1>2, <1>3, <1>4, <1>5, <1>6, <1>7 DEF IngestBatch, Correlated

(* Every step keeps the stages. *)
LEMMA NextStages ==
  PlaceInv /\ ChangesInv /\ StageInv /\ LinksInv /\ ProductInv /\ [Next]_vars => StageInv'
<1> SUFFICES ASSUME PlaceInv, ChangesInv, StageInv, LinksInv, ProductInv, [Next]_vars PROVE StageInv'
  OBVIOUS
<1> DEFINE InPlace(s, t, p) ==
      /\ t # <<>> => s \in {"evaluate", "titles", "findings", "upsert"}
      /\ p # {} => s \in {"upsert", "failed"}
<1>d. DOMAIN todo = Batches /\ DOMAIN pending = Batches /\ pc \in [Batches -> Stages]
  BY DEF ChangesInv, ProductInv, PlaceInv
<1>1. ASSUME NEW b \in Batches, IngestBatch(b) \/ Correlated(b) PROVE StageInv'
  <2>1. InPlace(pc[b], todo[b], pending[b])
    BY DEF StageInv
  <2>2. InPlace(pc'[b], todo'[b], pending'[b])
    <3> USE DEF Goto, At, IngestError
    <3>1. CASE Collect(b) \/ Resolve(b) \/ AttachRest(b)
      BY <3>1, <2>1, <1>d DEF Collect, Resolve, AttachRest
    <3>2. CASE Detect(b)
      <4>1. pc[b] = "detect" /\ pc'[b] = "evaluate" /\ pending' = pending
        BY <3>2, <1>d DEF Detect
      <4>2. QED
        BY <4>1, <2>1
    <3>3. CASE Report(b)
      <4>1. \/ pc' = pc /\ pending' = pending /\ todo[b] # <<>>
            \/ pc'[b] = "failed" /\ todo'[b] = <<>>
        BY <3>3, <1>d DEF Report
      <4>2. QED
        BY <4>1, <2>1
    <3>4. CASE Evaluate(b)
      <4>1. pc[b] = "evaluate" /\ todo[b] = <<>> /\ todo' = todo /\ pending' = pending
        BY <3>4 DEF Evaluate
      <4>2. QED
        BY <4>1, <2>1
    <3>5. CASE ReadAsset(b) \/ Finish(b)
      BY <3>5, <2>1, <1>d DEF ReadAsset, Finish
    <3>6. CASE UpdateClassification(b)
      <4>1. pc[b] = "write" /\ pc'[b] = "titles" /\ pending' = pending
        BY <3>6, <1>d DEF UpdateClassification
      <4>2. QED
        BY <4>1, <2>1
    <3>7. CASE DetectTitle(b)
      <4>1. pc[b] = "titles" /\ pc'[b] = "findings" /\ pending' = pending
        BY <3>7, <1>d DEF DetectTitle
      <4>2. QED
        BY <4>1, <2>1
    <3>8. CASE EvaluateAdvisories(b)
      <4>1. /\ pc[b] = "findings" /\ todo[b] = <<>> /\ todo' = todo
            /\ pc'[b] = "upsert" \/ pc'[b] = "failed"
        BY <3>8, <1>d DEF EvaluateAdvisories
      <4>2. QED
        BY <4>1, <2>1
    <3>9. CASE UpsertFinding(b)
      <4>1. pc[b] = "upsert" /\ todo[b] = <<>>
        BY <3>9 DEF UpsertFinding
      <4>2. PICK f \in pending[b] : RowWritten(b, f)
        BY <3>9, RowOfUpsert
      <4>3. (pc'[b] = "upsert") \/ (pc'[b] = "failed" /\ todo' = todo)
        BY <4>1, <4>2, <1>d DEF RowWritten
      <4>4. QED
        BY <4>1, <4>3
    <3>10. QED
      BY <1>1, <3>1, <3>2, <3>3, <3>4, <3>5, <3>6, <3>7, <3>8, <3>9 DEF IngestBatch, Correlated
  <2>3. \A x \in Batches \ {b} :
          pc'[x] = pc[x] /\ todo'[x] = todo[x] /\ pending'[x] = pending[x]
    BY <1>1, OthersStay
  <2>4. QED
    BY <2>2, <2>3 DEF StageInv
<1>2. CASE Operator
  BY <1>2 DEF Operator, Merge, SetDisposition, Acknowledge, batchVars, StageInv
<1>3. CASE UNCHANGED vars
  BY <1>3 DEF vars, batchVars, StageInv
<1>4. QED
  BY <1>1, <1>2, <1>3 DEF Next

-----------------------------------------------------------------------------
(* Observations and assets. *)

(* An observation of a batch, and the first of each. *)
LEMMA Observation ==
  ASSUME NEW b \in Batches
  PROVE  /\ \A o \in Obs(b) : o[1] = b /\ o \in AllObs
         /\ <<b, 1>> \in Obs(b) /\ <<b, 1>>[1] = b
<1>1. Content[b] \in Seq(ToSet(Content[b])) /\ Content[b] # <<>>
  BY DeriveAssumption
<1>2. 1 \in DOMAIN Content[b]
  <2>1. Len(Content[b]) \in Nat \ {0} /\ DOMAIN Content[b] = 1..Len(Content[b])
    BY <1>1
  <2>2. QED
    BY <2>1
<1>3. \A o \in Obs(b) : o[1] = b /\ o \in AllObs
  BY DEF Obs, AllObs
<1>4. QED
  BY <1>2, <1>3 DEF Obs
LEMMA BatchOf == \A o \in AllObs : o[1] \in Batches /\ o \in Obs(o[1])
BY DEF AllObs, Obs

(* What is attached to an asset was observed. *)
LEMMA ObservedIsSeen == ASSUME LinksInv, NEW a PROVE Observed(a) \subseteq AllObs
BY DEF LinksInv, Observed

(* A batch attaches at most one observation of its own, to the asset it    *)
(* resolved to, and goes on to look for changes when none is left.         *)
Attaches(b) ==
  \/ UNCHANGED links
  \/ /\ asset'[b] \in DOMAIN class' /\ pc'[b] \notin {"idle", "resolve"}
     /\ \E o \in Obs(b) : links' = links \cup {<<asset'[b], o>>}
LEMMA BatchAttaches ==
  ASSUME PlaceInv, StageInv, NEW b \in Batches, IngestBatch(b) \/ Correlated(b)
  PROVE  /\ Attaches(b)
         /\ pc[b] \in Looking =>
              pc'[b] \in Looking \cup {"done", "failed"}
         /\ \/ pc'[b] \in {"idle", "resolve", "attach", "failed"}
            \/ pc'[b] = "done" /\ ~Imported(b)
            \/ pc[b] \in Looking \/ (pc[b] = "done" /\ Imported(b))
            \/ Unattached(b) = {} /\ UNCHANGED links
<1>p. pc \in [Batches -> Stages]
  BY DEF PlaceInv
<1>1. ASSUME pc[b] \in Looking
      PROVE  pc'[b] \in Looking \cup {"done", "failed"}
  <2>1. CASE \E s \in Stages : <<pc[b], s>> \in Moves /\ pc' = [pc EXCEPT ![b] = s]
    BY <1>1, <1>p, <2>1 DEF Moves, Looking
  <2>2. CASE pc' = pc \/ \E s \in {"done", "failed"} : pc' = [pc EXCEPT ![b] = s]
    BY <1>1, <1>p, <2>2
  <2>3. QED
    BY <2>1, <2>2, MoveOfBatch
<1>2. CASE Resolve(b)
  <2>1. \/ UNCHANGED links
        \/ /\ pc'[b] \in {"attach", "done", "failed"} /\ asset'[b] \in DOMAIN class'
           /\ links' = links \cup {<<asset'[b], <<b, 1>>>>}
    <3>1. CASE UNCHANGED links
      BY <3>1
    <3>2. CASE links' # links
      <4>1. PICK a \in Assets : /\ asset' = [asset EXCEPT ![b] = a] /\ class' = Added(class, a, Blank)
                                /\ links' = links \cup {<<a, <<b, 1>>>>}
                                /\ Goto(b, "attach") \/ IngestError(b)
        BY <1>2, <3>2 DEF Resolve
      <4>2. /\ asset'[b] = a /\ pc'[b] \in {"attach", "done", "failed"} /\ a \in DOMAIN class'
        BY <4>1, <1>p DEF PlaceInv, Goto, IngestError, Added
      <4>3. QED
        BY <4>1, <4>2
    <3>3. QED
      BY <3>1, <3>2
  <2>2. <<b, 1>> \in Obs(b)
    BY Observation
  <2>3. pc[b] = "resolve"
    BY <1>2 DEF Resolve
  <2>4. Attaches(b)
    BY <2>1, <2>2 DEF Attaches
  <2>5. pc'[b] \in {"attach", "failed"} \/ (pc'[b] = "done" /\ ~Imported(b))
    BY <1>2, <1>p DEF Resolve, Goto, IngestError
  <2>6. QED
    BY <1>1, <2>4, <2>5
<1>3. CASE AttachRest(b)
  <2>1. pc[b] = "attach" /\ UNCHANGED <<asset, class>> /\ asset[b] \in DOMAIN class
    BY <1>3 DEF AttachRest, PlaceInv, WorkingStages
  <2>2. CASE UNCHANGED links
    <3>1. Attaches(b)
      BY <2>2 DEF Attaches
    <3>2. \/ Unattached(b) = {} \/ pc' = pc \/ pc'[b] = "failed"
          \/ (pc'[b] = "done" /\ ~Imported(b))
      BY <1>3, <2>2, <1>p DEF AttachRest, Goto, IngestError
    <3>3. QED
      BY <1>1, <2>1, <2>2, <3>1, <3>2
  <2>3. CASE links' # links
    <3>1. pc' = pc /\ \E o \in Unattached(b) : links' = links \cup {<<asset[b], o>>}
      BY <1>3, <2>3 DEF AttachRest
    <3>2. Attaches(b)
      BY <2>1, <3>1 DEF Attaches, Unattached
    <3>3. QED
      BY <1>1, <2>1, <3>1, <3>2
  <2>4. QED
    BY <2>2, <2>3
<1>4. CASE ~Resolve(b) /\ ~AttachRest(b)
  <2>1. UNCHANGED links
    BY <1>4, Untouched
  <2>2. pc[b] \notin {"resolve", "attach"}
    BY <1>4 DEF IngestBatch, Correlated, Collect, Detect, Report, Evaluate, ReadAsset,
         UpdateClassification, DetectTitle, EvaluateAdvisories, UpsertFinding, Finish, At, StageInv
  <2>3. CASE \E s \in Stages : <<pc[b], s>> \in Moves /\ pc' = [pc EXCEPT ![b] = s]
    BY <1>1, <1>p, <2>1, <2>2, <2>3 DEF Moves, Looking, Attaches
  <2>4. CASE pc' = pc \/ \E s \in {"done", "failed"} :
               pc' = [pc EXCEPT ![b] = s] /\ (s = "done" => ~Imported(b))
    BY <1>1, <1>p, <2>1, <2>2, <2>4 DEF Looking, Attaches, Stages
  <2>5. QED
    BY <2>3, <2>4, MoveOfBatch
<1>5. QED
  BY <1>2, <1>3, <1>4

(* Every step keeps what is said of attached observations. *)
LEMMA NextLinks ==
  MergedInv /\ PlaceInv /\ ChangesInv /\ StageInv /\ LinksInv /\ ProductInv /\ [Next]_vars => LinksInv'
<1> SUFFICES ASSUME MergedInv, PlaceInv, ChangesInv, StageInv, LinksInv, ProductInv, [Next]_vars
             PROVE  LinksInv'
  OBVIOUS
<1>g. MergesGrow
  BY NextMerges
<1>a. /\ NoAsset \notin Assets /\ pc \in [Batches -> Stages]
      /\ asset \in [Batches -> Assets \cup {NoAsset}] /\ DOMAIN class \subseteq Assets
  BY DeriveAssumption DEF PlaceInv
<1>l. \A l \in links : /\ l[1] \in DOMAIN class /\ l[2] \in AllObs /\ l[2][1] \in Batches
                       /\ pc[l[2][1]] \notin {"idle", "resolve"}
                       /\ asset[l[2][1]] \in Lineage(l[1])
  BY BatchOf DEF LinksInv
<1>1. ASSUME NEW b \in Batches, IngestBatch(b) \/ Correlated(b) PROVE LinksInv'
  <2>o. \A x \in Batches \ {b} : /\ pc'[x] = pc[x] /\ asset'[x] = asset[x] /\ recent'[x] = recent[x]
    BY <1>1, OthersStay
  <2>i. \A x \in Batches : Imported(x)' <=> Imported(x)
    BY <1>1, Untouched DEF Imported
  <2>1. DOMAIN recent' = Batches /\ \A x \in Batches : recent'[x] \subseteq AllObs
    <3>1. CASE UNCHANGED recent
      BY <3>1 DEF LinksInv
    <3>2. CASE recent' # recent
      <4>1. recent' = [recent EXCEPT ![b] = Observed(asset[b])]
        BY <1>1, <3>2, Untouched DEF Detect
      <4>2. Observed(asset[b]) \subseteq AllObs
        BY ObservedIsSeen
      <4>3. QED
        BY <4>1, <4>2 DEF LinksInv
    <3>3. QED
      BY <3>1, <3>2
  <2>c. DOMAIN class \subseteq DOMAIN class' /\ \A a \in DOMAIN mergedInto' :
          mergedInto'[a] \in DOMAIN class \cup {NoAsset}
    <3>1. CASE Resolve(b)
      <4>1. UNCHANGED <<class, mergedInto>>
            \/ \E a \in Assets : class' = Added(class, a, Blank) /\ mergedInto' = Added(mergedInto, a, NoAsset)
        BY <3>1 DEF Resolve
      <4>2. QED
        BY <4>1 DEF Added, LinksInv
    <3>2. CASE ~Resolve(b)
      BY <1>1, <3>2, Untouched, StepOfBatch DEF LinksInv
    <3>3. QED
      BY <3>1, <3>2
  <2>2. Attaches(b)
    BY <1>1, BatchAttaches
  <2>b. pc[b] \notin {"idle", "resolve"} => pc'[b] \notin {"idle", "resolve"} /\ asset' = asset
    <3>1. ASSUME pc[b] \notin {"idle", "resolve"} PROVE pc'[b] \notin {"idle", "resolve"}
      BY <1>1, <1>a, <3>1, MoveOfBatch DEF Moves
    <3>2. pc[b] \notin {"idle", "resolve"} => asset' = asset
      BY <1>1, Untouched DEF Resolve
    <3>3. QED
      BY <3>1, <3>2
  <2>3. ASSUME NEW l \in links
        PROVE  /\ l[1] \in DOMAIN class' /\ l[2] \in AllObs /\ l[2][1] \in Batches
               /\ pc'[l[2][1]] \notin {"idle", "resolve"}
               /\ asset'[l[2][1]] \in Lineage(l[1])'
    <3> DEFINE a == l[1]
               x == l[2][1]
    <3>1. /\ a \in DOMAIN class' /\ l[2] \in AllObs /\ x \in Batches
          /\ pc[x] \notin {"idle", "resolve"} /\ asset[x] \in Lineage(a)
      BY <1>l, <2>c
    <3> HIDE DEF a, x
    <3>2. pc'[x] \notin {"idle", "resolve"} /\ asset'[x] = asset[x]
      BY <2>o, <2>b, <3>1
    <3>3. asset[x] \in Lineage(a)'
      BY <1>g, <3>1, LineageGrows
    <3>4. QED
      BY <3>1, <3>2, <3>3 DEF a, x
  <2>4. /\ links' \subseteq (DOMAIN class') \X AllObs
        /\ \A l \in links' : /\ pc'[l[2][1]] \notin {"idle", "resolve"}
                             /\ asset'[l[2][1]] \in Lineage(l[1])'
    <3>1. CASE UNCHANGED links
      BY <3>1, <2>3, <2>c DEF LinksInv
    <3>2. CASE /\ asset'[b] \in DOMAIN class' /\ pc'[b] \notin {"idle", "resolve"}
               /\ \E o \in Obs(b) : links' = links \cup {<<asset'[b], o>>}
      <4>1. PICK o \in Obs(b) : links' = links \cup {<<asset'[b], o>>}
        BY <3>2
      <4>2. o \in AllObs /\ o[1] = b
        BY Observation
      <4>3. PICK a \in Assets : asset'[b] = a
        <5>1. PlaceInv'
          BY NextPlaces
        <5>2. QED
          BY <3>2, <5>1 DEF PlaceInv
      <4>4. a \in Lineage(a)'
        BY LineageSelf
      <4>5. links' = links \cup {<<a, o>>} /\ links \subseteq (DOMAIN class) \X AllObs
        BY <4>1, <4>3 DEF LinksInv
      <4>6. links' \subseteq (DOMAIN class') \X AllObs
        BY <3>2, <4>2, <4>3, <4>5, <2>c
      <4>7. \A l \in links' : l \in links \/ l = <<a, o>>
        BY <4>5
      <4>8. <<a, o>>[1] = a /\ <<a, o>>[2] = o
        OBVIOUS
      <4>9. ASSUME NEW l \in links', l = <<a, o>>
            PROVE  pc'[l[2][1]] \notin {"idle", "resolve"} /\ asset'[l[2][1]] \in Lineage(l[1])'
        <5>1. l[1] = a /\ l[2] = o
          BY <4>8, <4>9
        <5>2. pc'[o[1]] \notin {"idle", "resolve"} /\ asset'[o[1]] = a
          BY <3>2, <4>2, <4>3
        <5>3. QED
          BY <4>4, <5>1, <5>2
      <4>10. QED
        BY <4>6, <4>7, <4>9, <2>3
    <3>3. QED
      BY <2>2, <3>1, <3>2 DEF Attaches
  <2>5. ASSUME NEW x \in Batches,
               (pc[x] \in Looking \/ (pc[x] = "done" /\ Imported(x)))'
        PROVE  Unattached(x)' = {}
    <3>1. Unattached(x)' \subseteq Unattached(x)
      BY <2>2 DEF Attaches, Unattached
    <3>2. CASE x # b
      BY <2>5, <2>o, <2>i, <3>1, <3>2 DEF LinksInv
    <3>3. CASE x = b
      <4>1. \/ pc[b] \in Looking \/ (pc[b] = "done" /\ Imported(b))
            \/ Unattached(b) = {} /\ UNCHANGED links
        BY <1>1, <2>5, <2>i, <3>3, BatchAttaches DEF Looking
      <4>2. QED
        BY <3>1, <3>3, <4>1 DEF LinksInv
    <3>4. QED
      BY <3>2, <3>3
  <2>6. QED
    BY <2>1, <2>c, <2>4, <2>5 DEF LinksInv
<1>2. ASSUME NEW source \in Assets, NEW target \in Assets, Merge(source, target) PROVE LinksInv'
  <2>1. /\ UNCHANGED <<pc, asset, recent, class, load>> /\ target \in DOMAIN class /\ source # target
        /\ mergedInto' = [mergedInto EXCEPT ![source] = target]
        /\ links' = {<<IF l[1] = source THEN target ELSE l[1], l[2]>> : l \in links}
        /\ source \in DOMAIN mergedInto
    BY <1>2 DEF Merge, batchVars, MergedInv
  <2>2. \A a \in DOMAIN mergedInto' : mergedInto'[a] \in DOMAIN class' \cup {NoAsset}
    BY <2>1 DEF LinksInv
  <2>3. ASSUME NEW l \in links
        PROVE  LET a == IF l[1] = source THEN target ELSE l[1]
               IN  a \in DOMAIN class' /\ asset'[l[2][1]] \in Lineage(a)'
    <3> DEFINE x == asset[l[2][1]]
               a == l[1]
    <3>1. x \in Lineage(a) /\ a \in DOMAIN class
      BY <1>l
    <3> HIDE DEF x, a
    <3>2. x \in Lineage(a)'
      BY <1>g, <3>1, LineageGrows
    <3>3. a = source => x \in Lineage(target)'
      BY <1>a, <1>g, <2>1, <3>1, LineageMoves
    <3>4. QED
      BY <2>1, <3>1, <3>2, <3>3 DEF x, a
  <2>4. /\ links' \subseteq (DOMAIN class') \X AllObs
        /\ \A m \in links' : /\ pc'[m[2][1]] \notin {"idle", "resolve"}
                             /\ asset'[m[2][1]] \in Lineage(m[1])'
    <3> SUFFICES ASSUME NEW l \in links
                 PROVE  LET m == <<IF l[1] = source THEN target ELSE l[1], l[2]>>
                        IN  /\ m \in (DOMAIN class') \X AllObs
                            /\ pc'[m[2][1]] \notin {"idle", "resolve"}
                            /\ asset'[m[2][1]] \in Lineage(m[1])'
      BY <2>1
    <3> DEFINE a == IF l[1] = source THEN target ELSE l[1]
    <3>1. a \in DOMAIN class' /\ asset'[l[2][1]] \in Lineage(a)'
      BY <2>3
    <3>2. l[2] \in AllObs /\ pc'[l[2][1]] \notin {"idle", "resolve"}
      BY <1>l, <2>1
    <3> HIDE DEF a
    <3>3. QED
      BY <3>1, <3>2 DEF a
  <2>5. ASSUME NEW x \in Batches,
               (pc[x] \in Looking \/ (pc[x] = "done" /\ Imported(x)))'
        PROVE  Unattached(x)' = {}
    <3>1. Unattached(x) = {}
      BY <2>1, <2>5 DEF LinksInv, Imported
    <3>2. ASSUME NEW o \in Obs(x) PROVE \E m \in links' : m[2] = o
      <4>1. PICK l \in links : l[2] = o
        BY <3>1 DEF Unattached
      <4>2. <<IF l[1] = source THEN target ELSE l[1], l[2]>> \in links'
        BY <2>1
      <4>3. QED
        BY <4>1, <4>2
    <3>3. QED
      BY <3>2 DEF Unattached
  <2>6. QED
    BY <2>1, <2>2, <2>4, <2>5 DEF LinksInv
<1>3. CASE UNCHANGED <<links, recent, mergedInto, class, pc, asset, load>>
  BY <1>3 DEF LinksInv, Lineage, FollowsMerges, Imported, Unattached
<1>4. QED
  BY <1>1, <1>2, <1>3 DEF Next, Operator, SetDisposition, Acknowledge, vars, tables, batchVars

-----------------------------------------------------------------------------
(* Classifications and findings. *)

(* A batch that classified stays classified. *)
LEMMA ClassifyingStays ==
  ASSUME PlaceInv, ChangesInv, StageInv, LinksInv, ProductInv, [Next]_vars,
         NEW c \in Batches, pc[c] \in Classifying
  PROVE  pc'[c] \in Classifying /\ top'[c] = top[c] /\ asset'[c] = asset[c]
<1>1. pc[c] \notin EarlyStages
  BY DEF EarlyStages, Classifying
<1>2. top'[c] = top[c] /\ asset'[c] = asset[c]
  BY <1>1, LateStays
<1>3. ASSUME NEW b \in Batches, IngestBatch(b) \/ Correlated(b) PROVE pc'[c] \in Classifying
  <2>1. CASE c # b
    BY <1>3, <2>1, OthersStay
  <2>2. CASE c = b
    <3>p. pc \in [Batches -> Stages]
      BY DEF PlaceInv
    <3>1. CASE \E s \in Stages : <<pc[b], s>> \in Moves /\ pc' = [pc EXCEPT ![b] = s]
      BY <2>2, <3>p, <3>1 DEF Moves, Classifying
    <3>2. CASE pc' = pc \/ \E s \in {"done", "failed"} : pc' = [pc EXCEPT ![b] = s]
      BY <2>2, <3>p, <3>2 DEF Classifying
    <3>3. QED
      BY <1>3, <3>1, <3>2, MoveOfBatch
  <2>3. QED
    BY <2>1, <2>2
<1>4. CASE Operator
  BY <1>4, StepOfOperator
<1>5. CASE UNCHANGED vars
  BY <1>5 DEF vars, batchVars
<1>6. QED
  BY <1>2, <1>3, <1>4, <1>5 DEF Next

(* The product of an asset stays its product, through merges. *)
LEMMA ProductStays ==
  ASSUME MergedInv, PlaceInv, ChangesInv, StageInv, LinksInv, ProductInv, [Next]_vars,
         NEW a, NEW family, Product(a, family)
  PROVE  /\ Product(a, family)'
         /\ \A t : a \in DOMAIN mergedInto' /\ mergedInto'[a] = t /\ t # NoAsset => Product(t, family)'
<1>1. PICK c \in Batches : asset[c] \in Lineage(a) /\ top[c].family = family /\ pc[c] \in Classifying
  BY DEF Product
<1>2. pc'[c] \in Classifying /\ top'[c] = top[c] /\ asset'[c] = asset[c]
  BY <1>1, ClassifyingStays
<1>3. MergesGrow
  BY NextMerges
<1> DEFINE x == asset[c]
<1>4. x \in Lineage(a)
  BY <1>1
<1>5. asset'[c] = x
  BY <1>2
<1> HIDE DEF x
<1>6. x \in Lineage(a)'
  BY <1>3, <1>4, LineageGrows
<1>7. ASSUME NEW t, a \in DOMAIN mergedInto', mergedInto'[a] = t, t # NoAsset PROVE x \in Lineage(t)'
  BY <1>3, <1>4, <1>7, LineageMoves
<1>8. QED
  BY <1>1, <1>2, <1>5, <1>6, <1>7 DEF Product

(* How strong a finding is stays right. *)
LEMMA StrengthStays ==
  ASSUME MergedInv, PlaceInv, ChangesInv, StageInv, LinksInv, ProductInv, [Next]_vars,
         NEW state, NEW a, NEW advisory, Strength(state, a, advisory)
  PROVE  /\ Strength(state, a, advisory)'
         /\ \A t : a \in DOMAIN mergedInto' /\ mergedInto'[a] = t /\ t # NoAsset
                     => Strength(state, t, advisory)'
<1>1. CASE state = "potential"
  BY <1>1 DEF Strength
<1>2. CASE state = "likely" /\ Product(a, advisory.family)
  BY <1>2, ProductStays DEF Strength
<1>3. QED
  BY <1>1, <1>2 DEF Strength

(* What Engine.Evaluate makes of an asset of unknown firmware (Correlate). *)
LEMMA Correlation ==
  ASSUME NEW advisory, NEW a, a.firmware = Unknown
  PROVE  /\ Finding(advisory, a) \in {"none", "potential", "likely"}
         /\ Finding(advisory, a) = "likely" => a.family = advisory.family /\ a.family # Unknown
         /\ Finding(advisory, a) = "none" => a.vendor # advisory.vendor \/ advisory.vendor = Unknown
<1> DEFINE confirmed == a.family # Unknown /\ a.family = advisory.family
           e == EvidenceOf(advisory, a)
<1>1. /\ e.vendor = a.vendor /\ e.family = a.family /\ e.firmware = Unknown
      /\ e.productConfirmed = confirmed /\ e.safeValidated = FALSE
  BY DEF EvidenceOf
<1> HIDE DEF e
<1>2. Finding(advisory, a) =
        IF e.vendor # advisory.vendor \/ advisory.vendor = Unknown THEN "none"
        ELSE IF e.productConfirmed /\ e.family = advisory.family THEN "likely" ELSE "potential"
  BY <1>1 DEF Finding, Correlate, e
<1>3. QED
  BY <1>1, <1>2

(* Where a finding comes from: from one there was, of the asset or of one  *)
(* merged into it, or from what a job evaluated.                           *)
LEMMA RowsFrom ==
  ASSUME MergedInv, FindingsInv, LinksInv, [Next]_vars, NEW new \in DOMAIN findings'
  PROVE  \/ \E k \in DOMAIN findings :
              /\ k.advisory = new.advisory /\ findings'[new].state = findings[k].state
              /\ \/ k.asset = new.asset
                 \/ /\ k.asset \in DOMAIN mergedInto' /\ mergedInto'[k.asset] = new.asset
                    /\ new.asset \in DOMAIN class
         \/ \E b \in Batches : \E f \in pending[b] :
              /\ UpsertFinding(b) /\ new.asset = asset[b] /\ new.advisory = f.advisory
              /\ findings'[new].state = f.state
<1>k. CASE UNCHANGED findings
  BY <1>k
<1>1. ASSUME NEW b \in Batches, UpsertFinding(b)
      PROVE  \/ new \in DOMAIN findings /\ findings'[new].state = findings[new].state
             \/ \E f \in pending[b] :
                  new.asset = asset[b] /\ new.advisory = f.advisory /\ findings'[new].state = f.state
  <2>1. PICK f \in pending[b] : RowWritten(b, f)
    BY <1>1, RowOfUpsert
  <2> DEFINE key == [asset |-> asset[b], advisory |-> f.advisory]
  <2>2. key.asset = asset[b] /\ key.advisory = f.advisory
    OBVIOUS
  <2>3. \/ findings' = findings
        \/ key \notin DOMAIN findings /\ findings' = Added(findings, key, NewRow(f.state))
        \/ key \in DOMAIN findings
           /\ findings' = [findings EXCEPT ![key] = Reevaluated(findings[key], f.state)]
    BY <2>1 DEF RowWritten
  <2> HIDE DEF key
  <2>4. NewRow(f.state).state = f.state
    BY DEF NewRow
  <2>5. key \in DOMAIN findings => Reevaluated(findings[key], f.state).state = f.state
    <3> SUFFICES ASSUME key \in DOMAIN findings
                 PROVE  Reevaluated(findings[key], f.state).state = f.state
      OBVIOUS
    <3>1. RowOf(findings[key])
      BY DEF FindingsInv
    <3> DEFINE old == findings[key]
               h == IF old.state = f.state THEN old.history ELSE Append(old.history, f.state)
    <3>2. Reevaluated(old, f.state) = [old EXCEPT !.state = f.state, !.history = h]
      BY DEF Reevaluated
    <3>3. old = [state |-> old.state, disposition |-> old.disposition, history |-> old.history]
      BY <3>1 DEF RowOf
    <3> HIDE DEF h, old
    <3>4. Reevaluated(old, f.state).state = f.state
      BY <3>2, <3>3
    <3>5. QED
      BY <3>4 DEF old
  <2>6. CASE findings' = findings
    BY <2>6
  <2>7. CASE key \notin DOMAIN findings /\ findings' = Added(findings, key, NewRow(f.state))
    BY <2>2, <2>4, <2>7 DEF Added
  <2>8. CASE key \in DOMAIN findings
             /\ findings' = [findings EXCEPT ![key] = Reevaluated(findings[key], f.state)]
    BY <2>2, <2>5, <2>8
  <2>9. QED
    BY <2>3, <2>6, <2>7, <2>8
<1>2. ASSUME NEW source \in Assets, NEW target \in Assets, Merge(source, target)
      PROVE  \E k \in DOMAIN findings :
               /\ k.advisory = new.advisory /\ findings'[new].state = findings[k].state
               /\ \/ k.asset = new.asset
                  \/ /\ k.asset \in DOMAIN mergedInto' /\ mergedInto'[k.asset] = new.asset
                     /\ new.asset \in DOMAIN class
  <2> DEFINE moved(k) == [k EXCEPT !.asset = target]
             Back(k) == IF k \in DOMAIN findings THEN k ELSE [k EXCEPT !.asset = source]
             theirs == {k \in DOMAIN findings : k.asset = source}
             kept == {k \in DOMAIN findings : k.asset # source} \cup {moved(k) : k \in theirs}
  <2>1. findings' = [k \in kept |-> findings[Back(k)]]
    BY <1>2 DEF Merge, MoveFindings
  <2>2. new \in kept /\ findings'[new] = findings[Back(new)]
    BY <2>1
  <2>3. CASE new \in DOMAIN findings
    BY <2>2, <2>3
  <2>4. CASE new \notin DOMAIN findings
    <3>1. PICK k \in theirs : new = moved(k)
      BY <2>2, <2>4
    <3>2. k \in DOMAIN findings /\ k.asset = source /\ k = [asset |-> k.asset, advisory |-> k.advisory]
      BY DEF FindingsInv
    <3>3. /\ [k EXCEPT !.asset = target] = [asset |-> target, advisory |-> k.advisory]
          /\ [[k EXCEPT !.asset = target] EXCEPT !.asset = k.asset] = k
      BY <3>2, MovedKey
    <3>4. new = [asset |-> target, advisory |-> k.advisory]
      BY <3>1, <3>3
    <3>5. Back(new) = k
      BY <2>4, <3>1, <3>2, <3>3
    <3>6. source \in DOMAIN mergedInto' /\ mergedInto'[source] = target /\ target \in DOMAIN class
      BY <1>2 DEF Merge, MergedInv
    <3>7. new.asset = target /\ new.advisory = k.advisory
      BY <3>4
    <3> HIDE DEF moved, Back, theirs, kept
    <3>8. QED
      BY <2>2, <3>2, <3>5, <3>6, <3>7
  <2>5. QED
    BY <2>3, <2>4
<1>3. ASSUME NEW key \in DOMAIN findings, NEW word, SetDisposition(key, word)
      PROVE  new \in DOMAIN findings /\ findings'[new].state = findings[new].state
  <2>1. findings' = [findings EXCEPT ![key] = [findings[key] EXCEPT !.disposition = word]]
    BY <1>3 DEF SetDisposition
  <2>2. RowOf(findings[key])
    BY DEF FindingsInv
  <2> DEFINE old == findings[key]
  <2>3. [old EXCEPT !.disposition = word].state = old.state
    BY <2>2 DEF RowOf
  <2> HIDE DEF old
  <2>4. QED
    BY <2>1, <2>3 DEF old
<1>4. ASSUME NEW b \in Batches, IngestBatch(b) \/ Correlated(b), ~UpsertFinding(b) PROVE UNCHANGED findings
  BY <1>4, Untouched
<1>5. QED
  BY <1>k, <1>1, <1>2, <1>3, <1>4 DEF Next, Operator, Acknowledge, vars, tables

(* Every step keeps what findings and assets may say. *)
LEMMA NextProducts ==
  ASSUME MergedInv, FindingsInv, PlaceInv, ChangesInv, StageInv, LinksInv, ProductInv, [Next]_vars
  PROVE  ProductInv'
<1>f. Blank.family = Unknown /\ Blank.firmware = Unknown
  BY DEF Blank
<1>c. DOMAIN class \subseteq DOMAIN class' /\ DOMAIN class \subseteq Assets
  <2>1. DOMAIN class \subseteq DOMAIN class'
    <3>1. ASSUME NEW b \in Batches, Resolve(b) PROVE DOMAIN class \subseteq DOMAIN class'
      <4>1. class' = class \/ \E a \in Assets : class' = Added(class, a, Blank)
        BY <3>1, ResolveOfBatch, Zenon
      <4>2. QED
        BY <4>1 DEF Added
    <3>2. ASSUME NEW b \in Batches, IngestBatch(b) \/ Correlated(b), ~Resolve(b)
          PROVE  DOMAIN class \subseteq DOMAIN class'
      BY <3>2, StepOfBatch
    <3>3. QED
      BY <3>1, <3>2, StepOfOperator DEF Next, vars, tables
  <2>2. QED
    BY <2>1 DEF PlaceInv
<1>w. \A b \in Batches : pc[b] \in WorkingStages => asset[b] \in DOMAIN class
  BY DEF PlaceInv
<1>p. ASSUME NEW b \in Batches, EvaluateAdvisories(b), NEW f \in pending'[b]
      PROVE  Strength(f.state, asset[b], f.advisory) \/ f \in pending[b]
  <2>1. \/ pending' = pending
        \/ pending' = [pending EXCEPT ![b] = {g \in Evaluated(class[asset[b]]) : g.state # "none"}]
    BY <1>p DEF EvaluateAdvisories
  <2>2. CASE pending' = pending
    BY <1>p, <2>2
  <2>3. CASE pending' = [pending EXCEPT ![b] = {g \in Evaluated(class[asset[b]]) : g.state # "none"}]
    <3>1. f \in Evaluated(class[asset[b]]) /\ f.state # "none"
      BY <1>p, <2>3 DEF ProductInv
    <3> DEFINE a == class[asset[b]]
    <3>2. PICK i \in DOMAIN AdvisoryBundle :
             f = [place |-> i, advisory |-> AdvisoryBundle[i], state |-> Finding(AdvisoryBundle[i], a)]
      BY <3>1 DEF Evaluated
    <3>3. asset[b] \in DOMAIN class
      BY <1>p, <1>w DEF EvaluateAdvisories, At, WorkingStages
    <3>4. a = Blank \/ \E c \in Batches : asset[c] = asset[b] /\ top[c] = a /\ pc[c] \in Classifying
      BY <3>3 DEF ProductInv
    <3>5. a.firmware = Unknown
      BY <3>4, <1>f DEF ProductInv
    <3>6. asset[b] \in Lineage(asset[b])
      BY <3>3, <1>c, LineageSelf
    <3> HIDE DEF a
    <3>7. f.advisory = AdvisoryBundle[i] /\ f.state = Finding(AdvisoryBundle[i], a)
      BY <3>2
    <3>8. /\ f.state \in {"potential", "likely"}
          /\ f.state = "likely" => a.family = f.advisory.family /\ a.family # Unknown
      BY <3>1, <3>5, <3>7, Correlation
    <3>9. f.state = "likely" => Product(asset[b], f.advisory.family)
      BY <3>4, <3>6, <3>8, <1>f DEF Product
    <3>10. QED
      BY <3>8, <3>9 DEF Strength
  <2>4. QED
    BY <2>1, <2>2, <2>3
<1>1. DOMAIN pending' = Batches /\ \A b \in Batches : top'[b].firmware = Unknown
  <2>1. ASSUME NEW b \in Batches, Evaluate(b) PROVE \A x \in Batches : top'[x].firmware = Unknown
    <3>1. PICK ev : top' = [top EXCEPT ![b] = Classified(ev)]
      BY <2>1 DEF Evaluate
    <3>2. Classified(ev).firmware = Unknown
      BY <1>f DEF Classified
    <3>3. QED
      BY <3>1, <3>2 DEF ProductInv, PlaceInv
  <2>2. ASSUME NEW b \in Batches, IngestBatch(b) \/ Correlated(b) PROVE DOMAIN pending' = Batches
    <3>1. CASE UNCHANGED pending
      BY <3>1 DEF ProductInv
    <3>2. CASE EvaluateAdvisories(b) \/ UpsertFinding(b) \/ Report(b)
      BY <3>2, RowOfUpsert DEF EvaluateAdvisories, Report, RowWritten, ProductInv
    <3>3. QED
      BY <2>2, <3>1, <3>2, Untouched
  <2>3. CASE Operator \/ UNCHANGED vars
    BY <2>3, StepOfOperator DEF Operator, Merge, SetDisposition, Acknowledge, vars, batchVars, ProductInv
  <2>4. ASSUME NEW b \in Batches, IngestBatch(b) \/ Correlated(b)
        PROVE  \A x \in Batches : top'[x].firmware = Unknown
    BY <2>1, <2>4, Untouched DEF ProductInv
  <2>5. QED
    BY <2>2, <2>3, <2>4 DEF Next
<1>2. ASSUME NEW a \in DOMAIN class', class'[a] # Blank
      PROVE  \E c \in Batches : asset'[c] = a /\ top'[c] = class'[a] /\ pc'[c] \in Classifying
  <2>1. CASE a \in DOMAIN class /\ class'[a] = class[a]
    <3>1. PICK c \in Batches : asset[c] = a /\ top[c] = class[a] /\ pc[c] \in Classifying
      BY <1>2, <2>1 DEF ProductInv
    <3>2. pc'[c] \in Classifying /\ top'[c] = top[c] /\ asset'[c] = asset[c]
      BY <3>1, ClassifyingStays
    <3>3. QED
      BY <2>1, <3>1, <3>2
  <2>2. ASSUME NEW b \in Batches, UpdateClassification(b)
        PROVE  (a \in DOMAIN class /\ class'[a] = class[a])
               \/ (asset'[b] = a /\ top'[b] = class'[a] /\ pc'[b] \in Classifying)
    <3>1. /\ UNCHANGED <<asset, top>> /\ pc' = [pc EXCEPT ![b] = "titles"]
          /\ class' = class \/ class' = [class EXCEPT ![asset[b]] = top[b]]
      BY <2>2 DEF UpdateClassification, Goto
    <3>2. QED
      BY <3>1 DEF PlaceInv, Classifying
  <2>3. ASSUME NEW b \in Batches, IngestBatch(b) \/ Correlated(b), ~UpdateClassification(b)
        PROVE  a \in DOMAIN class /\ class'[a] = class[a]
    <3>1. CASE Resolve(b)
      <4>1. class' = class \/ \E new \in Assets : class' = Added(class, new, Blank)
        BY <3>1, ResolveOfBatch
      <4>2. QED
        BY <1>2, <4>1 DEF Added
    <3>2. CASE ~Resolve(b)
      BY <1>2, <2>3, <3>2, Untouched
    <3>3. QED
      BY <3>1, <3>2
  <2>4. CASE Operator \/ UNCHANGED vars
    BY <2>4, <2>1, StepOfOperator DEF vars, tables
  <2>5. QED
    BY <2>1, <2>2, <2>3, <2>4 DEF Next
<1>3. ASSUME NEW b \in Batches, NEW f \in pending'[b]
      PROVE  Strength(f.state, asset[b], f.advisory)' /\ asset'[b] = asset[b]
  <2>1. Strength(f.state, asset[b], f.advisory)
    <3>1. ASSUME NEW x \in Batches, IngestBatch(x) \/ Correlated(x), x # b PROVE f \in pending[b]
      BY <1>3, <3>1, OthersStay
    <3>2. ASSUME IngestBatch(b) \/ Correlated(b), ~EvaluateAdvisories(b) PROVE f \in pending[b]
      <4>1. CASE UpsertFinding(b)
        <5>1. PICK g \in pending[b] : RowWritten(b, g)
          BY <4>1, RowOfUpsert
        <5>2. QED
          BY <1>3, <5>1 DEF RowWritten, ProductInv
      <4>2. CASE Report(b)
        BY <1>3, <4>2 DEF Report, ProductInv
      <4>3. QED
        BY <1>3, <3>2, <4>1, <4>2, Untouched
    <3>3. CASE Operator \/ UNCHANGED vars
      <4>1. UNCHANGED pending
        BY <3>3 DEF Operator, Merge, SetDisposition, Acknowledge, vars, batchVars
      <4>2. QED
        BY <1>3, <4>1 DEF ProductInv
    <3>4. CASE EvaluateAdvisories(b)
      BY <3>4, <1>3, <1>p DEF ProductInv
    <3>5. QED
      BY <3>1, <3>2, <3>3, <3>4 DEF Next, ProductInv
  <2>2. asset'[b] = asset[b]
    <3>1. ASSUME NEW x \in Batches, Resolve(x) PROVE asset'[b] = asset[b]
      <4>1. CASE x # b
        BY <3>1, <4>1, OthersStay DEF IngestBatch
      <4>2. CASE x = b
        <5>1. pc[b] = "resolve" /\ pending' = pending
          BY <3>1, <4>2 DEF Resolve
        <5>2. QED
          BY <5>1, <1>3 DEF StageInv
      <4>3. QED
        BY <4>1, <4>2
    <3>2. QED
      BY <3>1, Untouched, StepOfOperator DEF Next, vars, batchVars
  <2>3. PICK a : a = asset[b]
    OBVIOUS
  <2>4. Strength(f.state, a, f.advisory)
    BY <2>1, <2>3
  <2>5. Strength(f.state, a, f.advisory)'
    BY <2>4, StrengthStays
  <2>6. QED
    BY <2>2, <2>3, <2>5 DEF Strength, Product, Lineage
<1>4. ASSUME NEW new \in DOMAIN findings'
      PROVE  new.asset \in DOMAIN class' /\ Strength(findings[new].state, new.asset, new.advisory)'
  <2>1. CASE \E k \in DOMAIN findings :
               /\ k.advisory = new.advisory /\ findings'[new].state = findings[k].state
               /\ \/ k.asset = new.asset
                  \/ /\ k.asset \in DOMAIN mergedInto' /\ mergedInto'[k.asset] = new.asset
                     /\ new.asset \in DOMAIN class
    <3>1. PICK k \in DOMAIN findings :
               /\ k.advisory = new.advisory /\ findings'[new].state = findings[k].state
               /\ \/ k.asset = new.asset
                  \/ /\ k.asset \in DOMAIN mergedInto' /\ mergedInto'[k.asset] = new.asset
                     /\ new.asset \in DOMAIN class
      BY <2>1
    <3>p. PICK state, advisory, a, t :
             state = findings[k].state /\ advisory = k.advisory /\ a = k.asset /\ t = new.asset
      OBVIOUS
    <3>2. Strength(state, a, advisory) /\ a \in DOMAIN class
      BY <3>p DEF ProductInv
    <3>3. /\ findings'[new].state = state /\ new.advisory = advisory
          /\ a = t \/ (a \in DOMAIN mergedInto' /\ mergedInto'[a] = t /\ t \in DOMAIN class)
      BY <3>1, <3>p
    <3>4. t \in DOMAIN class' /\ t \in DOMAIN class
      BY <3>2, <3>3, <1>c
    <3>5. t # NoAsset
      BY <3>4, <1>c, DeriveAssumption
    <3>6. Strength(state, t, advisory)'
      BY <3>2, <3>3, <3>5, StrengthStays
    <3>7. QED
      BY <3>p, <3>3, <3>4, <3>6 DEF Strength
  <2>2. CASE \E b \in Batches : \E f \in pending[b] :
               /\ UpsertFinding(b) /\ new.asset = asset[b] /\ new.advisory = f.advisory
               /\ findings'[new].state = f.state
    <3>b. PICK b \in Batches : \E f \in pending[b] :
               /\ UpsertFinding(b) /\ new.asset = asset[b] /\ new.advisory = f.advisory
               /\ findings'[new].state = f.state
      BY <2>2
    <3>1. PICK f \in pending[b] :
               /\ UpsertFinding(b) /\ new.asset = asset[b] /\ new.advisory = f.advisory
               /\ findings'[new].state = f.state
      BY <3>b
    <3>2. asset[b] \in DOMAIN class'
      BY <3>1, <1>w, <1>c DEF UpsertFinding, At, WorkingStages
    <3>p. PICK state, advisory, a : state = f.state /\ advisory = f.advisory /\ a = asset[b]
      OBVIOUS
    <3>3. Strength(state, a, advisory)
      BY <3>p DEF ProductInv
    <3>4. findings'[new].state = state /\ new.advisory = advisory /\ new.asset = a /\ a \in DOMAIN class'
      BY <3>1, <3>2, <3>p
    <3>5. Strength(state, a, advisory)'
      BY <3>3, StrengthStays
    <3>6. QED
      BY <3>4, <3>5 DEF Strength
  <2>3. QED
    BY <2>1, <2>2, RowsFrom
<1>5. QED
  BY <1>1, <1>2, <1>3, <1>4 DEF ProductInv

-----------------------------------------------------------------------------
(* Imports. *)

(* Another vendor named for the asset stays named. *)
LEMMA OverruledStays ==
  ASSUME PlaceInv, ChangesInv, StageInv, LinksInv, ProductInv, [Next]_vars,
         NEW b \in Batches, pc[b] \in Classifying, Overruled(b)
  PROVE  Overruled(b)'
<1>1. PICK c \in Batches : /\ asset[c] = asset[b] /\ top[c] # Blank /\ top[c].vendor # top[b].vendor
                           /\ pc[c] \in Classifying
  BY DEF Overruled, Classifying
<1>2. /\ pc'[c] \in Classifying /\ top'[c] = top[c] /\ asset'[c] = asset[c]
      /\ top'[b] = top[b] /\ asset'[b] = asset[b]
  BY <1>1, ClassifyingStays
<1>3. QED
  BY <1>1, <1>2 DEF Overruled, Classifying

(* While no call fails, what waits to be a finding becomes one, and stays  *)
(* one on the asset that stands for its own.                               *)
LEMMA CoveredStays ==
  ASSUME MergedInv, FindingsInv, PlaceInv, ChangesInv, StageInv, LinksInv, ProductInv, [Next]_vars,
         faults = 0, faults' = 0,
         NEW b \in Batches, pc[b] \in {"upsert", "done"}, NEW advisory, Covered(b, advisory)
  PROVE  Covered(b, advisory)'
<1>0. pc[b] \in Classifying /\ asset'[b] = asset[b]
  BY ClassifyingStays DEF Classifying
<1>1. CASE Overruled(b)
  BY <1>0, <1>1, OverruledStays DEF Covered
<1>2. ASSUME NEW k \in DOMAIN findings, k.advisory = advisory, asset[b] \in Lineage(k.asset)
      PROVE  Covered(b, advisory)'
  <2>1. StillFound /\ MergesGrow
    BY NextFindings, NextMerges
  <2>2. PICK kept \in DOMAIN findings' :
           kept.advisory = k.advisory /\ kept.asset \in {k.asset, mergedInto'[k.asset]}
    BY <2>1 DEF StillFound
  <2>3. PICK x, a : x = asset[b] /\ a = k.asset
    OBVIOUS
  <2>4. x \in Lineage(a)
    BY <1>2, <2>3
  <2>5. CASE kept.asset = k.asset
    <3>1. x \in Lineage(a)'
      BY <2>1, <2>4, LineageGrows
    <3>2. QED
      BY <1>0, <1>2, <2>2, <2>3, <2>5, <3>1 DEF Covered
  <2>6. CASE kept.asset = mergedInto'[k.asset]
    <3>1. kept.asset # NoAsset
      <4>1. ProductInv' /\ PlaceInv'
        BY NextProducts, NextPlaces
      <4>2. QED
        BY <4>1, DeriveAssumption DEF ProductInv, PlaceInv
    <3>2. a \in DOMAIN mergedInto'
      BY <2>1, <2>3 DEF MergesGrow, ProductInv, MergedInv
    <3>3. PICK t : t = kept.asset
      OBVIOUS
    <3>4. x \in Lineage(t)'
      BY <2>1, <2>3, <2>4, <2>6, <3>1, <3>2, <3>3, LineageMoves
    <3>5. QED
      BY <1>0, <1>2, <2>2, <2>3, <3>3, <3>4 DEF Covered
  <2>7. QED
    BY <2>2, <2>5, <2>6
<1>3. ASSUME NEW f \in pending[b], f.advisory = advisory PROVE Covered(b, advisory)'
  <2>1. CASE f \in pending'[b]
    BY <1>3, <2>1 DEF Covered
  <2>2. ASSUME UpsertFinding(b), f \notin pending'[b] PROVE Covered(b, advisory)'
    <3>1. PICK g \in pending[b] : RowWritten(b, g)
      BY <2>2, RowOfUpsert
    <3> DEFINE key == [asset |-> asset[b], advisory |-> g.advisory]
    <3>2. /\ pending' = [pending EXCEPT ![b] = pending[b] \ {g}]
          /\ \/ key \notin DOMAIN findings /\ findings' = Added(findings, key, NewRow(g.state))
             \/ key \in DOMAIN findings
                /\ findings' = [findings EXCEPT ![key] = Reevaluated(findings[key], g.state)]
      BY <2>2, <3>1 DEF RowWritten
    <3>3. f = g
      BY <2>2, <3>2 DEF ProductInv
    <3>4. key.asset = asset[b] /\ key.advisory = advisory
      BY <1>3, <3>3
    <3> HIDE DEF key
    <3>5. key \in DOMAIN findings'
      BY <3>2 DEF Added
    <3>6. PICK x \in Assets : x = asset[b]
      <4>1. asset[b] \in DOMAIN class
        BY <2>2 DEF PlaceInv, UpsertFinding, At, WorkingStages
      <4>2. QED
        BY <4>1 DEF PlaceInv
    <3>7. x \in Lineage(x)'
      BY LineageSelf
    <3>8. PICK k \in DOMAIN findings' : k = key
      BY <3>5
    <3>9. k.asset = x /\ k.advisory = advisory
      BY <3>4, <3>6, <3>8
    <3>10. QED
      BY <1>0, <3>6, <3>7, <3>9 DEF Covered
  <2>3. ASSUME f \notin pending'[b] PROVE UpsertFinding(b)
    <3>1. ASSUME NEW x \in Batches, IngestBatch(x) \/ Correlated(x), x # b PROVE FALSE
      BY <1>3, <2>3, <3>1, OthersStay
    <3>2. ~Report(b) /\ ~EvaluateAdvisories(b)
      <4>1. ASSUME Report(b) PROVE FALSE
        BY <1>3, <2>3, <4>1 DEF Report, Fault
      <4>2. QED
        BY <4>1 DEF EvaluateAdvisories, At
    <3>3. Operator \/ UNCHANGED vars => UNCHANGED pending
      BY DEF Operator, Merge, SetDisposition, Acknowledge, vars, batchVars
    <3>4. QED
      BY <1>3, <2>3, <3>1, <3>2, <3>3, Untouched DEF Next
  <2>4. QED
    BY <2>1, <2>2, <2>3
<1>4. QED
  BY <1>1, <1>2, <1>3 DEF Covered

(* While no call fails, a batch goes on step by step. *)
LEMMA Proceeds ==
  ASSUME PlaceInv, ChangesInv, StageInv, LinksInv, ProductInv, [Next]_vars, faults = 0, faults' = 0,
         NEW b \in Batches, pc'[b] # pc[b]
  PROVE  <<pc[b], pc'[b]>> \in Moves /\ (IngestBatch(b) \/ Correlated(b))
<1>1. PICK x \in Batches : IngestBatch(x) \/ Correlated(x)
  BY StepOfOperator DEF Next, vars, batchVars
<1>2. x = b
  BY <1>1, OthersStay
<1>3. \E s \in Stages : <<pc[b], s>> \in Moves /\ pc' = [pc EXCEPT ![b] = s]
  <2>1. faults' # faults + 1
    OBVIOUS
  <2>2. QED
    BY <1>1, <1>2, <2>1, MoveOfBatch
<1>4. QED
  BY <1>1, <1>2, <1>3 DEF PlaceInv

(* While no call fails, an asset that was classified shows what a batch of *)
(* it named last.                                                          *)
Shows(b) ==
  \E c \in Batches : /\ asset[c] = asset[b] /\ top[c] # Blank
                    /\ top[c] = class[asset[b]] /\ pc[c] \in Classifying
LEMMA ShowsStays ==
  ASSUME PlaceInv, ChangesInv, StageInv, LinksInv, ProductInv, [Next]_vars, faults = 0, faults' = 0,
         Named, NEW b \in Batches, pc[b] \in Classifying, asset[b] \in DOMAIN class, Shows(b)
  PROVE  Shows(b)'
<1>1. PICK c \in Batches : /\ asset[c] = asset[b] /\ top[c] # Blank
                           /\ top[c] = class[asset[b]] /\ pc[c] \in Classifying
  BY DEF Shows
<1>2. /\ pc'[c] \in Classifying /\ top'[c] = top[c] /\ asset'[c] = asset[c]
      /\ top'[b] = top[b] /\ asset'[b] = asset[b]
  BY <1>1, ClassifyingStays
<1>3. CASE class'[asset[b]] = class[asset[b]]
  BY <1>1, <1>2, <1>3 DEF Shows
<1>4. ASSUME NEW d \in Batches, UpdateClassification(d)
      PROVE  class'[asset[b]] = class[asset[b]] \/ Shows(b)'
  <2>1. /\ class' = [class EXCEPT ![asset[d]] = top[d]]
        /\ UNCHANGED <<asset, top>> /\ pc' = [pc EXCEPT ![d] = "titles"]
    BY <1>4 DEF UpdateClassification, Fault, Goto
  <2>d. top[d] # Blank
    BY <1>4 DEF UpdateClassification, At, Named
  <2>2. CASE asset[d] = asset[b]
    BY <2>1, <2>d, <2>2 DEF Shows, Classifying, PlaceInv
  <2>3. CASE asset[d] # asset[b]
    BY <2>1, <2>3
  <2>4. QED
    BY <2>2, <2>3
<1>5. ASSUME NEW d \in Batches, IngestBatch(d) \/ Correlated(d), ~UpdateClassification(d)
      PROVE  class'[asset[b]] = class[asset[b]]
  <2>1. CASE Resolve(d)
    BY <2>1, ResolveOfBatch DEF Added
  <2>2. CASE ~Resolve(d)
    BY <1>5, <2>2, Untouched
  <2>3. QED
    BY <2>1, <2>2
<1>6. QED
  BY <1>3, <1>4, <1>5, StepOfOperator DEF Next, vars, tables

(* What a batch is about to write names something. *)
LEMMA NextNamed ==
  ASSUME PlaceInv, ChangesInv, StageInv, LinksInv, ProductInv, Named, [Next]_vars PROVE Named'
<1>p. pc \in [Batches -> Stages] /\ DOMAIN top = Batches
  BY DEF PlaceInv
<1>1. ASSUME NEW b \in Batches, IngestBatch(b) \/ Correlated(b) PROVE Named'
  <2>1. \A x \in Batches \ {b} : pc'[x] = pc[x] /\ top'[x] = top[x]
    BY <1>1, OthersStay
  <2>2. ASSUME pc'[b] \in {"read", "write"} PROVE top'[b] # Blank
    <3>1. CASE Evaluate(b)
      <4>1. PICK ev : /\ top' = [top EXCEPT ![b] = Classified(ev)]
                      /\ Goto(b, IF Candidates(ev) = {} THEN "titles" ELSE "read")
        BY <3>1 DEF Evaluate
      <4>2. Candidates(ev) # {}
        BY <1>p, <2>2, <4>1 DEF Goto
      <4>3. Classified(ev).identified /\ ~Blank.identified
        BY <4>2 DEF Classified, Blank
      <4>4. QED
        BY <1>p, <4>1, <4>3
    <3>2. CASE ~Evaluate(b)
      <4>1. top' = top
        BY <1>1, <3>2, Untouched
      <4>2. pc[b] \in {"read", "write"}
        <5>1. CASE pc' = pc
          BY <2>2, <5>1
        <5>2. CASE \E s \in Stages : <<pc[b], s>> \in Moves /\ pc' = [pc EXCEPT ![b] = s]
          <6>1. <<pc[b], pc'[b]>> \in Moves
            BY <1>p, <5>2
          <6>2. pc[b] # "evaluate"
            <7>1. ASSUME pc[b] = "evaluate" PROVE FALSE
              <8>1. Report(b)
                BY <1>1, <3>2, <7>1 DEF IngestBatch, Correlated, Collect, Resolve, AttachRest, Detect,
                   ReadAsset, UpdateClassification, DetectTitle, EvaluateAdvisories,
                   UpsertFinding, Finish, At
              <8>2. pc' = pc \/ Goto(b, "failed")
                BY <8>1 DEF Report
              <8>3. QED
                BY <1>p, <2>2, <7>1, <8>2 DEF Goto
            <7>2. QED
              BY <7>1
          <6>3. QED
            BY <2>2, <6>1, <6>2 DEF Moves
        <5>3. CASE \E s \in {"done", "failed"} : pc' = [pc EXCEPT ![b] = s]
          BY <1>p, <2>2, <5>3
        <5>4. QED
          BY <1>1, <5>1, <5>2, <5>3, MoveOfBatch
      <4>3. QED
        BY <4>1, <4>2 DEF Named
    <3>3. QED
      BY <3>1, <3>2
  <2>3. QED
    BY <2>1, <2>2 DEF Named
<1>2. CASE Operator \/ UNCHANGED vars
  BY <1>2, StepOfOperator DEF Named, vars, batchVars
<1>3. QED
  BY <1>1, <1>2 DEF Next

(* Every step keeps what is said of imports. *)
LEMMA NextDerived ==
  ASSUME MergedInv, FindingsInv, PlaceInv, ChangesInv, StageInv, LinksInv, ProductInv, DerivedInv,
         [Next]_vars
  PROVE  DerivedInv'
<1>p. pc \in [Batches -> Stages] /\ Classifying \subseteq Stages
  BY DEF PlaceInv, Classifying, Stages
<1>1. UNCHANGED load
  BY Untouched DEF Next, Operator, Merge, SetDisposition, Acknowledge, vars
<1>2. ASSUME faults' = 0, NEW b \in Batches, top'[b] # Blank, pc'[b] \in Classifying
      PROVE  faults = 0 /\ Shows(b)'
  <2>1. faults = 0
    BY <1>2, ChangesStay
  <2>2. CASE pc[b] \in Classifying
    <3>1. top[b] # Blank
      BY <1>2, <2>2, ClassifyingStays
    <3>2. Shows(b) /\ asset[b] \in DOMAIN class
      BY <2>1, <2>2, <3>1 DEF DerivedInv, Shows
    <3>3. QED
      BY <1>2, <2>1, <2>2, <3>2, ShowsStays DEF DerivedInv
  <2>3. CASE pc[b] \notin Classifying
    <3>1. <<pc[b], pc'[b]>> \in Moves /\ (IngestBatch(b) \/ Correlated(b))
      BY <1>2, <2>1, <2>3, Proceeds
    <3>2. pc'[b] = "titles" /\ pc[b] \in {"evaluate", "write"}
      BY <1>2, <2>3, <3>1 DEF Moves, Classifying
    <3>3. CASE Evaluate(b)
      <4>1. PICK observations \in {Observed(asset[b]), {}} :
               /\ top' = [top EXCEPT ![b] = Classified(AsEvidence(observations))]
               /\ Goto(b, IF Candidates(AsEvidence(observations)) = {} THEN "titles" ELSE "read")
        BY <3>3 DEF Evaluate
      <4>2. Candidates(AsEvidence(observations)) = {}
        BY <3>2, <4>1, <1>p DEF Goto
      <4>3. top'[b] = Blank
        BY <4>1, <4>2 DEF Classified, PlaceInv
      <4>4. QED
        BY <1>2, <4>3
    <3>4. CASE UpdateClassification(b)
      <4>1. /\ class' = [class EXCEPT ![asset[b]] = top[b]] /\ asset[b] \in DOMAIN class
            /\ UNCHANGED <<asset, top>>
        BY <1>2, <2>1, <3>4 DEF UpdateClassification, Fault, PlaceInv, At, WorkingStages
      <4>2. QED
        BY <1>2, <2>1, <4>1 DEF Shows
    <3>5. Evaluate(b) \/ UpdateClassification(b)
      <4>1. pc'[b] # pc[b]
        BY <3>2
      <4>2. QED
        BY <3>1, <3>2, <4>1 DEF IngestBatch, Correlated, Collect, Resolve, AttachRest, Detect, ReadAsset,
           DetectTitle, EvaluateAdvisories, UpsertFinding, Finish, At, Report, StageInv, Goto, PlaceInv
    <3>6. QED
      BY <3>3, <3>4, <3>5
  <2>4. QED
    BY <2>1, <2>2, <2>3
<1>3. ASSUME faults' = 0, NEW b \in Batches, top'[b] # Blank, pc'[b] \in {"upsert", "done"},
             NEW n \in DOMAIN AdvisoryBundle, top'[b].vendor = AdvisoryBundle[n].vendor
      PROVE  Covered(b, AdvisoryBundle[n])'
  <2>1. faults = 0
    BY <1>3, ChangesStay
  <2>2. CASE pc[b] \in {"upsert", "done"}
    <3>1. top'[b] = top[b]
      BY <2>2, ClassifyingStays DEF Classifying
    <3>2. Covered(b, AdvisoryBundle[n])
      BY <1>3, <2>1, <2>2, <3>1 DEF DerivedInv
    <3>3. QED
      BY <1>3, <2>1, <2>2, <3>2, CoveredStays
  <2>3. CASE pc[b] \notin {"upsert", "done"}
    <3>1. <<pc[b], pc'[b]>> \in Moves /\ (IngestBatch(b) \/ Correlated(b))
      BY <1>3, <2>1, <2>3, Proceeds
    <3>2. pc[b] = "findings" /\ pc'[b] = "upsert"
      BY <1>3, <2>3, <3>1 DEF Moves
    <3>3. EvaluateAdvisories(b)
      BY <3>1, <3>2 DEF IngestBatch, Correlated, Collect, Resolve, AttachRest, Detect, ReadAsset, Evaluate,
         UpdateClassification, DetectTitle, UpsertFinding, Finish, At, Report, Goto, PlaceInv
    <3>4. /\ pending' = [pending EXCEPT ![b] = {f \in Evaluated(class[asset[b]]) : f.state # "none"}]
          /\ UNCHANGED <<asset, top>> /\ asset[b] \in DOMAIN class
      <4>1. asset[b] \in DOMAIN class /\ UNCHANGED <<asset, top>>
        BY <3>3 DEF EvaluateAdvisories, At, PlaceInv, WorkingStages
      <4>2. QED
        BY <1>3, <1>p, <2>1, <3>2, <3>3, <4>1 DEF EvaluateAdvisories, Fault, Goto
    <3>5. PICK c \in Batches : /\ asset[c] = asset[b] /\ top[c] # Blank
                               /\ top[c] = class[asset[b]] /\ pc[c] \in Classifying
      BY <1>3, <2>1, <3>2, <3>4 DEF DerivedInv, Classifying
    <3>6. CASE top[c].vendor # top[b].vendor
      <4>1. Overruled(b)
        BY <3>5, <3>6 DEF Overruled, Classifying
      <4>2. Overruled(b)'
        BY <4>1, <3>2, OverruledStays DEF Classifying
      <4>3. QED
        BY <4>2 DEF Covered
    <3>7. CASE top[c].vendor = top[b].vendor
      <4> DEFINE a == class[asset[b]]
                 f == [place |-> n, advisory |-> AdvisoryBundle[n], state |-> Finding(AdvisoryBundle[n], a)]
      <4>1. a.firmware = Unknown /\ a.vendor = AdvisoryBundle[n].vendor
        BY <1>3, <3>4, <3>5, <3>7 DEF ProductInv
      <4>2. AdvisoryBundle[n].vendor # Unknown
        BY DeriveAssumption
      <4>3. Finding(AdvisoryBundle[n], a) # "none"
        BY <4>1, <4>2, Correlation
      <4>4. f \in Evaluated(a)
        BY DEF Evaluated
      <4>5. f \in pending'[b] /\ f.advisory = AdvisoryBundle[n]
        BY <3>4, <4>3, <4>4 DEF ProductInv
      <4> HIDE DEF f
      <4>6. QED
        BY <4>5 DEF Covered
    <3>8. QED
      BY <3>6, <3>7
  <2>4. QED
    BY <2>2, <2>3
<1>4. ASSUME NEW b \in Batches, top'[b] # Blank PROVE asset'[b] \in DOMAIN class'
  <2>1. PlaceInv'
    BY NextPlaces
  <2>2. CASE top'[b] = top[b]
    <3>1. asset[b] \in DOMAIN class /\ pc[b] \notin EarlyStages
      BY <1>4, <2>2 DEF DerivedInv, PlaceInv
    <3>2. asset'[b] = asset[b]
      BY <3>1, LateStays
    <3>3. DOMAIN class \subseteq DOMAIN class'
      <4>1. ASSUME NEW x \in Batches, Resolve(x) PROVE DOMAIN class \subseteq DOMAIN class'
        <5>1. class' = class \/ \E a \in Assets : class' = Added(class, a, Blank)
          BY <4>1, ResolveOfBatch, Zenon
        <5>2. QED
          BY <5>1 DEF Added
      <4>2. ASSUME NEW x \in Batches, IngestBatch(x) \/ Correlated(x), ~Resolve(x)
            PROVE  DOMAIN class \subseteq DOMAIN class'
        BY <4>2, StepOfBatch
      <4>3. QED
        BY <4>1, <4>2, StepOfOperator DEF Next, vars, tables
    <3>4. QED
      BY <3>1, <3>2, <3>3
  <2>3. CASE top'[b] # top[b]
    <3>1. ASSUME NEW x \in Batches, Evaluate(x) PROVE pc'[b] \in WorkingStages
      <4>1. x = b
        BY <2>3, <3>1, OthersStay DEF IngestBatch
      <4>2. pc' = [pc EXCEPT ![b] = "titles"] \/ pc' = [pc EXCEPT ![b] = "read"]
        BY <3>1, <4>1 DEF Evaluate, Goto
      <4>3. QED
        BY <4>2, <1>p DEF WorkingStages
    <3>2. \E x \in Batches : Evaluate(x)
      BY <2>3, Untouched, StepOfOperator DEF Next, vars, batchVars
    <3>3. QED
      BY <2>1, <3>1, <3>2 DEF PlaceInv
  <2>4. QED
    BY <2>2, <2>3
<1>5. ASSUME NEW i \in DOMAIN load.import, pc'[load.import[i]] # "idle", NEW j \in 1..(i - 1)
      PROVE  pc'[load.import[j]] = "done"
  <2>t. load.import \in Seq(Batches)
    BY DeriveAssumption DEF DerivedInv
  <2>i. /\ i \in Nat \ {0} /\ j \in DOMAIN load.import /\ load.import[i] \in Batches
        /\ load.import[j] \in Batches /\ j \in Nat \ {0} /\ j < i
    BY <2>t
  <2>s. ASSUME NEW x \in Batches, pc[x] = "done" PROVE pc'[x] = "done"
    <3>1. ASSUME NEW b \in Batches, IngestBatch(b) \/ Correlated(b) PROVE pc'[x] = "done"
      <4>1. CASE b # x
        BY <2>s, <3>1, <4>1, OthersStay
      <4>2. CASE b = x
        BY <2>s, <3>1, <4>2, MoveOfBatch DEF Moves
      <4>3. QED
        BY <4>1, <4>2
    <3>2. QED
      BY <2>s, <3>1, StepOfOperator DEF Next, vars, batchVars
  <2>1. CASE pc[load.import[i]] # "idle"
    BY <2>1, <2>i, <2>s DEF DerivedInv
  <2>2. CASE pc[load.import[i]] = "idle"
    <3> DEFINE b == load.import[i]
    <3>1. NextRecord(b)
      <4>1. ASSUME NEW x \in Batches, IngestBatch(x) \/ Correlated(x), x # b PROVE FALSE
        BY <1>5, <2>2, <2>i, <4>1, OthersStay
      <4>2. IngestBatch(b) \/ Correlated(b)
        BY <1>5, <2>2, <2>i, <4>1, StepOfOperator DEF Next, vars, batchVars
      <4>i. pc[b] = "idle" /\ b \in Batches /\ todo[b] = <<>>
        BY <2>2, <2>i DEF StageInv
      <4> HIDE DEF b
      <4>3. Collect(b)
        BY <4>i, <4>2 DEF IngestBatch, Correlated, Resolve, AttachRest, Detect, ReadAsset, Evaluate,
           UpdateClassification, DetectTitle, EvaluateAdvisories, UpsertFinding, Finish, At, Report
      <4>4. QED
        BY <4>3 DEF Collect
    <3>2. i - 1 \in DOMAIN load.import /\ load.import[i - 1] \in Batches /\ i > 1
      BY <2>i, <2>t
    <3>3. pc[load.import[i - 1]] = "done"
      BY <3>1, <3>2 DEF NextRecord
    <3>4. pc[load.import[j]] = "done"
      <4>1. CASE j = i - 1
        BY <3>3, <4>1
      <4>2. CASE j # i - 1
        <5>1. j \in 1..((i - 1) - 1)
          BY <2>i, <4>2
        <5>2. QED
          BY <3>2, <3>3, <5>1 DEF DerivedInv
      <4>3. QED
        BY <4>1, <4>2
    <3>5. QED
      BY <3>4, <2>i, <2>s
  <2>3. QED
    BY <2>1, <2>2
<1>6. Named'
  BY NextNamed DEF DerivedInv
<1>7. QED
  BY <1>1, <1>2, <1>3, <1>4, <1>5, <1>6 DEF DerivedInv, Shows

-----------------------------------------------------------------------------
(* Services that are not reported. *)

Past(b) == pc[b] \notin {"idle", "resolve", "attach", "detect"}
Merged(a) == mergedInto[a] # NoAsset
Saw(x, y) == recent[x] \cap Obs(y) # {}

(* Batches that saw the service and whose observation of it is attached to *)
(* the asset they resolved to.                                             *)
Serves(port, o) == Open(o) /\ Seen(o).port = port
On(port, a) ==
  {b \in Batches : asset[b] = a /\ \E o \in Obs(b) : Serves(port, o) /\ <<a, o>> \in links}

(* Of the batches P that saw a service, one told of it or found its asset, *)
(* or two took each other for earlier; or one that has not looked stands   *)
(* on a merged asset, where it finds only batches that stand there as      *)
(* well. Or one on an asset was seen that has not looked yet, and will     *)
(* find the one that saw it.                                               *)
Good(port, P) ==
  \/ \E b \in P : created[b] \/ ReportedService(b, port)
  \/ \E b, c \in P : b # c /\ Saw(b, c) /\ Saw(c, b)
Late(P) == \E y \in P : ~Past(y) /\ asset[y] \in DOMAIN class /\ Merged(asset[y])
Awaited(port, a) == \E x, y \in On(port, a) : Past(x) /\ ~Past(y) /\ Saw(x, y)

Ports == {Seen(o).port : o \in AllObs}
PlacedInv ==
  /\ \A b \in Batches : ~Past(b) => recent[b] = {}
  /\ faults = 0 => \A b \in Batches : pc[b] \notin {"idle", "resolve"} => asset[b] \in DOMAIN class
  /\ \A l \in links : /\ asset[l[2][1]] \in DOMAIN class
                      /\ Merged(l[1]) => asset[l[2][1]] = l[1]
                      /\ asset[l[2][1]] # l[1] => Merged(asset[l[2][1]])
Expected(port, a) ==
  (\E b \in Peers(port, a) : Past(b)) =>
     Good(port, Peers(port, a)) \/ Late(Peers(port, a)) \/ (~Merged(a) /\ Awaited(port, a))
ExpectedMerged(port, a) ==
  Merged(a) /\ (\E b \in On(port, a) : Past(b)) =>
     Good(port, Peers(port, a)) \/ Awaited(port, a)
RaceInv ==
  faults = 0 => \A port \in Ports, a \in DOMAIN class : Expected(port, a) /\ ExpectedMerged(port, a)

(* What is in the lineage of an asset that is in that of another.          *)
LEMMA LineageOfLineage ==
  ASSUME NEW a, NEW m \in Lineage(a) PROVE Lineage(m) \subseteq Lineage(a)
BY DEF Lineage

(* An asset that stands for itself is in no lineage but its own, and one   *)
(* that does not exist has no other.                                       *)
LEMMA LineageEnds ==
  ASSUME MergedInv, PlaceInv, LinksInv, NEW a, NEW m \in Lineage(a), m \in DOMAIN class
  PROVE  a \in DOMAIN class /\ (~Merged(m) => a = m)
<1>1. DOMAIN class \subseteq Assets /\ FollowsMerges(DOMAIN class)
  BY DEF MergedInv, PlaceInv, LinksInv, FollowsMerges
<1>2. ASSUME ~Merged(m) PROVE FollowsMerges({m}) /\ {m} \subseteq Assets
  BY <1>1, <1>2 DEF FollowsMerges, Merged
<1>3. a \in DOMAIN class
  BY <1>1 DEF Lineage
<1>4. ASSUME ~Merged(m) PROVE a = m
  BY <1>2, <1>4 DEF Lineage
<1>5. QED
  BY <1>3, <1>4

(* Every step keeps what is said of merged assets. *)
LEMMA NextPlaced ==
  ASSUME MergedInv, PlaceInv, ChangesInv, StageInv, LinksInv, ProductInv, PlacedInv, [Next]_vars
  PROVE  PlacedInv'
<1>a. /\ NoAsset \notin Assets /\ pc \in [Batches -> Stages]
      /\ DOMAIN class \subseteq Assets /\ DOMAIN mergedInto = DOMAIN class
  BY DeriveAssumption DEF PlaceInv, MergedInv
<1>l. \A l \in links : /\ l[1] \in DOMAIN class /\ l[2] \in AllObs /\ l[2][1] \in Batches
                       /\ pc[l[2][1]] \notin {"idle", "resolve"}
  BY BatchOf DEF LinksInv
<1>1. ASSUME NEW b \in Batches, IngestBatch(b) \/ Correlated(b) PROVE PlacedInv'
  <2>o. \A x \in Batches \ {b} : /\ pc'[x] = pc[x] /\ asset'[x] = asset[x] /\ recent'[x] = recent[x]
    BY <1>1, OthersStay
  <2>1. ASSUME ~Past(b)' PROVE recent'[b] = {}
    <3>1. ~Past(b)
      BY <1>a, <1>1, <2>1, MoveOfBatch DEF Past, Moves
    <3>2. ~Detect(b)
      <4>1. ASSUME Detect(b) PROVE FALSE
        <5>1. pc'[b] = "evaluate"
          BY <1>a, <4>1 DEF Detect, Goto
        <5>2. QED
          BY <2>1, <5>1 DEF Past
      <4>2. QED
        BY <4>1
    <3>3. QED
      BY <1>1, <3>1, <3>2, Untouched DEF PlacedInv
  <2>2. \A x \in Batches : ~Past(x)' => recent'[x] = {}
    BY <2>o, <2>1 DEF PlacedInv, Past
  <2>c. /\ DOMAIN class \subseteq DOMAIN class'
        /\ \A a \in DOMAIN class : mergedInto'[a] = mergedInto[a]
        /\ \A a \in DOMAIN class' \ DOMAIN class : mergedInto'[a] = NoAsset
    <3>1. CASE Resolve(b)
      <4>1. UNCHANGED <<class, mergedInto>>
            \/ \E a \in Assets : class' = Added(class, a, Blank) /\ mergedInto' = Added(mergedInto, a, NoAsset)
        BY <3>1 DEF Resolve
      <4>2. QED
        BY <1>a, <4>1 DEF Added
    <3>2. CASE ~Resolve(b)
      BY <1>1, <3>2, Untouched, StepOfBatch
    <3>3. QED
      BY <3>1, <3>2
  <2>b. pc[b] \notin {"idle", "resolve"} => asset' = asset
    BY <1>1, Untouched DEF Resolve
  <2>3. ASSUME NEW l \in links
        PROVE  /\ asset'[l[2][1]] \in DOMAIN class' /\ l[1] \in DOMAIN class
               /\ mergedInto'[l[1]] # NoAsset => asset'[l[2][1]] = l[1]
               /\ asset'[l[2][1]] # l[1] => mergedInto'[asset'[l[2][1]]] # NoAsset
    <3>1. asset'[l[2][1]] = asset[l[2][1]] /\ l[1] \in DOMAIN class
      BY <1>l, <2>o, <2>b
    <3>2. /\ asset[l[2][1]] \in DOMAIN class
          /\ mergedInto[l[1]] # NoAsset => asset[l[2][1]] = l[1]
          /\ asset[l[2][1]] # l[1] => mergedInto[asset[l[2][1]]] # NoAsset
      BY DEF PlacedInv, Merged
    <3>3. QED
      BY <2>c, <3>1, <3>2
  <2>4. ASSUME NEW l \in links'
        PROVE  /\ asset'[l[2][1]] \in DOMAIN class'
               /\ mergedInto'[l[1]] # NoAsset => asset'[l[2][1]] = l[1]
               /\ asset'[l[2][1]] # l[1] => mergedInto'[asset'[l[2][1]]] # NoAsset
    <3>1. CASE l \in links
      BY <2>3, <3>1
    <3>2. CASE l \notin links
      <4>1. PICK o \in Obs(b) : asset'[b] \in DOMAIN class' /\ l = <<asset'[b], o>>
        BY <1>1, <3>2, BatchAttaches DEF Attaches
      <4>2. l[1] = asset'[b] /\ l[2] = o /\ o[1] = b
        BY <4>1, Observation
      <4>3. QED
        BY <4>1, <4>2
    <3>3. QED
      BY <3>1, <3>2
  <2>5. ASSUME faults' = 0, NEW x \in Batches, pc'[x] \notin {"idle", "resolve"}
        PROVE  asset'[x] \in DOMAIN class'
    <3>1. faults = 0
      BY <2>5, ChangesStay
    <3>2. CASE pc[x] \notin {"idle", "resolve"}
      <4>1. asset[x] \in DOMAIN class
        BY <3>1, <3>2 DEF PlacedInv
      <4>2. QED
        BY <2>o, <2>b, <2>c, <3>2, <4>1
    <3>3. CASE pc[x] \in {"idle", "resolve"}
      <4>1. x = b
        BY <2>o, <2>5, <3>3
      <4>2. <<pc[b], pc'[b]>> \in Moves
        <5>1. pc'[b] # pc[b]
          BY <2>5, <3>3, <4>1
        <5>2. QED
          BY <2>5, <3>1, <5>1, Proceeds
      <4>3. pc'[b] = "attach"
        BY <2>5, <3>3, <4>1, <4>2 DEF Moves
      <4>4. PlaceInv'
        BY NextPlaces
      <4>5. QED
        BY <4>1, <4>3, <4>4 DEF PlaceInv, WorkingStages
    <3>4. QED
      BY <3>2, <3>3
  <2>6. QED
    BY <2>2, <2>4, <2>5 DEF PlacedInv, Merged
<1>2. ASSUME NEW source \in Assets, NEW target \in Assets, Merge(source, target) PROVE PlacedInv'
  <2>1. /\ UNCHANGED <<pc, asset, recent, class, faults>> /\ target \in DOMAIN class /\ source # target
        /\ mergedInto[source] = NoAsset /\ mergedInto[target] = NoAsset
        /\ mergedInto' = [mergedInto EXCEPT ![source] = target]
        /\ links' = {<<IF l[1] = source THEN target ELSE l[1], l[2]>> : l \in links}
        /\ source \in DOMAIN mergedInto
    BY <1>2 DEF Merge, batchVars, MergedInv
  <2>2. \A b \in Batches : ~Past(b)' => recent'[b] = {}
    BY <2>1 DEF PlacedInv, Past
  <2>3. ASSUME NEW m \in links'
        PROVE  /\ asset'[m[2][1]] \in DOMAIN class'
               /\ mergedInto'[m[1]] # NoAsset => asset'[m[2][1]] = m[1]
               /\ asset'[m[2][1]] # m[1] => mergedInto'[asset'[m[2][1]]] # NoAsset
    <3>1. PICK l \in links : m = <<IF l[1] = source THEN target ELSE l[1], l[2]>>
      BY <2>1
    <3>2. m[2] = l[2] /\ m[1] = (IF l[1] = source THEN target ELSE l[1])
      BY <3>1
    <3>3. /\ asset[l[2][1]] \in DOMAIN class /\ l[1] \in DOMAIN class
          /\ mergedInto[l[1]] # NoAsset => asset[l[2][1]] = l[1]
          /\ asset[l[2][1]] # l[1] => mergedInto[asset[l[2][1]]] # NoAsset
      BY <1>l DEF PlacedInv, Merged
    <3>4. \A a \in DOMAIN class : mergedInto'[a] = IF a = source THEN target ELSE mergedInto[a]
      BY <1>a, <2>1
    <3>5. target # NoAsset
      BY <1>a
    <3>6. QED
      BY <2>1, <3>2, <3>3, <3>4, <3>5
  <2>4. QED
    BY <2>1, <2>2, <2>3 DEF PlacedInv, Merged
<1>3. CASE UNCHANGED <<links, recent, mergedInto, class, pc, asset, faults>>
  BY <1>3 DEF PlacedInv, Past, Merged
<1>4. QED
  BY <1>1, <1>2, <1>3 DEF Next, Operator, SetDisposition, Acknowledge, vars, tables, batchVars

(* What a batch that has resolved keeps. *)
LEMMA StartedStays ==
  ASSUME PlaceInv, ChangesInv, StageInv, LinksInv, ProductInv, [Next]_vars,
         NEW b \in Batches, pc[b] \notin {"idle", "resolve"}
  PROVE  /\ pc'[b] \notin {"idle", "resolve"} /\ asset'[b] = asset[b] /\ created'[b] = created[b]
         /\ Past(b) => Past(b)' /\ recent'[b] = recent[b]
<1>p. pc \in [Batches -> Stages]
  BY DEF PlaceInv
<1>1. ASSUME NEW x \in Batches, IngestBatch(x) \/ Correlated(x), x # b
      PROVE  /\ pc'[b] = pc[b] /\ asset'[b] = asset[b] /\ created'[b] = created[b] /\ recent'[b] = recent[b]
  BY <1>1, OthersStay
<1>2. ASSUME IngestBatch(b) \/ Correlated(b)
      PROVE  /\ pc'[b] \notin {"idle", "resolve"} /\ asset'[b] = asset[b] /\ created'[b] = created[b]
             /\ Past(b) => Past(b)' /\ recent'[b] = recent[b]
  <2>1. UNCHANGED <<asset, created>>
    BY <1>2, Untouched DEF Resolve
  <2>2. pc'[b] \notin {"idle", "resolve"}
    BY <1>2, <1>p, MoveOfBatch DEF Moves
  <2>3. ASSUME Past(b) PROVE Past(b)' /\ recent'[b] = recent[b]
    <3>1. recent' = recent
      BY <1>2, <2>3, Untouched DEF Past, Detect, At
    <3>2. pc'[b] \notin {"idle", "resolve", "attach", "detect"}
      <4>1. CASE \E s \in Stages : <<pc[b], s>> \in Moves /\ pc' = [pc EXCEPT ![b] = s]
        BY <1>p, <2>3, <4>1 DEF Past, Moves
      <4>2. CASE pc' = pc \/ \E s \in {"done", "failed"} : pc' = [pc EXCEPT ![b] = s]
        BY <1>p, <2>3, <4>2 DEF Past
      <4>3. QED
        BY <1>2, <4>1, <4>2, MoveOfBatch
    <3>3. QED
      BY <3>1, <3>2 DEF Past
  <2>4. QED
    BY <2>1, <2>2, <2>3
<1>3. CASE Operator \/ UNCHANGED vars
  BY <1>3, StepOfOperator DEF vars, batchVars, Past
<1>4. QED
  BY <1>1, <1>2, <1>3 DEF Next, Past

(* While no call fails, a batch looks for changes by Detect. *)
LEMMA LooksByDetect ==
  ASSUME PlaceInv, ChangesInv, StageInv, LinksInv, ProductInv, [Next]_vars, faults = 0, faults' = 0,
         NEW b \in Batches, Past(b)', ~Past(b)
  PROVE  Detect(b)
<1>1. pc'[b] # pc[b]
  BY DEF Past
<1>2. <<pc[b], pc'[b]>> \in Moves /\ (IngestBatch(b) \/ Correlated(b))
  BY <1>1, Proceeds
<1>3. pc[b] = "detect"
  BY <1>2 DEF Past, Moves
<1>4. todo[b] = <<>>
  BY <1>3 DEF StageInv
<1>5. QED
  BY <1>2, <1>3, <1>4 DEF IngestBatch, Correlated, Collect, Resolve, AttachRest, ReadAsset, Evaluate,
     UpdateClassification, DetectTitle, EvaluateAdvisories, UpsertFinding, Finish, At, Report

(* A batch on an asset serves. *)
LEMMA OnServes ==
  ASSUME LinksInv, NEW port, NEW a, NEW b \in On(port, a)
  PROVE  b \in Serving(port) /\ b \in Batches /\ asset[b] = a /\ pc[b] \notin {"idle", "resolve"}
<1>1. PICK o \in Obs(b) : Serves(port, o) /\ <<a, o>> \in links
  BY DEF On
<1>2. b \in Batches /\ asset[b] = a /\ o[1] = b
  BY Observation DEF On
<1>3. <<a, o>>[2][1] = b
  BY <1>2
<1>4. pc[b] \notin {"idle", "resolve"}
  BY <1>1, <1>3 DEF LinksInv
<1>5. QED
  BY <1>1, <1>2, <1>4 DEF Serving, Serves

(* What is good stays good while no call fails, also among more batches. *)
LEMMA GoodStays ==
  ASSUME MergedInv, PlaceInv, ChangesInv, StageInv, LinksInv, ProductInv, PlacedInv, [Next]_vars,
         faults' = 0, NEW port, NEW P \in SUBSET Serving(port), Good(port, P)
  PROVE  Good(port, P)'
<1>1. ASSUME NEW b \in P
      PROVE  /\ b \in Batches /\ asset'[b] = asset[b] /\ created'[b] = created[b]
             /\ \A c \in Batches : Saw(b, c) => Saw(b, c)'
  <2>1. b \in Batches /\ pc[b] \notin {"idle", "resolve"}
    BY DEF Serving
  <2>2. /\ asset'[b] = asset[b] /\ created'[b] = created[b]
        /\ Past(b) => recent'[b] = recent[b]
    BY <2>1, StartedStays
  <2>3. \A c \in Batches : Saw(b, c) => Saw(b, c)'
    BY <2>1, <2>2 DEF Saw, PlacedInv
  <2>4. QED
    BY <2>1, <2>2, <2>3
<1>2. ASSUME NEW b \in P, created[b] \/ ReportedService(b, port)
      PROVE  created'[b] \/ ReportedService(b, port)'
  <2>1. CASE created[b]
    BY <1>1, <2>1
  <2>2. CASE ReportedService(b, port)
    <3>1. PICK told : told = Change(b, "new_service", port)
      OBVIOUS
    <3>2. told \in DOMAIN changes \/ told \in ToSet(todo[b])
      BY <2>2, <3>1 DEF ReportedService
    <3>3. told \in DOMAIN changes' \/ told \in ToSet(todo'[b])
      BY <1>1, <3>2, ChangesStay
    <3>4. told = Change(b, "new_service", port)'
      BY <1>1, <3>1 DEF Change
    <3>5. QED
      BY <3>3, <3>4 DEF ReportedService
  <2>3. QED
    BY <1>2, <2>1, <2>2
<1>3. CASE \E b \in P : created[b] \/ ReportedService(b, port)
  BY <1>1, <1>2, <1>3 DEF Good
<1>4. CASE \E b, c \in P : b # c /\ Saw(b, c) /\ Saw(c, b)
  BY <1>1, <1>4 DEF Good
<1>5. QED
  BY <1>3, <1>4 DEF Good
LEMMA PeersExcused ==
  ASSUME NEW port, NEW a, NEW P, P \subseteq Peers(port, a)'
  PROVE  /\ Good(port, P)' => Good(port, Peers(port, a))'
         /\ Late(P)' => Late(Peers(port, a))'
BY DEF Good, Late

(* Where lineages come from: a merge adds that of the source to that of    *)
(* the target, and nothing else changes them.                              *)
LEMMA LineageFrom ==
  ASSUME MergedInv, PlaceInv, LinksInv, [Next]_vars, NEW a, NEW x \in Lineage(a)'
  PROVE  \/ x \in Lineage(a)
         \/ \E source \in Assets : Merge(source, a) /\ x \in Lineage(source)
<1>1. CASE mergedInto' = mergedInto \/ \E n \in Assets : mergedInto' = Added(mergedInto, n, NoAsset)
  <2>1. ASSUME NEW S, FollowsMerges(S) PROVE FollowsMerges(S)'
    BY <1>1, <2>1 DEF FollowsMerges, Added
  <2>2. QED
    BY <2>1 DEF Lineage
<1>2. ASSUME NEW source \in Assets, NEW target \in Assets, Merge(source, target), x \notin Lineage(a)
      PROVE  a = target /\ x \in Lineage(source)
  <2>1. /\ mergedInto' = [mergedInto EXCEPT ![source] = target] /\ mergedInto[target] = NoAsset
        /\ target \in DOMAIN class /\ target \in DOMAIN mergedInto /\ NoAsset \notin Assets
    BY <1>2, DeriveAssumption DEF Merge, MergedInv
  <2>2. x \in Assets
    BY DEF Lineage
  <2>3. PICK S \in SUBSET Assets : x \in S /\ FollowsMerges(S) /\ a \notin S
    BY <1>2, <2>2 DEF Lineage
  <2>4. ASSUME NEW U \in SUBSET Assets, x \in U, FollowsMerges(U), source \in U => target \in U
        PROVE  a \in U
    <3>1. FollowsMerges(U)'
      BY <2>1, <2>4 DEF FollowsMerges
    <3>2. QED
      BY <2>4, <3>1 DEF Lineage
  <2>5. source \in S /\ target \notin S
    BY <2>3, <2>4
  <2>6. target \in Lineage(a)
    <3> SUFFICES ASSUME NEW T \in SUBSET Assets, target \in T, FollowsMerges(T) PROVE a \in T
      BY DEF Lineage
    <3>1. FollowsMerges(S \cup T)
      BY <2>3 DEF FollowsMerges
    <3>2. a \in S \cup T
      BY <2>3, <2>4, <3>1
    <3>3. QED
      BY <2>3, <3>2
  <2>7. x \in Lineage(source)
    <3> SUFFICES ASSUME NEW T \in SUBSET Assets, x \in T, FollowsMerges(T), source \notin T PROVE FALSE
      BY <2>2 DEF Lineage
    <3>1. FollowsMerges(S \cap T)
      BY <2>3 DEF FollowsMerges
    <3>2. a \in S \cap T
      BY <2>3, <2>4, <3>1
    <3>3. QED
      BY <2>3, <3>2
  <2>8. a = target
    BY <2>1, <2>6, LineageEnds DEF Merged
  <2>9. QED
    BY <2>7, <2>8
<1>3. ASSUME NEW b \in Batches, IngestBatch(b) \/ Correlated(b)
      PROVE  mergedInto' = mergedInto \/ \E n \in Assets : mergedInto' = Added(mergedInto, n, NoAsset)
  BY <1>3, Untouched DEF Resolve
<1>4. QED
  BY <1>1, <1>2, <1>3 DEF Next, Operator, SetDisposition, Acknowledge, vars, tables

(* What is attached to an asset that is not merged away stays attached to  *)
(* it, and a merged asset gets no observations of a batch that looked.     *)
LEMMA AttachedStays ==
  ASSUME MergedInv, PlaceInv, StageInv, LinksInv, [Next]_vars, NEW a \in DOMAIN class
  PROVE  /\ Merged(a) => Merged(a)'
         /\ Merged(a) \/ ~Merged(a)' => \A o : <<a, o>> \in links => <<a, o>> \in links'
         /\ Merged(a) => \A b \in Batches : \A o \in Obs(b) :
              <<a, o>> \in links' /\ Past(b) => <<a, o>> \in links
         /\ ~Merged(a) /\ Merged(a)' => \A o : <<a, o>> \notin links'
<1>g. MergesGrow
  BY NextMerges
<1>1. Merged(a) => Merged(a)'
  BY <1>g DEF MergesGrow, Merged, MergedInv
<1>2. CASE UNCHANGED <<links, mergedInto>>
  BY <1>1, <1>2 DEF Merged
<1>3. ASSUME NEW x \in Batches, IngestBatch(x) \/ Correlated(x)
      PROVE  /\ \A o : <<a, o>> \in links => <<a, o>> \in links'
             /\ \A b \in Batches : \A o \in Obs(b) :
                  <<a, o>> \in links' /\ Past(b) => <<a, o>> \in links
             /\ Merged(a)' => Merged(a)
  <2>1. Attaches(x)
    BY <1>3, BatchAttaches
  <2>2. links \subseteq links'
    BY <2>1 DEF Attaches
  <2>3. ASSUME NEW b \in Batches, NEW o \in Obs(b), <<a, o>> \in links', Past(b)
        PROVE  <<a, o>> \in links
    <3>1. CASE UNCHANGED links
      BY <2>3, <3>1
    <3>2. CASE links' # links
      <4>1. PICK p \in Obs(x) : links' = links \cup {<<asset'[x], p>>}
        BY <2>1, <3>2 DEF Attaches
      <4>2. ~Past(x)
        BY <1>3, <3>2, Untouched DEF Resolve, AttachRest, Past
      <4>3. p # o
        BY <2>3, <4>2, Observation
      <4>4. QED
        BY <2>3, <4>1, <4>3
    <3>3. QED
      BY <3>1, <3>2
  <2>4. Merged(a)' => Merged(a)
    <3>1. UNCHANGED mergedInto \/ \E n \in Assets : mergedInto' = Added(mergedInto, n, NoAsset)
      BY <1>3, Untouched DEF Resolve
    <3>2. QED
      BY <3>1 DEF Added, Merged, MergedInv
  <2>5. QED
    BY <2>2, <2>3, <2>4
<1>4. ASSUME NEW source \in Assets, NEW target \in Assets, Merge(source, target)
      PROVE  /\ Merged(a) \/ ~Merged(a)' => \A o : <<a, o>> \in links => <<a, o>> \in links'
             /\ Merged(a) => \A o : <<a, o>> \in links' => <<a, o>> \in links
             /\ ~Merged(a) /\ Merged(a)' => \A o : <<a, o>> \notin links'
  <2>1. /\ source # target /\ mergedInto[source] = NoAsset /\ mergedInto[target] = NoAsset
        /\ mergedInto' = [mergedInto EXCEPT ![source] = target]
        /\ links' = {<<IF l[1] = source THEN target ELSE l[1], l[2]>> : l \in links}
        /\ source \in DOMAIN mergedInto /\ target # NoAsset
    BY <1>4, DeriveAssumption DEF Merge, batchVars, MergedInv
  <2>2. /\ Merged(a) => a # source /\ a # target
        /\ ~Merged(a)' => a # source
        /\ ~Merged(a) /\ Merged(a)' => a = source
    BY <2>1 DEF Merged, MergedInv
  <2>3. ASSUME NEW o, <<a, o>> \in links, a # source PROVE <<a, o>> \in links'
    <3>1. <<IF <<a, o>>[1] = source THEN target ELSE <<a, o>>[1], <<a, o>>[2]>> \in links'
      BY <2>1, <2>3
    <3>2. QED
      BY <2>3, <3>1
  <2>4. ASSUME NEW o, <<a, o>> \in links' PROVE a # source /\ (a # target => <<a, o>> \in links)
    <3>1. PICK l \in links : <<a, o>> = <<IF l[1] = source THEN target ELSE l[1], l[2]>>
      BY <2>1, <2>4
    <3>2. a = (IF l[1] = source THEN target ELSE l[1]) /\ o = l[2]
      BY <3>1
    <3>3. l = <<l[1], l[2]>>
      BY DEF LinksInv
    <3>4. QED
      BY <2>1, <3>2, <3>3
  <2>5. QED
    BY <2>2, <2>3, <2>4
<1>5. QED
  BY <1>1, <1>2, <1>3, <1>4 DEF Next, Operator, SetDisposition, Acknowledge, vars, tables

(* A batch stays on its asset unless the asset is merged away, and who     *)
(* looked was on a merged asset before.                                    *)
LEMMA OnStays ==
  ASSUME MergedInv, PlaceInv, ChangesInv, StageInv, LinksInv, ProductInv, [Next]_vars,
         NEW port, NEW a \in DOMAIN class, NEW b
  PROVE  /\ b \in On(port, a) /\ (Merged(a) \/ ~Merged(a)') => b \in On(port, a)'
         /\ Past(b) /\ b \in On(port, a)' /\ Merged(a) => b \in On(port, a)
         /\ ~Merged(a) /\ Merged(a)' => b \notin On(port, a)'
<1>1. ASSUME b \in On(port, a), Merged(a) \/ ~Merged(a)' PROVE b \in On(port, a)'
  <2>1. asset'[b] = a /\ b \in Batches
    BY <1>1, OnServes, StartedStays
  <2>2. PICK o \in Obs(b) : Serves(port, o) /\ <<a, o>> \in links
    BY <1>1 DEF On
  <2>3. <<a, o>> \in links'
    BY <1>1, <2>2, AttachedStays
  <2>4. QED
    BY <2>1, <2>2, <2>3 DEF On
<1>2. ASSUME Past(b), b \in On(port, a)', Merged(a) PROVE b \in On(port, a)
  <2>1. PICK o \in Obs(b) : Serves(port, o) /\ <<a, o>> \in links'
    BY <1>2 DEF On
  <2>2. b \in Batches /\ asset'[b] = a
    BY <1>2 DEF On
  <2>3. <<a, o>> \in links /\ asset[b] = a
    BY <1>2, <2>1, <2>2, AttachedStays, StartedStays DEF Past
  <2>4. QED
    BY <2>1, <2>2, <2>3 DEF On
<1>3. ASSUME ~Merged(a), Merged(a)' PROVE b \notin On(port, a)'
  BY <1>3, AttachedStays DEF On
<1>4. QED
  BY <1>1, <1>2, <1>3

(* Steps in which nobody looks for changes. *)
LEMMA NobodyLooks ==
  ASSUME MergedInv, PlaceInv, ChangesInv, StageInv, LinksInv, ProductInv, PlacedInv, [Next]_vars,
         faults = 0, faults' = 0, \A b \in Batches : ~Detect(b),
         NEW port, \A n \in DOMAIN class : Expected(port, n) /\ ExpectedMerged(port, n),
         NEW a \in DOMAIN class'
  PROVE  Expected(port, a)' /\ ExpectedMerged(port, a)'
<1>1. \A x \in Batches : Past(x)' <=> Past(x)
  BY LooksByDetect, StartedStays DEF Past
<1>2. UNCHANGED recent
  BY Untouched, StepOfOperator DEF Next, vars, batchVars
<1>g. MergesGrow /\ MergedInv'
  BY NextMerges, NextMerged
<1>c. DOMAIN class \subseteq DOMAIN class' /\ DOMAIN class \subseteq Assets /\ NoAsset \notin Assets
  BY <1>g, DeriveAssumption DEF MergesGrow, MergedInv, PlaceInv
<1>3. ASSUME NEW n \in DOMAIN class, Awaited(port, n), Merged(n) \/ ~Merged(n)' PROVE Awaited(port, n)'
  <2>1. PICK x \in On(port, n), y \in On(port, n) : Past(x) /\ ~Past(y) /\ Saw(x, y)
    BY <1>3 DEF Awaited
  <2>2. x \in On(port, n)' /\ y \in On(port, n)'
    BY <1>3, OnStays
  <2>3. x \in Batches /\ y \in Batches
    BY DEF On
  <2>4. Past(x)' /\ ~Past(y)' /\ Saw(x, y)'
    BY <1>1, <1>2, <2>1, <2>3 DEF Saw
  <2>5. QED
    BY <2>2, <2>4 DEF Awaited
<1>4. ASSUME NEW P \in SUBSET Serving(port), NEW y \in P, ~Past(y),
             NEW n \in DOMAIN class, asset[y] = n, Merged(n)'
      PROVE  Late(P)'
  <2>1. y \in Batches /\ pc[y] \notin {"idle", "resolve"}
    BY DEF Serving
  <2>2. asset'[y] = n /\ ~Past(y)'
    BY <1>1, <1>4, <2>1, StartedStays
  <2>3. mergedInto'[asset'[y]] # NoAsset /\ asset'[y] \in DOMAIN class'
    BY <1>c, <1>4, <2>2 DEF Merged
  <2>4. QED
    BY <2>2, <2>3 DEF Late, Merged
<1>5. ASSUME NEW n \in DOMAIN class, \A x \in Lineage(n) : x \in Lineage(a)'
      PROVE  Peers(port, n) \subseteq Peers(port, a)' /\ Peers(port, n) \subseteq Serving(port)
  <2> SUFFICES ASSUME NEW b \in Peers(port, n) PROVE b \in Peers(port, a)' /\ b \in Serving(port)
    OBVIOUS
  <2>1. PICK x : x = asset[b]
    OBVIOUS
  <2>2. b \in Serving(port) /\ b \in Batches /\ pc[b] \notin {"idle", "resolve"} /\ x \in Lineage(n)
    BY <2>1 DEF Peers, Serving
  <2>3. pc'[b] \notin {"idle", "resolve"} /\ asset'[b] = x
    BY <2>1, <2>2, StartedStays
  <2>4. b \in Serving(port)'
    BY <2>2, <2>3 DEF Serving
  <2>5. x \in Lineage(a)'
    BY <1>5, <2>2
  <2>6. QED
    BY <2>2, <2>3, <2>4, <2>5 DEF Peers
<1>6. ASSUME NEW n \in DOMAIN class, \A x \in Lineage(n) : x \in Lineage(a)',
             NEW b \in Peers(port, n), Past(b)
      PROVE  \/ Good(port, Peers(port, a))' \/ Late(Peers(port, a))'
             \/ ~Merged(n)' /\ Awaited(port, n)'
  <2>1. PICK P : P = Peers(port, n)
    OBVIOUS
  <2>2. P \subseteq Peers(port, a)' /\ P \in SUBSET Serving(port)
    BY <1>5, <1>6, <2>1
  <2>3. SUFFICES Good(port, P)' \/ Late(P)' \/ (~Merged(n)' /\ Awaited(port, n)')
    BY <2>2, PeersExcused
  <2>4. Good(port, P) \/ Late(P) \/ (~Merged(n) /\ Awaited(port, n))
    BY <1>6, <2>1 DEF Expected
  <2>5. CASE Good(port, P)
    BY <2>2, <2>5, GoodStays
  <2>6. CASE Late(P)
    <3>1. PICK y \in P : ~Past(y) /\ asset[y] \in DOMAIN class /\ Merged(asset[y])
      BY <2>6 DEF Late
    <3>2. PICK m \in DOMAIN class : asset[y] = m
      BY <3>1
    <3>3. Merged(m)
      BY <3>1, <3>2
    <3>4. Merged(m)'
      BY <3>3, AttachedStays
    <3>5. QED
      BY <1>4, <2>2, <3>1, <3>2, <3>4
  <2>7. CASE ~Merged(n) /\ Awaited(port, n) /\ Merged(n)'
    <3>1. PICK y \in On(port, n) : ~Past(y)
      BY <2>7 DEF Awaited
    <3>2. y \in Serving(port) /\ asset[y] = n
      BY OnServes
    <3>3. y \in P
      BY <1>c, <2>1, <3>2, LineageSelf DEF Peers
    <3>4. QED
      BY <1>4, <2>2, <2>7, <3>1, <3>2, <3>3
  <2>8. CASE Awaited(port, n) /\ ~Merged(n)'
    BY <1>3, <2>8
  <2>9. QED
    BY <2>4, <2>5, <2>6, <2>7, <2>8
<1>7. Expected(port, a)'
  <2> SUFFICES ASSUME NEW b \in Peers(port, a)', Past(b)'
               PROVE  \/ Good(port, Peers(port, a))' \/ Late(Peers(port, a))'
                      \/ ~Merged(a)' /\ Awaited(port, a)'
    BY DEF Expected
  <2>1. b \in Batches /\ b \in Serving(port)' /\ Past(b)
    BY <1>1 DEF Peers, Serving
  <2>2. PICK x : x = asset[b]
    OBVIOUS
  <2>3. pc[b] \notin {"idle", "resolve"} /\ asset'[b] = x /\ x \in DOMAIN class
    BY <2>1, <2>2, StartedStays DEF Past, PlacedInv
  <2>4. b \in Serving(port)
    BY <2>1, <2>3 DEF Serving
  <2>5. x \in Lineage(a)'
    BY <2>3 DEF Peers
  <2>6. CASE x \in Lineage(a)
    <3>1. a \in DOMAIN class
      BY <2>3, <2>6, LineageEnds
    <3>2. \A z \in Lineage(a) : z \in Lineage(a)'
      BY <1>g, LineageGrows
    <3>3. b \in Peers(port, a)
      BY <2>2, <2>4, <2>6 DEF Peers
    <3>4. QED
      BY <1>6, <2>1, <3>1, <3>2, <3>3
  <2>7. ASSUME NEW source \in Assets, Merge(source, a), x \in Lineage(source)
        PROVE  Good(port, Peers(port, a))' \/ Late(Peers(port, a))'
    <3>1. /\ source \in DOMAIN class /\ a \in DOMAIN class /\ mergedInto'[source] = a
          /\ source \in DOMAIN mergedInto'
      BY <2>7 DEF Merge, MergedInv
    <3>2. a # NoAsset
      BY <1>c, <3>1
    <3>3. \A z \in Lineage(source) : z \in Lineage(a)'
      BY <1>g, <3>1, <3>2, LineageMoves
    <3>4. b \in Peers(port, source)
      BY <2>2, <2>4, <2>7 DEF Peers
    <3>5. Merged(source)'
      BY <3>1, <3>2 DEF Merged
    <3>6. QED
      BY <1>6, <2>1, <3>1, <3>3, <3>4, <3>5
  <2>8. QED
    BY <2>5, <2>6, <2>7, LineageFrom
<1>8. ExpectedMerged(port, a)'
  <2> SUFFICES ASSUME Merged(a)', NEW b \in On(port, a)', Past(b)'
               PROVE  Good(port, Peers(port, a))' \/ Awaited(port, a)'
    BY DEF ExpectedMerged
  <2>1. a \in DOMAIN class
    <3>1. ASSUME a \notin DOMAIN class PROVE ~Merged(a)'
      <4>1. \E x \in Batches : Resolve(x)
        BY <3>1, Untouched, StepOfOperator DEF Next, vars, tables, UpdateClassification
      <4>2. mergedInto' = mergedInto \/ \E n \in Assets : mergedInto' = Added(mergedInto, n, NoAsset)
        BY <4>1 DEF Resolve
      <4>3. QED
        BY <1>g, <3>1, <4>2 DEF Added, Merged, MergedInv
    <3>2. QED
      BY <3>1
  <2>2. b \in Batches /\ Past(b)
    BY <1>1 DEF On
  <2>3. Merged(a) /\ b \in On(port, a)
    BY <2>1, <2>2, OnStays
  <2>4. PICK P : P = Peers(port, a)
    OBVIOUS
  <2>5. Good(port, P) \/ Awaited(port, a)
    BY <2>1, <2>2, <2>3, <2>4 DEF ExpectedMerged
  <2>6. CASE Good(port, P)
    <3>1. P \subseteq Peers(port, a)' /\ P \in SUBSET Serving(port)
      BY <1>5, <1>g, <2>1, <2>4, LineageGrows
    <3>2. Good(port, P)'
      BY <2>6, <3>1, GoodStays
    <3>3. QED
      BY <3>1, <3>2, PeersExcused
  <2>7. QED
    BY <1>3, <2>1, <2>3, <2>5, <2>6
<1>9. QED
  BY <1>7, <1>8

(* The first of the changes found is told. *)
LEMMA FirstIsTold == ASSUME NEW told, NEW p, NEW c PROVE told \in ToSet(<<told>> \o When(p, c))
<1> DEFINE first == <<told>>
           rest == When(p, c)
<1>1. first \in Seq({told, c}) /\ Len(first) = 1 /\ first[1] = told
  OBVIOUS
<1>2. rest \in Seq({told, c}) /\ Len(rest) \in Nat
  <2>1. <<c>> \in Seq({told, c}) /\ <<>> \in Seq({told, c})
    OBVIOUS
  <2>2. QED
    BY <2>1 DEF When
<1> HIDE DEF first, rest
<1>c. /\ first \o rest \in Seq({told, c}) /\ Len(first \o rest) = Len(first) + Len(rest)
      /\ \A i \in 1 .. Len(first) + Len(rest) :
           (first \o rest)[i] = IF i <= Len(first) THEN first[i] ELSE rest[i - Len(first)]
  BY <1>1, <1>2, ConcatProperties
<1>3. /\ first \o rest \in Seq({told, c}) /\ Len(first \o rest) = Len(first) + Len(rest)
      /\ (first \o rest)[1] = told
  BY <1>c, <1>1, <1>2
<1> DEFINE all == first \o rest
<1> HIDE DEF all
<1>4. 1 \in DOMAIN all /\ all[1] = told
  BY <1>1, <1>2, <1>3 DEF all
<1>5. told \in ToSet(all)
  BY <1>4 DEF ToSet
<1>6. QED
  BY <1>5 DEF all, first, rest

(* A batch that looks and neither found the asset nor tells of the service *)
(* saw another that serves.                                                *)
LEMMA LookTells ==
  ASSUME PlaceInv, ChangesInv, StageInv, LinksInv, ProductInv, [Next]_vars, faults = 0, faults' = 0,
         NEW b \in Batches, Detect(b), NEW port, b \in Serving(port)
  PROVE  \/ created'[b] \/ ReportedService(b, port)'
         \/ /\ recent'[b] = Observed(asset[b])
            /\ \E p \in Observed(asset[b]) \ Obs(b) : Serves(port, p)
<1>1. pc[b] = "detect" /\ UNCHANGED <<asset, created, links>>
  BY DEF Detect, tables, At
<1>2. CASE created[b]
  BY <1>1, <1>2
<1>3. CASE ~created[b]
  <2>1. PICK o \in Obs(b) : Serves(port, o)
    BY DEF Serving, Serves
  <2> DEFINE last == Seen(<<b, Len(Content[b])>>)
             certificate == Change(b, "certificate_changed",
                                   Seen(CHOOSE p \in ChangedCertificates(b) : TRUE).facts)
  <2>2. last.port = port
    <3>1. Content[b] \in Seq(ToSet(Content[b])) /\ Content[b] # <<>>
      BY DeriveAssumption
    <3>2. Len(Content[b]) \in DOMAIN Content[b]
      <4>1. Len(Content[b]) \in Nat \ {0} /\ DOMAIN Content[b] = 1..Len(Content[b])
        BY <3>1
      <4>2. QED
        BY <4>1
    <3>3. o[1] = b /\ o[2] \in DOMAIN Content[b]
      BY <2>1 DEF Obs
    <3>4. Content[b][Len(Content[b])].port = Content[b][o[2]].port
      BY <3>2, <3>3, DeriveAssumption
    <3>5. QED
      BY <2>1, <3>3, <3>4 DEF Serves, Seen
  <2>3. /\ recent' = [recent EXCEPT ![b] = Observed(asset[b])]
        /\ todo' = [todo EXCEPT ![b] = When(NewService(b), Change(b, "new_service", port))
                                       \o When(ChangedCertificates(b) # {}, certificate)]
    <3>1. ~Fault
      BY DEF Fault
    <3>2. QED
      BY <1>3, <2>2, <3>1 DEF Detect
  <2>4. CASE NewService(b)
    <3>1. PICK told : told = Change(b, "new_service", port)
      OBVIOUS
    <3>2. todo'[b] = <<told>> \o When(ChangedCertificates(b) # {}, certificate)
      BY <2>3, <2>4, <3>1 DEF When, ChangesInv
    <3>3. told \in ToSet(todo'[b])
      BY <3>2, FirstIsTold
    <3>4. told = Change(b, "new_service", port)'
      BY <1>1, <3>1 DEF Change
    <3>5. ReportedService(b, port)'
      BY <3>3, <3>4 DEF ReportedService
    <3>6. QED
      BY <3>5
  <2>5. CASE ~NewService(b)
    <3>1. PICK p \in Earlier(b, o) : Open(p)
      BY <2>1, <2>5 DEF NewService, Serves
    <3>2. p \in Observed(asset[b]) \ Obs(b) /\ Serves(port, p)
      BY <2>1, <3>1 DEF Earlier, Serves
    <3>3. recent'[b] = Observed(asset[b])
      BY <2>3 DEF LinksInv
    <3>4. QED
      BY <3>2, <3>3
  <2>6. QED
    BY <2>4, <2>5
<1>4. QED
  BY <1>2, <1>3

(* Steps in which a batch looks for changes. *)
LEMMA SomebodyLooks ==
  ASSUME MergedInv, PlaceInv, ChangesInv, StageInv, LinksInv, ProductInv, PlacedInv, [Next]_vars,
         faults = 0, faults' = 0, NEW b \in Batches, Detect(b),
         NEW port, \A n \in DOMAIN class : Expected(port, n) /\ ExpectedMerged(port, n),
         NEW a \in DOMAIN class
  PROVE  Expected(port, a)' /\ ExpectedMerged(port, a)'
<1>1. /\ pc[b] = "detect" /\ pc' = [pc EXCEPT ![b] = "evaluate"]
      /\ UNCHANGED <<asset, created, links, class, mergedInto>>
      /\ \A x \in Batches \ {b} : recent'[x] = recent[x]
  BY OthersStay DEF Detect, tables, At, Goto, IngestBatch
<1>2. /\ ~Past(b) /\ Past(b)'
      /\ \A x \in Batches \ {b} : Past(x)' <=> Past(x)
  BY <1>1 DEF Past, PlaceInv
<1>3. \A n : On(port, n)' = On(port, n) /\ (Merged(n)' <=> Merged(n))
  BY <1>1 DEF On, Merged
<1>a. a \in Assets /\ a \in Lineage(a)
  BY LineageSelf DEF PlaceInv
<1> DEFINE P == Peers(port, a)
<1>4. /\ P' = P /\ P \in SUBSET Serving(port) /\ P \subseteq Batches
      /\ \A y \in P : asset[y] \in Lineage(a)
      /\ \A y \in Serving(port) : asset[y] \in Lineage(a) => y \in P
  <2>1. Serving(port)' = Serving(port)
    BY <1>1 DEF Serving, PlaceInv
  <2>2. Lineage(a)' = Lineage(a)
    BY <1>1 DEF Lineage, FollowsMerges
  <2>3. QED
    BY <1>1, <2>1, <2>2 DEF Peers, Serving
<1> SUFFICES ASSUME ~Good(port, P)' PROVE Expected(port, a)' /\ ExpectedMerged(port, a)'
  BY DEF Expected, ExpectedMerged
<1>5. ~Good(port, P)
  <2>1. PICK Q : Q = P
    OBVIOUS
  <2>2. ASSUME Good(port, P) PROVE FALSE
    <3>1. Good(port, Q) /\ Q \in SUBSET Serving(port)
      BY <1>4, <2>1, <2>2
    <3>2. Good(port, Q)'
      BY <3>1, GoodStays
    <3>3. Q \subseteq Peers(port, a)'
      BY <1>4, <2>1
    <3>4. QED
      BY <3>2, <3>3, PeersExcused
  <2>3. QED
    BY <2>2
<1>o. ASSUME NEW n \in Lineage(a), NEW x \in On(port, n) PROVE x \in P /\ x \in Batches /\ asset[x] = n
  BY <1>4, <1>o, OnServes
<1>6. ASSUME b \in P
      PROVE  /\ recent'[b] = Observed(asset[b])
             /\ \E p \in Observed(asset[b]) \ Obs(b) : Serves(port, p)
  <2>1. ~(created'[b] \/ ReportedService(b, port)')
    BY <1>4, <1>6 DEF Good
  <2>2. QED
    BY <1>4, <1>6, <2>1, LookTells
<1>7. ASSUME NEW n \in Lineage(a), NEW x \in On(port, n), b \in On(port, n), Past(x) PROVE ~Saw(x, b)
  <2> SUFFICES ASSUME Saw(x, b) PROVE FALSE
    OBVIOUS
  <2>1. x \in P /\ b \in P /\ x # b /\ x \in Batches /\ asset[b] = n
    BY <1>2, <1>7, <1>o
  <2>2. PICK o \in Obs(x) : <<n, o>> \in links
    BY DEF On
  <2>3. o \in Observed(n)
    <3>1. <<n, o>>[1] = n /\ <<n, o>>[2] = o
      OBVIOUS
    <3>2. QED
      BY <2>2, <3>1 DEF Observed
  <2>4. Saw(b, x)'
    BY <1>6, <2>1, <2>2, <2>3 DEF Saw
  <2>5. Saw(x, b)'
    BY <1>1, <2>1 DEF Saw
  <2>6. QED
    BY <1>4, <2>1, <2>4, <2>5 DEF Good
<1>8. ASSUME NEW n \in Lineage(a), Awaited(port, n)
      PROVE  /\ Awaited(port, n)'
             /\ \E y \in On(port, n) : y # b /\ ~Past(y)
  <2>1. PICK x \in On(port, n), y \in On(port, n) : Past(x) /\ ~Past(y) /\ Saw(x, y)
    BY <1>8 DEF Awaited
  <2>2. y # b /\ x # b /\ x \in Batches /\ y \in Batches
    BY <1>2, <1>7, <2>1 DEF On
  <2>3. Past(x)' /\ ~Past(y)' /\ Saw(x, y)'
    BY <1>1, <1>2, <2>1, <2>2 DEF Saw
  <2>4. QED
    BY <1>3, <2>1, <2>2, <2>3 DEF Awaited
<1>9. ASSUME NEW y \in P, y # b, ~Past(y), asset[y] \in DOMAIN class, Merged(asset[y])
      PROVE  Late(P)'
  <2>1. ~Past(y)' /\ y \in P'
    BY <1>2, <1>4, <1>9
  <2>2. asset'[y] \in DOMAIN class' /\ mergedInto'[asset'[y]] # NoAsset
    BY <1>1, <1>9 DEF Merged
  <2>3. QED
    BY <2>1, <2>2 DEF Late, Merged
<1>10. ASSUME NEW n \in DOMAIN class, n \in Lineage(a), Merged(n), NEW x \in On(port, n), Past(x)
       PROVE  Awaited(port, n)
  <2>1. Good(port, Peers(port, n)) \/ Awaited(port, n)
    BY <1>10 DEF ExpectedMerged
  <2>2. Peers(port, n) \subseteq P
    BY <1>10, LineageOfLineage DEF Peers
  <2>3. QED
    BY <1>5, <2>1, <2>2 DEF Good
<1>11. ASSUME b \in P, NEW m, m = asset[b]
       PROVE  /\ m \in DOMAIN class /\ m \in Lineage(a) /\ (~Merged(m) => b \in On(port, m))
              /\ \E c \in P :
                   /\ c # b /\ Saw(b, c)'
                   /\ \/ c \in On(port, m)
                      \/ ~Merged(m) /\ asset[c] \in DOMAIN class /\ Merged(asset[c])
  <2>1. PICK p \in Observed(m) \ Obs(b) : Serves(port, p)
    BY <1>6, <1>11
  <2>2. PICK l \in links : l[1] = m /\ p = l[2]
    BY <2>1 DEF Observed
  <2>3. /\ l = <<m, p>> /\ m \in DOMAIN class /\ p \in AllObs
        /\ p[1] \in Batches /\ p \in Obs(p[1]) /\ pc[p[1]] \notin {"idle", "resolve"}
    BY <2>2, BatchOf DEF LinksInv
  <2>m. m \in Lineage(a)
    BY <1>4, <1>11
  <2>c. PICK c : c = p[1]
    OBVIOUS
  <2>l. asset[c] \in Lineage(m)
    BY <2>2, <2>c DEF LinksInv
  <2>4. c \in Serving(port) /\ c # b
    BY <2>1, <2>3, <2>c DEF Serving, Serves
  <2>p. c \in P
    BY <1>4, <2>4, <2>l, <2>m, LineageOfLineage
  <2>5. Saw(b, c)'
    <3>1. recent'[b] = Observed(m)
      BY <1>6, <1>11
    <3>2. p \in recent'[b] \cap Obs(c)
      BY <2>1, <2>3, <2>c, <3>1
    <3>3. QED
      BY <3>2 DEF Saw
  <2>6. /\ asset[c] \in DOMAIN class
        /\ Merged(m) => asset[c] = m
        /\ asset[c] # m => Merged(asset[c])
    BY <2>2, <2>c DEF PlacedInv
  <2>7. asset[c] = m => c \in On(port, m)
    BY <2>1, <2>2, <2>3, <2>c DEF On
  <2>8. ASSUME ~Merged(m) PROVE b \in On(port, m)
    <3>1. PICK o \in Obs(b) : Serves(port, o)
      BY <1>4, <1>11 DEF Serving, Serves
    <3>2. Unattached(b) = {}
      BY <1>1 DEF LinksInv, Looking
    <3>3. PICK k \in links : k[2] = o
      BY <3>1, <3>2 DEF Unattached
    <3>4. k = <<k[1], k[2]>> /\ k[2][1] = b
      <4>1. k = <<k[1], k[2]>>
        BY DEF LinksInv
      <4>2. o[1] = b
        BY <3>1, Observation
      <4>3. QED
        BY <3>3, <4>1, <4>2
    <3>5. k[1] = m
      BY <1>11, <2>8, <3>4 DEF PlacedInv
    <3>6. QED
      BY <1>11, <3>1, <3>3, <3>4, <3>5 DEF On
  <2>9. QED
    BY <2>3, <2>m, <2>4, <2>p, <2>5, <2>6, <2>7, <2>8
<1>12. ASSUME NEW m \in DOMAIN class, m \in Lineage(a), Merged(m), NEW y \in On(port, m), ~Past(y), y # b
       PROVE  Late(P)'
  BY <1>9, <1>12, <1>o
<1>13. ASSUME NEW x \in P, Past(x), b \in P => ~Merged(asset[b])
       PROVE  Late(P)' \/ (~Merged(a) /\ Awaited(port, a)')
  <2>1. Late(P) \/ (~Merged(a) /\ Awaited(port, a))
    BY <1>5, <1>13 DEF Expected
  <2>2. ASSUME Late(P) PROVE Late(P)'
    <3>1. PICK y \in P : ~Past(y) /\ asset[y] \in DOMAIN class /\ Merged(asset[y])
      BY <2>2 DEF Late
    <3>2. QED
      BY <1>9, <1>13, <3>1
  <2>3. QED
    BY <1>8, <1>a, <2>1, <2>2
<1>14. Expected(port, a)'
  <2> SUFFICES ASSUME NEW d \in P, Past(d)'
               PROVE  Late(P)' \/ (~Merged(a) /\ Awaited(port, a)')
    BY <1>3, <1>4 DEF Expected
  <2>1. CASE b \notin P
    BY <1>2, <1>4, <1>13, <2>1
  <2>2. CASE b \in P
    <3>1. PICK m : m = asset[b]
      OBVIOUS
    <3>2. PICK c \in P :
            /\ c # b /\ Saw(b, c)'
            /\ \/ c \in On(port, m)
               \/ ~Merged(m) /\ asset[c] \in DOMAIN class /\ Merged(asset[c])
      BY <1>11, <2>2, <3>1
    <3>3. m \in DOMAIN class /\ m \in Lineage(a) /\ (~Merged(m) => b \in On(port, m))
      BY <1>11, <2>2, <3>1
    <3>4. c \in Batches
      BY <1>4
    <3>5. CASE Merged(m)
      <4>1. c \in On(port, m)
        BY <3>2, <3>5
      <4>2. CASE ~Past(c)
        BY <1>12, <3>2, <3>3, <3>5, <4>1, <4>2
      <4>3. CASE Past(c)
        <5>1. PICK y \in On(port, m) : y # b /\ ~Past(y)
          BY <1>8, <1>10, <3>3, <3>5, <4>1, <4>3
        <5>2. QED
          BY <1>12, <3>3, <3>5, <5>1
      <4>4. QED
        BY <4>2, <4>3
    <3>6. CASE ~Merged(m) /\ Past(c)
      BY <1>13, <3>1, <3>6
    <3>7. CASE ~Merged(m) /\ ~Past(c) /\ c \in On(port, m)
      <4>1. ~Past(c)'
        BY <1>2, <3>2, <3>4, <3>7
      <4>2. Awaited(port, m)'
        BY <1>2, <1>3, <3>2, <3>3, <3>7, <4>1 DEF Awaited
      <4>3. a = m
        BY <3>3, <3>7, LineageEnds
      <4>4. QED
        BY <3>7, <4>2, <4>3
    <3>8. CASE ~Past(c) /\ asset[c] \in DOMAIN class /\ Merged(asset[c])
      BY <1>9, <3>2, <3>8
    <3>9. QED
      BY <3>2, <3>5, <3>6, <3>7, <3>8
  <2>3. QED
    BY <2>1, <2>2
<1>15. ExpectedMerged(port, a)'
  <2> SUFFICES ASSUME Merged(a), NEW d \in On(port, a), Past(d)'
               PROVE  Awaited(port, a)'
    BY <1>3 DEF ExpectedMerged
  <2>1. d \in Batches /\ d \in P /\ asset[d] = a
    BY <1>a, <1>o
  <2>2. CASE d # b
    BY <1>2, <1>8, <1>10, <1>a, <2>1, <2>2
  <2>3. CASE d = b
    <3>1. PICK c \in P : c # b /\ Saw(b, c)' /\ c \in On(port, a)
      BY <1>11, <2>1, <2>3
    <3>2. c \in Batches
      BY <1>4
    <3>3. CASE Past(c)
      BY <1>8, <1>10, <1>a, <3>1, <3>3
    <3>4. CASE ~Past(c)
      <4>1. ~Past(c)'
        BY <1>2, <3>1, <3>2, <3>4
      <4>2. QED
        BY <1>2, <1>3, <2>3, <3>1, <4>1 DEF Awaited
    <3>5. QED
      BY <3>3, <3>4
  <2>4. QED
    BY <2>2, <2>3
<1>16. QED
  BY <1>14, <1>15

(* Every step keeps what explains a service that is not reported. *)
LEMMA NextRace ==
  ASSUME MergedInv, PlaceInv, ChangesInv, StageInv, LinksInv, ProductInv, PlacedInv, RaceInv, [Next]_vars
  PROVE  RaceInv'
<1> SUFFICES ASSUME faults' = 0, NEW port \in Ports, NEW a \in DOMAIN class'
             PROVE  Expected(port, a)' /\ ExpectedMerged(port, a)'
  BY DEF RaceInv, Ports, AllObs, Obs, Seen
<1>1. faults = 0
  BY ChangesStay
<1>2. \A n \in DOMAIN class : Expected(port, n) /\ ExpectedMerged(port, n)
  BY <1>1 DEF RaceInv
<1>3. ASSUME NEW b \in Batches, Detect(b) PROVE Expected(port, a)' /\ ExpectedMerged(port, a)'
  <2>1. a \in DOMAIN class
    BY <1>3 DEF Detect, tables
  <2>2. QED
    BY <1>1, <1>2, <1>3, <2>1, SomebodyLooks
<1>4. CASE \A b \in Batches : ~Detect(b)
  BY <1>1, <1>2, <1>4, NobodyLooks
<1>5. QED
  BY <1>3, <1>4

-----------------------------------------------------------------------------
(* The theorems. *)

DInv == StageInv /\ LinksInv /\ ProductInv /\ DerivedInv /\ PlacedInv /\ RaceInv

(* The inductive invariants hold in every reachable state. *)
THEOREM DerivationInvariance == Spec => []DInv
<1>1. Init => DInv
  <2> SUFFICES ASSUME Init PROVE DInv
    OBVIOUS
  <2>1. StageInv
    BY DEF Init, StageInv
  <2>2. LinksInv
    BY DEF Init, Nothing, LinksInv, Looking
  <2>3. ProductInv
    BY DEF Init, Nothing, ProductInv, Blank
  <2>4. DerivedInv
    <3>1. load.import \in Seq(Batches)
      BY DeriveAssumption DEF Init
    <3>2. \A i \in DOMAIN load.import : pc[load.import[i]] = "idle"
      BY <3>1 DEF Init
    <3>3. \A b \in Batches : top[b] = Blank
      BY DEF Init
    <3>4. QED
      BY <3>2, <3>3 DEF Init, DerivedInv, Named
  <2>5. PlacedInv
    BY DEF Init, PlacedInv
  <2>6. RaceInv
    <3>1. \A b \in Batches : ~Past(b)
      BY DEF Init, Past
    <3>2. QED
      BY <3>1 DEF RaceInv, Expected, ExpectedMerged, Peers, Serving, On
  <2>7. QED
    BY <2>1, <2>2, <2>3, <2>4, <2>5, <2>6 DEF DInv
<1>2. IInv /\ DInv /\ [Next]_vars => DInv'
  <2> SUFFICES ASSUME IInv, DInv, [Next]_vars PROVE DInv'
    OBVIOUS
  <2>1. /\ MergedInv /\ FindingsInv /\ PlaceInv /\ ChangesInv
        /\ StageInv /\ LinksInv /\ ProductInv /\ DerivedInv /\ PlacedInv /\ RaceInv
    BY DEF IInv, DInv
  <2>2. StageInv' /\ LinksInv'
    BY <2>1, NextStages, NextLinks
  <2>3. ProductInv' /\ DerivedInv'
    BY <2>1, NextProducts, NextDerived
  <2>4. PlacedInv' /\ RaceInv'
    BY <2>1, NextPlaced, NextRace
  <2>5. QED
    BY <2>2, <2>3, <2>4 DEF DInv
<1>3. QED
  BY <1>1, <1>2, Invariance, PTL DEF Spec

(* Every variable has its type, and rows name assets that exist.           *)
THEOREM TypeCorrect == Spec => []TypeOK
<1>1. IInv /\ DInv => TypeOK
  <2> SUFFICES ASSUME IInv, DInv PROVE TypeOK
    OBVIOUS
  <2>1. /\ pc \in [Batches -> Stages] /\ asset \in [Batches -> Assets \cup {NoAsset}]
        /\ created \in [Batches -> BOOLEAN] /\ DOMAIN class \subseteq Assets
        /\ DOMAIN mergedInto = DOMAIN class
    BY DEF IInv, PlaceInv, MergedInv
  <2>2. \A b \in Batches : recent[b] \subseteq UNION {Obs(c) : c \in Batches}
    BY DEF DInv, LinksInv, AllObs
  <2>3. \A b \in Batches : pc[b] \in {"attach", "detect", "evaluate", "read", "write"}
                             => asset[b] \in DOMAIN class
    BY DEF IInv, PlaceInv, WorkingStages
  <2>4. \A c \in DOMAIN changes : changes[c].asset \in DOMAIN class
    BY DEF IInv, ChangesInv
  <2>5. \A k \in DOMAIN findings : k.asset \in DOMAIN class
    BY DEF DInv, ProductInv
  <2>6. \A l \in links : l[1] \in DOMAIN class
    BY DEF DInv, LinksInv
  <2>7. QED
    BY <2>1, <2>2, <2>3, <2>4, <2>5, <2>6 DEF TypeOK
<1>2. QED
  BY <1>1, Invariance, DerivationInvariance, PTL

(* No finding says "likely" unless some batch of the asset, or of one      *)
(* merged into it, classified it as the product of the advisory, whichever *)
(* jobs evaluate it and whatever is merged (Correlate, Engine.Evaluate,    *)
(* UpsertFinding, MergeAssets).                                            *)
THEOREM FindingsAreClassified == Spec => []CeilingHolds
<1>1. DInv => CeilingHolds
  BY DEF DInv, ProductInv, Strength, Product, CeilingHolds
<1>2. QED
  BY <1>1, DerivationInvariance, PTL

(* An import that goes on after a record has attached all its observations *)
(* to the asset it resolved to, or to what that was merged into; while no  *)
(* call fails, the advisories of its vendor are findings there; and        *)
(* records that wait behind another are untouched (PipelineSink).          *)
THEOREM ImportsAreDerived == Spec => []ImportedIsDerived
<1>1. IInv /\ DInv => ImportedIsDerived
  <2> SUFFICES ASSUME IInv, DInv, NEW i \in DOMAIN load.import
               PROVE  LET b == load.import[i]
                      IN  /\ pc[b] = "done" =>
                              /\ \A o \in Obs(b) :
                                   \E a \in DOMAIN class : asset[b] \in Lineage(a) /\ <<a, o>> \in links
                              /\ top[b] # Blank /\ faults = 0 =>
                                   \A n \in DOMAIN AdvisoryBundle :
                                     top[b].vendor = AdvisoryBundle[n].vendor =>
                                       \/ \E k \in DOMAIN findings :
                                            /\ k.advisory = AdvisoryBundle[n]
                                            /\ asset[b] \in Lineage(k.asset)
                                       \/ Overruled(b)
                          /\ pc[b] # "idle" => \A j \in 1..(i - 1) : pc[load.import[j]] = "done"
    BY DEF ImportedIsDerived
  <2> DEFINE b == load.import[i]
  <2>1. load.import \in Seq(Batches)
    BY DeriveAssumption DEF DInv, DerivedInv
  <2>2. b \in Batches /\ Imported(b)
    BY <2>1 DEF Imported, ToSet
  <2>3. pc[b] # "idle" => \A j \in 1..(i - 1) : pc[load.import[j]] = "done"
    BY DEF DInv, DerivedInv
  <2> HIDE DEF b
  <2>4. ASSUME pc[b] = "done", NEW o \in Obs(b)
        PROVE  \E a \in DOMAIN class : asset[b] \in Lineage(a) /\ <<a, o>> \in links
    <3>1. Unattached(b) = {}
      BY <2>2, <2>4 DEF DInv, LinksInv
    <3>2. PICK l \in links : l[2] = o
      BY <3>1 DEF Unattached
    <3>3. l = <<l[1], l[2]>> /\ l[1] \in DOMAIN class
      BY DEF DInv, LinksInv
    <3>4. o[1] = b
      BY <2>2, Observation
    <3>5. asset[b] \in Lineage(l[1])
      BY <3>2, <3>4 DEF DInv, LinksInv
    <3>6. QED
      BY <3>2, <3>3, <3>5
  <2>5. ASSUME pc[b] = "done", top[b] # Blank, faults = 0, NEW n \in DOMAIN AdvisoryBundle,
               top[b].vendor = AdvisoryBundle[n].vendor
        PROVE  \/ \E k \in DOMAIN findings :
                    k.advisory = AdvisoryBundle[n] /\ asset[b] \in Lineage(k.asset)
               \/ Overruled(b)
    <3>1. Covered(b, AdvisoryBundle[n])
      BY <2>2, <2>5 DEF DInv, DerivedInv
    <3>2. pending[b] = {}
      BY <2>2, <2>5 DEF DInv, StageInv
    <3>3. QED
      BY <3>1, <3>2 DEF Covered
  <2>6. QED
    BY <2>3, <2>4, <2>5 DEF b
<1>2. QED
  BY <1>1, Invariance, DerivationInvariance, PTL

(* While no call fails, a service of an asset that batches of it, or of    *)
(* what was merged into it, saw is told of once all of them have looked,   *)
(* unless one of them found its asset or two took each other's             *)
(* observation for an earlier one, whatever is merged meanwhile            *)
(* (detectEndpointChanges, ListObservations, AttachObservation).           *)
THEOREM MissedOnlyByRace == Spec => []MissedOnlyInRace
<1>1. IInv /\ DInv => MissedOnlyInRace
  <2> SUFFICES ASSUME IInv, DInv, faults = 0, NEW a \in DOMAIN class,
                      NEW port \in {Seen(o).port : o \in UNION {Obs(b) : b \in Batches}}
               PROVE  \/ Peers(port, a) = {} \/ \E b \in Peers(port, a) : pc[b] \in {"attach", "detect"}
                      \/ Good(port, Peers(port, a))
    BY DEF MissedOnlyInRace, Good, Saw
  <2>1. port \in Ports
    BY DEF Ports, AllObs
  <2>2. Expected(port, a)
    BY <2>1 DEF DInv, RaceInv
  <2>3. ASSUME NEW y \in Peers(port, a), ~Past(y) PROVE pc[y] \in {"attach", "detect"}
    BY <2>3 DEF Peers, Serving, Past
  <2>4. CASE \E y \in Peers(port, a) : ~Past(y)
    BY <2>3, <2>4
  <2>5. CASE \A y \in Peers(port, a) : Past(y)
    <3>1. ~Late(Peers(port, a))
      BY <2>5 DEF Late
    <3>2. ASSUME Awaited(port, a) PROVE FALSE
      <4>1. PICK y \in On(port, a) : ~Past(y)
        BY <3>2 DEF Awaited
      <4>2. LinksInv /\ a \in Assets
        BY DEF IInv, DInv, PlaceInv
      <4>3. y \in Peers(port, a)
        BY <4>2, OnServes, LineageSelf DEF Peers
      <4>4. QED
        BY <2>5, <4>1, <4>3
    <3>3. QED
      BY <2>2, <2>5, <3>1, <3>2 DEF Expected
  <2>6. QED
    BY <2>4, <2>5
<1>2. QED
  BY <1>1, Invariance, DerivationInvariance, PTL
=============================================================================
