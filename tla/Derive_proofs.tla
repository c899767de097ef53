------------------------------ MODULE Derive_proofs ------------------------------
(***************************************************************************)
(* Proofs about Derive: what is kept of findings and of the judgements of  *)
(* operators, that classifications are announced, and what one source of   *)
(* evidence can add up to, for any batches, assets, rules and advisories.  *)
(***************************************************************************)
EXTENDS Derive, SequenceTheorems, FiniteSetTheorems, WellFoundedInduction, TLAPS

(* Assets are never deleted: each has an entry that says what it was       *)
(* merged into.                                                            *)
MergedInv == DOMAIN mergedInto = DOMAIN class

(* A history that ends in its state and has no two equal entries in a row. *)
Chain(h, state) ==
  /\ \E S : h \in Seq(S)
  /\ h # <<>> /\ h[Len(h)] = state
  /\ \A i \in 1..(Len(h) - 1) : h[i] # h[i + 1]

(* Rows of findings and their keys have the fields they are read by.       *)
RowOf(f) ==
  /\ f = [state |-> f.state, disposition |-> f.disposition, history |-> f.history]
  /\ Chain(f.history, f.state)
FindingsInv ==
  \A k \in DOMAIN findings :
    /\ k = [asset |-> k.asset, advisory |-> k.advisory]
    /\ RowOf(findings[k])

(* Where a batch is, and what it knows by then.                            *)
WorkingStages == {"attach", "detect", "evaluate", "read", "write", "titles", "findings", "upsert"}
EarlyStages   == {"idle", "resolve", "attach", "detect", "evaluate"}
PlaceInv ==
  /\ pc \in [Batches -> Stages]
  /\ asset \in [Batches -> Assets \cup {NoAsset}]
  /\ created \in [Batches -> BOOLEAN]
  /\ DOMAIN class \subseteq Assets
  /\ \A b \in Batches : pc[b] \in WorkingStages => asset[b] \in DOMAIN class
  /\ DOMAIN top = Batches /\ \A b \in Batches : pc[b] \in EarlyStages => top[b] = Blank
  /\ faults \in Nat

(* Changes that wait to be added, and those that were, are about assets.   *)
Waiting(list) == /\ \E S : list \in Seq(S)
                 /\ \A i \in DOMAIN list : list[i][2] \in DOMAIN class
ChangesInv ==
  /\ DOMAIN todo = Batches /\ \A b \in Batches : Waiting(todo[b])
  /\ \A c \in DOMAIN changes :
       /\ changes[c] = [asset |-> changes[c].asset, acknowledged |-> changes[c].acknowledged]
       /\ changes[c].asset \in DOMAIN class

(* A classification was, or will be, announced, or given on first sight.   *)
Told(a, c) ==
  \/ <<"classification_changed", a, c>> \in DOMAIN changes
  \/ \E b \in Batches : <<"classification_changed", a, c>> \in ToSet(todo[b])
  \/ \E b \in Batches : created[b] /\ asset[b] = a /\ top[b] = c
AnnouncedInv ==
  /\ DOMAIN previous = Batches
  /\ faults = 0 =>
       /\ \A a \in DOMAIN class : class[a] # Blank => Told(a, class[a])
       /\ \A b \in Batches :
            pc[b] = "write" /\ previous[b] # Blank => Told(asset[b], previous[b])

IInv == MergedInv /\ FindingsInv /\ PlaceInv /\ ChangesInv /\ AnnouncedInv

-----------------------------------------------------------------------------
(* A first evaluation starts a history. *)
LEMMA NewRowChains == ASSUME NEW state PROVE RowOf(NewRow(state))
<1>1. <<state>> \in Seq({state}) /\ Len(<<state>>) = 1 /\ <<state>>[1] = state
  OBVIOUS
<1>2. Chain(<<state>>, state)
  <2>1. <<state>> # <<>> /\ \A i \in 1..(1 - 1) : FALSE
    BY <1>1
  <2> DEFINE h == <<state>>
  <2>2. h \in Seq({state}) /\ Len(h) = 1 /\ h[1] = state /\ h # <<>>
    BY <1>1, <2>1
  <2> HIDE DEF h
  <2>3. Chain(h, state)
    BY <2>1, <2>2 DEF Chain
  <2>4. QED
    BY <2>3 DEF h
<1> DEFINE row == NewRow(state)
<1>3. /\ row = [state |-> row.state, disposition |-> row.disposition, history |-> row.history]
      /\ row.state = state /\ row.history = <<state>>
  BY DEF NewRow
<1> HIDE DEF row
<1>4. RowOf(row)
  BY <1>2, <1>3 DEF RowOf
<1>5. QED
  BY <1>4 DEF row

(* Another evaluation continues it. *)
LEMMA ReevaluatedChains ==
  ASSUME NEW old, RowOf(old), NEW state
  PROVE  RowOf(Reevaluated(old, state)) /\ Reevaluated(old, state).disposition = old.disposition
<1> DEFINE h == old.history
           new == IF old.state = state THEN h ELSE Append(h, state)
<1>1. old = [state |-> old.state, disposition |-> old.disposition, history |-> h]
  BY DEF RowOf
<1>2. Reevaluated(old, state) = [state |-> state, disposition |-> old.disposition, history |-> new]
  <2>1. Reevaluated(old, state) = [old EXCEPT !.state = state, !.history = new]
    BY DEF Reevaluated
  <2> HIDE DEF new
  <2>2. QED
    BY <1>1, <2>1
<1>3. Chain(new, state)
  <2>1. Chain(h, old.state)
    BY DEF RowOf
  <2>2. CASE old.state = state
    BY <2>1, <2>2
  <2>3. CASE old.state # state
    <3>1. PICK S : h \in Seq(S)
      BY <2>1 DEF Chain
    <3>2. h \in Seq(S \cup {state}) /\ Len(h) \in Nat
      BY <3>1
    <3>3. /\ Append(h, state) \in Seq(S \cup {state})
          /\ Len(Append(h, state)) = Len(h) + 1
          /\ \A i \in 1..Len(h) : Append(h, state)[i] = h[i]
          /\ Append(h, state)[Len(h) + 1] = state
      BY <3>2, AppendProperties
    <3>4. h[Len(h)] # state /\ \A i \in 1..(Len(h) - 1) : h[i] # h[i + 1]
      BY <2>1, <2>3 DEF Chain
    <3>5. Append(h, state) # <<>>
      <4>1. Len(<<>>) = 0 /\ Len(Append(h, state)) # 0
        BY <3>2, <3>3
      <4>2. QED
        BY <4>1
    <3> DEFINE g == Append(h, state)
    <3> HIDE DEF g, h
    <3>6. \A i \in 1..(Len(g) - 1) : g[i] # g[i + 1]
      BY <3>2, <3>3, <3>4 DEF g
    <3>7. Chain(g, state)
      BY <3>2, <3>3, <3>5, <3>6 DEF g, Chain
    <3>8. QED
      BY <3>7, <2>3 DEF g
  <2>4. QED
    BY <2>2, <2>3
<1> HIDE DEF new, h
<1>4. QED
  BY <1>2, <1>3 DEF RowOf

(* The key of a finding that moves, there and back. *)
LEMMA MovedKey ==
  ASSUME NEW k, k = [asset |-> k.asset, advisory |-> k.advisory], NEW target
  PROVE  /\ [k EXCEPT !.asset = target] = [asset |-> target, advisory |-> k.advisory]
         /\ [[k EXCEPT !.asset = target] EXCEPT !.asset = k.asset] = k
<1> DEFINE there == [k EXCEPT !.asset = target]
<1>1. there = [asset |-> target, advisory |-> k.advisory]
  OBVIOUS
<1> HIDE DEF there
<1>2. [there EXCEPT !.asset = k.asset] = [asset |-> k.asset, advisory |-> k.advisory]
  BY <1>1
<1>3. QED
  BY <1>1, <1>2 DEF there

-----------------------------------------------------------------------------
(* A row evaluated again, or left alone: the judgement of it stays. *)
Continues(old, new) == RowOf(new) /\ new.disposition = old.disposition

(* What a job that upserts a finding writes, if its call does not fail. *)
RowWritten(b, f) ==
  LET key == [asset |-> asset[b], advisory |-> f.advisory]
      list == When(key \notin DOMAIN findings, Change(b, "new_finding", <<f.advisory, f.state>>))
  IN  \/ /\ UNCHANGED <<findings, todo, pending>> /\ faults' = faults + 1
         /\ pc' = [pc EXCEPT ![b] = "failed"]
      \/ /\ \/ key \notin DOMAIN findings /\ findings' = Added(findings, key, NewRow(f.state))
            \/ key \in DOMAIN findings
               /\ findings' = [findings EXCEPT ![key] = Reevaluated(findings[key], f.state)]
         /\ todo' = [todo EXCEPT ![b] = list]
         /\ pending' = [pending EXCEPT ![b] = pending[b] \ {f}]
         /\ UNCHANGED <<pc, faults>>
LEMMA RowOfUpsert ==
  ASSUME NEW b \in Batches, UpsertFinding(b)
  PROVE  \E f \in pending[b] : RowWritten(b, f)
<1>1. PICK f \in pending[b] :
         LET key == [asset |-> asset[b], advisory |-> f.advisory]
             isNew == key \notin DOMAIN findings
         IN  \/ /\ findings' = IF isNew THEN Added(findings, key, NewRow(f.state))
                              ELSE [findings EXCEPT ![key] = Reevaluated(@, f.state)]
                /\ todo' = [todo EXCEPT ![b] =
                              When(isNew, Change(b, "new_finding", <<f.advisory, f.state>>))]
                /\ pending' = [pending EXCEPT ![b] = @ \ {f}]
                /\ NoFault /\ UNCHANGED pc
             \/ Fault /\ Goto(b, "failed") /\ UNCHANGED <<findings, todo, pending>>
  BY DEF UpsertFinding
<1>2. QED
  BY <1>1 DEF RowWritten, Fault, NoFault, Goto

(* What a batch may do to the tables of findings and of changes. *)
LEMMA BatchKeepsRows ==
  ASSUME FindingsInv, NEW b \in Batches, IngestBatch(b) \/ Correlated(b)
  PROVE  /\ FindingsInv'
         /\ \A k \in DOMAIN findings :
              k \in DOMAIN findings' /\ findings'[k].disposition = findings[k].disposition
         /\ \A c \in DOMAIN changes :
              c \in DOMAIN changes' /\ changes'[c].acknowledged = changes[c].acknowledged
<1> USE DEF tables, batchVars
<1>k. ASSUME UNCHANGED <<findings, changes>>
      PROVE  /\ FindingsInv'
             /\ \A k \in DOMAIN findings :
                  k \in DOMAIN findings' /\ findings'[k].disposition = findings[k].disposition
             /\ \A c \in DOMAIN changes :
                  c \in DOMAIN changes' /\ changes'[c].acknowledged = changes[c].acknowledged
  BY <1>k DEF FindingsInv
<1>1. CASE Collect(b) \/ Resolve(b) \/ AttachRest(b) \/ Detect(b) \/ Evaluate(b) \/ ReadAsset(b)
           \/ UpdateClassification(b) \/ DetectTitle(b) \/ EvaluateAdvisories(b) \/ Finish(b)
  BY <1>1, <1>k DEF Collect, Resolve, AttachRest, Detect, Evaluate, ReadAsset,
                    UpdateClassification, DetectTitle, EvaluateAdvisories, Finish
<1>2. CASE Report(b)
  <2> DEFINE c == Head(todo[b])
             row == [asset |-> c[2], acknowledged |-> FALSE]
  <2>1. findings' = findings /\ (changes' = changes \/ changes' = Added(changes, c, row))
    BY <1>2 DEF Report
  <2> HIDE DEF c, row
  <2>2. /\ DOMAIN changes \subseteq DOMAIN changes'
        /\ \A x \in DOMAIN changes : changes'[x] = changes[x]
    BY <2>1 DEF Added
  <2>3. QED
    BY <2>1, <2>2 DEF FindingsInv
<1>3. CASE UpsertFinding(b)
  <2>1. UNCHANGED changes
    BY <1>3 DEF UpsertFinding
  <2>p. PICK f \in pending[b] : RowWritten(b, f)
    BY <1>3, RowOfUpsert
  <2> DEFINE key == [asset |-> asset[b], advisory |-> f.advisory]
             new == IF key \in DOMAIN findings THEN Reevaluated(findings[key], f.state)
                    ELSE NewRow(f.state)
  <2>2. \/ findings' = findings
        \/ key \notin DOMAIN findings /\ findings' = Added(findings, key, NewRow(f.state))
        \/ key \in DOMAIN findings
           /\ findings' = [findings EXCEPT ![key] = Reevaluated(findings[key], f.state)]
    BY <2>p DEF RowWritten
  <2>3. key = [asset |-> key.asset, advisory |-> key.advisory]
    OBVIOUS
  <2>4. RowOf(NewRow(f.state))
    BY NewRowChains
  <2>5. ASSUME key \in DOMAIN findings
        PROVE  Continues(findings[key], Reevaluated(findings[key], f.state))
    <3>1. RowOf(findings[key])
      BY <2>5 DEF FindingsInv
    <3> DEFINE old == findings[key]
               state == f.state
    <3> HIDE DEF old, state
    <3>2. RowOf(old) => Continues(old, Reevaluated(old, state))
      BY ReevaluatedChains DEF Continues
    <3>3. QED
      BY <3>1, <3>2 DEF old, state
  <2> HIDE DEF key, new
  <2>6. /\ DOMAIN findings' \subseteq DOMAIN findings \cup {key}
        /\ DOMAIN findings \subseteq DOMAIN findings'
        /\ \A k \in DOMAIN findings :
             findings'[k] = findings[k] \/ Continues(findings[k], findings'[k])
        /\ key \in DOMAIN findings' \ DOMAIN findings => RowOf(findings'[key])
    <3>1. CASE findings' = findings
      BY <3>1
    <3>2. CASE key \notin DOMAIN findings /\ findings' = Added(findings, key, NewRow(f.state))
      BY <3>2, <2>4 DEF Added
    <3>3. CASE key \in DOMAIN findings
               /\ findings' = [findings EXCEPT ![key] = Reevaluated(findings[key], f.state)]
      <4>1. DOMAIN findings' = DOMAIN findings
        BY <3>3
      <4>2. \A k \in DOMAIN findings :
               findings'[k] = IF k = key THEN Reevaluated(findings[key], f.state) ELSE findings[k]
        BY <3>3
      <4>3. QED
        BY <3>3, <4>1, <4>2, <2>5
    <3>4. QED
      BY <2>2, <3>1, <3>2, <3>3
  <2>7. FindingsInv'
    <3> SUFFICES ASSUME NEW k \in DOMAIN findings'
                 PROVE  k = [asset |-> k.asset, advisory |-> k.advisory] /\ RowOf(findings'[k])
      BY DEF FindingsInv, RowOf, Chain
    <3>1. CASE k \in DOMAIN findings
      BY <3>1, <2>6 DEF FindingsInv, Continues
    <3>2. CASE k \notin DOMAIN findings
      BY <3>2, <2>6, <2>3
    <3>3. QED
      BY <3>1, <3>2
  <2>8. QED
    BY <2>1, <2>6, <2>7 DEF Continues
<1>4. QED
  BY <1>1, <1>2, <1>3 DEF IngestBatch, Correlated

(* A merge moves findings, and loses one only beside another of the same   *)
(* advisory.                                                               *)
LEMMA MergeKeepsFindings ==
  ASSUME MergedInv, FindingsInv, NEW source, NEW target, Merge(source, target)
  PROVE  /\ FindingsInv'
         /\ \A k \in DOMAIN findings :
              \E kept \in DOMAIN findings' :
                kept.advisory = k.advisory /\ kept.asset \in {k.asset, mergedInto'[k.asset]}
<1> DEFINE moved(k) == [k EXCEPT !.asset = target]
           Back(k) == IF k \in DOMAIN findings THEN k ELSE [k EXCEPT !.asset = source]
           theirs == {k \in DOMAIN findings : k.asset = source}
           kept == {k \in DOMAIN findings : k.asset # source} \cup {moved(k) : k \in theirs}
<1>1. findings' = [k \in kept |-> findings[Back(k)]]
  BY DEF Merge, MoveFindings
<1>2. DOMAIN findings' = kept /\ \A k \in kept : findings'[k] = findings[Back(k)]
  BY <1>1
<1>3. \A k \in theirs : /\ moved(k) = [asset |-> target, advisory |-> k.advisory]
                        /\ [moved(k) EXCEPT !.asset = source] = k
                        /\ moved(k).advisory = k.advisory /\ moved(k).asset = target
  <2> SUFFICES ASSUME NEW k \in theirs
               PROVE  /\ moved(k) = [asset |-> target, advisory |-> k.advisory]
                      /\ [moved(k) EXCEPT !.asset = source] = k
                      /\ moved(k).advisory = k.advisory /\ moved(k).asset = target
    OBVIOUS
  <2>1. k = [asset |-> k.asset, advisory |-> k.advisory] /\ k.asset = source
    BY DEF FindingsInv
  <2>2. /\ moved(k) = [asset |-> target, advisory |-> k.advisory]
        /\ [moved(k) EXCEPT !.asset = k.asset] = k
    BY <2>1, MovedKey
  <2> HIDE DEF moved
  <2>3. QED
    BY <2>1, <2>2
<1>4. \A k \in kept : /\ Back(k) \in DOMAIN findings
                      /\ k = [asset |-> k.asset, advisory |-> k.advisory]
  <2> SUFFICES ASSUME NEW k \in kept
               PROVE  /\ Back(k) \in DOMAIN findings
                      /\ k = [asset |-> k.asset, advisory |-> k.advisory]
    OBVIOUS
  <2>1. CASE k \in DOMAIN findings
    BY <2>1 DEF FindingsInv
  <2>2. CASE k \notin DOMAIN findings
    <3>1. PICK q \in theirs : k = moved(q)
      BY <2>2
    <3>2. /\ k = [asset |-> target, advisory |-> q.advisory]
          /\ [k EXCEPT !.asset = source] = q
      BY <3>1, <1>3
    <3>3. Back(k) = q /\ q \in DOMAIN findings
      BY <2>2, <3>2
    <3> HIDE DEF Back, moved
    <3>4. QED
      BY <3>2, <3>3
  <2>3. QED
    BY <2>1, <2>2
<1>5. mergedInto'[source] = target
  BY DEF Merge, MergedInv
<1>6. FindingsInv'
  <2> SUFFICES ASSUME NEW k \in DOMAIN findings'
               PROVE  k = [asset |-> k.asset, advisory |-> k.advisory] /\ RowOf(findings'[k])
    BY DEF FindingsInv, RowOf, Chain
  <2>1. k \in kept /\ findings'[k] = findings[Back(k)] /\ Back(k) \in DOMAIN findings
    BY <1>2, <1>4
  <2> HIDE DEF kept, Back
  <2>2. QED
    BY <2>1, <1>4 DEF FindingsInv
<1>7. ASSUME NEW k \in DOMAIN findings
      PROVE  \E other \in DOMAIN findings' :
               other.advisory = k.advisory /\ other.asset \in {k.asset, mergedInto'[k.asset]}
  <2>1. CASE k.asset # source
    BY <2>1, <1>2
  <2>2. CASE k.asset = source
    <3>1. k \in theirs /\ moved(k) \in DOMAIN findings'
      BY <2>2, <1>2
    <3>2. moved(k).advisory = k.advisory /\ moved(k).asset = target
      BY <3>1, <1>3
    <3>3. QED
      BY <2>2, <3>1, <3>2, <1>5
  <2>3. QED
    BY <2>1, <2>2
<1>8. QED
  BY <1>6, <1>7

(* An operator's judgement leaves the rows and their histories. *)
LEMMA JudgingKeepsFindings ==
  ASSUME FindingsInv, NEW key \in DOMAIN findings, NEW word, SetDisposition(key, word)
  PROVE  FindingsInv' /\ DOMAIN findings' = DOMAIN findings
<1>1. findings' = [findings EXCEPT ![key] = [findings[key] EXCEPT !.disposition = word]]
  BY DEF SetDisposition
<1>2. DOMAIN findings' = DOMAIN findings
  BY <1>1
<1>3. RowOf([findings[key] EXCEPT !.disposition = word])
  <2>1. RowOf(findings[key])
    BY DEF FindingsInv
  <2> DEFINE old == findings[key]
             new == [old EXCEPT !.disposition = word]
  <2>2. /\ new = [state |-> new.state, disposition |-> new.disposition, history |-> new.history]
        /\ new.state = old.state /\ new.history = old.history
    BY <2>1 DEF RowOf
  <2>3. Chain(old.history, old.state)
    BY <2>1 DEF RowOf
  <2> HIDE DEF old, new
  <2>4. RowOf(new)
    BY <2>2, <2>3 DEF RowOf
  <2>5. QED
    BY <2>4 DEF old, new
<1>4. \A k \in DOMAIN findings : RowOf(findings'[k])
  <2> DEFINE new == [findings[key] EXCEPT !.disposition = word]
  <2>1. RowOf(new) /\ findings' = [findings EXCEPT ![key] = new]
    BY <1>1, <1>3
  <2> HIDE DEF new
  <2>2. QED
    BY <2>1 DEF FindingsInv
<1>5. QED
  BY <1>2, <1>4 DEF FindingsInv, RowOf, Chain

-----------------------------------------------------------------------------
(* Assets are not deleted. *)
LEMMA NextMerged == MergedInv /\ [Next]_vars => MergedInv'
<1> SUFFICES ASSUME MergedInv, [Next]_vars PROVE MergedInv'
  OBVIOUS
<1> USE DEF tables, batchVars
<1>k. ASSUME UNCHANGED <<class, mergedInto>> PROVE MergedInv'
  BY <1>k DEF MergedInv
<1>1. ASSUME NEW b \in Batches, Resolve(b) PROVE MergedInv'
  <2>1. CASE UNCHANGED <<class, mergedInto>>
    BY <2>1, <1>k
  <2>2. CASE \E a \in Assets : class' = Added(class, a, Blank) /\ mergedInto' = Added(mergedInto, a, NoAsset)
    BY <2>2 DEF Added, MergedInv
  <2>3. QED
    BY <1>1, <2>1, <2>2 DEF Resolve
<1>2. ASSUME NEW b \in Batches, UpdateClassification(b) PROVE MergedInv'
  BY <1>2 DEF UpdateClassification, MergedInv
<1>3. ASSUME NEW b \in Batches,
             \/ Collect(b) \/ AttachRest(b) \/ Detect(b) \/ Report(b) \/ Evaluate(b) \/ ReadAsset(b)
             \/ DetectTitle(b) \/ Correlated(b)
      PROVE  MergedInv'
  BY <1>3, <1>k DEF Collect, AttachRest, Detect, Report, Evaluate, ReadAsset, DetectTitle,
                    Correlated, EvaluateAdvisories, UpsertFinding, Finish
<1>4. ASSUME Operator PROVE MergedInv'
  <2>1. CASE \E source, target \in Assets : Merge(source, target)
    BY <2>1 DEF Merge, MergedInv
  <2>2. CASE ~ \E source, target \in Assets : Merge(source, target)
    BY <1>4, <2>2, <1>k DEF Operator, SetDisposition, Acknowledge
  <2>3. QED
    BY <2>1, <2>2
<1>5. CASE UNCHANGED vars
  BY <1>5, <1>k DEF vars
<1>6. QED
  BY <1>1, <1>2, <1>3, <1>4, <1>5 DEF Next, IngestBatch

(* Every step keeps the rows of findings in order, and no advisory is lost *)
(* from the asset that stands for the one it was found on.                 *)
StillFound ==
  \A k \in DOMAIN findings :
    \E kept \in DOMAIN findings' :
      kept.advisory = k.advisory /\ kept.asset \in {k.asset, mergedInto'[k.asset]}
LEMMA NextFindings == MergedInv /\ FindingsInv /\ [Next]_vars => FindingsInv' /\ StillFound
<1> SUFFICES ASSUME MergedInv, FindingsInv, [Next]_vars PROVE FindingsInv' /\ StillFound
  OBVIOUS
<1>k. ASSUME UNCHANGED findings PROVE FindingsInv' /\ StillFound
  BY <1>k DEF FindingsInv, StillFound
<1>1. ASSUME NEW b \in Batches, IngestBatch(b) \/ Correlated(b) PROVE FindingsInv' /\ StillFound
  BY <1>1, BatchKeepsRows DEF StillFound
<1>2. ASSUME NEW source, NEW target, Merge(source, target) PROVE FindingsInv' /\ StillFound
  BY <1>2, MergeKeepsFindings DEF StillFound
<1>3. ASSUME NEW key \in DOMAIN findings, NEW word, SetDisposition(key, word)
      PROVE  FindingsInv' /\ StillFound
  BY <1>3, JudgingKeepsFindings DEF StillFound
<1>4. ASSUME NEW c \in DOMAIN changes, Acknowledge(c) PROVE FindingsInv' /\ StillFound
  BY <1>4, <1>k DEF Acknowledge
<1>5. CASE UNCHANGED vars
  BY <1>5, <1>k DEF vars, tables
<1>6. QED
  BY <1>1, <1>2, <1>3, <1>4, <1>5 DEF Next, Operator

-----------------------------------------------------------------------------
(* Where batches are. *)

(* What every step of a batch but Resolve leaves alone. *)
LEMMA StepOfBatch ==
  ASSUME PlaceInv, NEW b \in Batches, IngestBatch(b) \/ Correlated(b), ~Resolve(b)
  PROVE  /\ \E s \in Stages : /\ pc' = [pc EXCEPT ![b] = s]
                              /\ s \in WorkingStages => pc[b] \in WorkingStages
                              /\ s \in EarlyStages => pc[b] \in EarlyStages /\ top' = top
         /\ UNCHANGED <<asset, created>> /\ DOMAIN class' = DOMAIN class
         /\ \/ top' = top
            \/ pc[b] \in EarlyStages /\ \E t : top' = [top EXCEPT ![b] = t]
         /\ faults' \in {faults, faults + 1}
<1> USE DEF PlaceInv, batchVars, tables, Goto, At, NoFault, Fault, IngestError, Stages,
            WorkingStages, EarlyStages
<1>s. pc = [pc EXCEPT ![b] = pc[b]]
  OBVIOUS
<1>1. CASE Collect(b)
  BY <1>1 DEF Collect
<1>2. CASE AttachRest(b)
  BY <1>2 DEF AttachRest
<1>3. CASE Detect(b)
  BY <1>3 DEF Detect
<1>4. CASE Report(b)
  BY <1>4, <1>s DEF Report
<1>5. CASE Evaluate(b)
  <2>1. /\ pc[b] = "evaluate" /\ UNCHANGED <<asset, created, class>>
        /\ faults' \in {faults, faults + 1}
    BY <1>5 DEF Evaluate
  <2>2. \E t : top' = [top EXCEPT ![b] = t]
    BY <1>5 DEF Evaluate
  <2>3. \E s \in {"titles", "read"} : pc' = [pc EXCEPT ![b] = s]
    BY <1>5 DEF Evaluate
  <2>4. QED
    BY <2>1, <2>2, <2>3
<1>6. CASE ReadAsset(b)
  BY <1>6 DEF ReadAsset
<1>7. CASE UpdateClassification(b)
  BY <1>7 DEF UpdateClassification
<1>8. CASE DetectTitle(b)
  BY <1>8 DEF DetectTitle
<1>9. CASE EvaluateAdvisories(b)
  BY <1>9 DEF EvaluateAdvisories
<1>10. CASE UpsertFinding(b)
  BY <1>10, <1>s DEF UpsertFinding
<1>11. CASE Finish(b)
  BY <1>11 DEF Finish
<1>12. QED
  BY <1>1, <1>2, <1>3, <1>4, <1>5, <1>6, <1>7, <1>8, <1>9, <1>10, <1>11 DEF IngestBatch, Correlated

(* What Resolve does to the places. *)
LEMMA ResolveOfBatch ==
  ASSUME PlaceInv, NEW b \in Batches, Resolve(b)
  PROVE  /\ pc[b] = "resolve" /\ UNCHANGED top /\ faults' \in {faults, faults + 1}
         /\ \/ /\ \E s \in {"done", "failed"} : pc' = [pc EXCEPT ![b] = s]
               /\ UNCHANGED <<asset, created, class>>
            \/ \E a \in Assets : /\ \E s \in {"attach", "done", "failed"} : pc' = [pc EXCEPT ![b] = s]
                                 /\ asset' = [asset EXCEPT ![b] = a]
                                 /\ created' = [created EXCEPT ![b] = a \notin DOMAIN class]
                                 /\ class' = Added(class, a, Blank)
<1> USE DEF Goto, Fault, NoFault, IngestError
<1>1. pc[b] = "resolve" /\ UNCHANGED top /\ faults' \in {faults, faults + 1}
  BY DEF Resolve
<1>2. CASE UNCHANGED <<asset, created, class>> /\ IngestError(b)
  BY <1>1, <1>2
<1>3. ASSUME NEW a \in Assets,
             /\ asset' = [asset EXCEPT ![b] = a]
             /\ created' = [created EXCEPT ![b] = a \notin DOMAIN class]
             /\ class' = Added(class, a, Blank)
             /\ Goto(b, "attach") \/ IngestError(b)
      PROVE  \E s \in {"attach", "done", "failed"} : pc' = [pc EXCEPT ![b] = s]
  BY <1>3
<1>4. QED
  BY <1>1, <1>2, <1>3 DEF Resolve

(* Operators touch none of it. *)
LEMMA StepOfOperator ==
  ASSUME Operator
  PROVE  UNCHANGED <<pc, asset, created, top, previous, todo, recent, class, faults>>
BY DEF Operator, Merge, SetDisposition, Acknowledge, batchVars

(* Every step keeps the places. *)
LEMMA NextPlaces == PlaceInv /\ [Next]_vars => PlaceInv'
<1> SUFFICES ASSUME PlaceInv, [Next]_vars PROVE PlaceInv'
  OBVIOUS
<1>1. ASSUME NEW b \in Batches, IngestBatch(b) \/ Correlated(b), ~Resolve(b) PROVE PlaceInv'
  <2>1. /\ UNCHANGED <<asset, created>> /\ DOMAIN class' = DOMAIN class
        /\ \/ top' = top
           \/ pc[b] \in EarlyStages /\ \E t : top' = [top EXCEPT ![b] = t]
        /\ faults' \in {faults, faults + 1}
    BY <1>1, StepOfBatch, Zenon
  <2>2. PICK s \in Stages : /\ pc' = [pc EXCEPT ![b] = s]
                            /\ s \in WorkingStages => pc[b] \in WorkingStages
                            /\ s \in EarlyStages => pc[b] \in EarlyStages /\ top' = top
    BY <1>1, StepOfBatch
  <2>3. /\ pc' \in [Batches -> Stages] /\ faults' \in Nat
        /\ \A x \in Batches : pc'[x] \in WorkingStages => asset'[x] \in DOMAIN class'
    BY <2>1, <2>2 DEF PlaceInv
  <2>4. DOMAIN top' = Batches
    BY <2>1 DEF PlaceInv
  <2>5. \A x \in Batches : pc'[x] \in EarlyStages => top'[x] = Blank
    BY <2>1, <2>2 DEF PlaceInv
  <2>6. QED
    BY <2>1, <2>3, <2>4, <2>5 DEF PlaceInv
<1>2. ASSUME NEW b \in Batches, Resolve(b) PROVE PlaceInv'
  <2>1. pc[b] = "resolve" /\ UNCHANGED top /\ faults' \in {faults, faults + 1}
    BY <1>2, ResolveOfBatch
  <2>2. CASE /\ \E s \in {"done", "failed"} : pc' = [pc EXCEPT ![b] = s]
             /\ UNCHANGED <<asset, created, class>>
    BY <2>1, <2>2 DEF PlaceInv, Stages, EarlyStages, WorkingStages
  <2>3. CASE \E a \in Assets : /\ \E s \in {"attach", "done", "failed"} : pc' = [pc EXCEPT ![b] = s]
                               /\ asset' = [asset EXCEPT ![b] = a]
                               /\ created' = [created EXCEPT ![b] = a \notin DOMAIN class]
                               /\ class' = Added(class, a, Blank)
    <3>1. PICK a \in Assets : /\ \E s \in {"attach", "done", "failed"} : pc' = [pc EXCEPT ![b] = s]
                              /\ asset' = [asset EXCEPT ![b] = a]
                              /\ created' = [created EXCEPT ![b] = a \notin DOMAIN class]
                              /\ class' = Added(class, a, Blank)
      BY <2>3
    <3>2. DOMAIN class' = DOMAIN class \cup {a}
      BY <3>1 DEF Added
    <3>3. QED
      BY <2>1, <3>1, <3>2 DEF PlaceInv, Stages, EarlyStages, WorkingStages
  <2>4. QED
    BY <1>2, <2>2, <2>3, ResolveOfBatch
<1>3. CASE Operator
  BY <1>3, StepOfOperator DEF PlaceInv
<1>4. CASE UNCHANGED vars
  BY <1>4 DEF vars, batchVars, tables, PlaceInv
<1>5. QED
  BY <1>1, <1>2, <1>3, <1>4 DEF Next

-----------------------------------------------------------------------------
(* Changes. *)

(* Nothing waits in an empty list. *)
LEMMA WaitingNone == Waiting(<<>>)
<1>1. <<>> \in Seq({}) /\ DOMAIN <<>> = {}
  OBVIOUS
<1>2. QED
  BY <1>1 DEF Waiting

(* A change about an asset waits. *)
LEMMA WaitingOne ==
  ASSUME NEW c, c[2] \in DOMAIN class, NEW p
  PROVE  Waiting(When(p, c))
<1>1. Waiting(<<c>>)
  <2> DEFINE list == <<c>>
  <2>1. list \in Seq({c}) /\ DOMAIN list = {1} /\ list[1] = c
    OBVIOUS
  <2> HIDE DEF list
  <2>2. Waiting(list)
    BY <2>1 DEF Waiting
  <2>3. QED
    BY <2>2 DEF list
<1>2. QED
  BY <1>1, WaitingNone DEF When

(* Two of them wait. *)
LEMMA WaitingBoth ==
  ASSUME NEW l, NEW m, Waiting(l), Waiting(m)
  PROVE  Waiting(l \o m)
<1>1. PICK S : l \in Seq(S)
  BY DEF Waiting
<1>2. PICK T : m \in Seq(T)
  BY DEF Waiting
<1>3. l \in Seq(S \cup T) /\ m \in Seq(S \cup T) /\ Len(l) \in Nat /\ Len(m) \in Nat
  BY <1>1, <1>2
<1>4. /\ l \o m \in Seq(S \cup T) /\ Len(l \o m) = Len(l) + Len(m)
      /\ \A i \in 1..(Len(l) + Len(m)) : (l \o m)[i] = IF i <= Len(l) THEN l[i] ELSE m[i - Len(l)]
  BY <1>3, ConcatProperties
<1>5. DOMAIN l = 1..Len(l) /\ DOMAIN m = 1..Len(m)
  BY <1>3
<1> DEFINE both == l \o m
<1> HIDE DEF both
<1>6. DOMAIN both = 1..(Len(l) + Len(m))
  BY <1>3, <1>4 DEF both
<1>7. \A i \in DOMAIN both : both[i][2] \in DOMAIN class
  <2> SUFFICES ASSUME NEW i \in 1..(Len(l) + Len(m)) PROVE both[i][2] \in DOMAIN class
    BY <1>6
  <2>1. CASE i <= Len(l)
    <3>1. i \in DOMAIN l /\ both[i] = l[i]
      BY <2>1, <1>3, <1>4, <1>5 DEF both
    <3>2. QED
      BY <3>1 DEF Waiting
  <2>2. CASE ~(i <= Len(l))
    <3>1. i - Len(l) \in DOMAIN m /\ both[i] = m[i - Len(l)]
      BY <2>2, <1>3, <1>4, <1>5 DEF both
    <3>2. QED
      BY <3>1 DEF Waiting
  <2>3. QED
    BY <2>1, <2>2
<1>8. QED
  BY <1>4, <1>7 DEF both, Waiting

(* The first change leaves the list. *)
LEMMA WaitingRest ==
  ASSUME NEW l, Waiting(l), l # <<>>
  PROVE  /\ Waiting(Tail(l)) /\ Head(l)[2] \in DOMAIN class
         /\ \A c \in ToSet(l) : c = Head(l) \/ c \in ToSet(Tail(l))
<1>1. PICK S : l \in Seq(S)
  BY DEF Waiting
<1>2. /\ Tail(l) \in Seq(S) /\ Len(Tail(l)) = Len(l) - 1 /\ Len(l) \in Nat \ {0}
      /\ \A i \in 1..Len(Tail(l)) : Tail(l)[i] = l[i + 1]
      /\ Head(l) = l[1] /\ DOMAIN l = 1..Len(l)
  BY <1>1, HeadTailProperties
<1>3. DOMAIN Tail(l) = 1..Len(Tail(l))
  BY <1>2
<1> DEFINE rest == Tail(l)
<1> HIDE DEF rest
<1>4. /\ rest \in Seq(S) /\ Len(rest) = Len(l) - 1 /\ DOMAIN rest = 1..Len(rest)
      /\ \A i \in 1..Len(rest) : rest[i] = l[i + 1]
  BY <1>2, <1>3 DEF rest
<1>5. Waiting(rest) /\ l[1][2] \in DOMAIN class
  <2>1. \A i \in DOMAIN l : l[i][2] \in DOMAIN class
    BY DEF Waiting
  <2>2. ASSUME NEW i \in DOMAIN rest PROVE rest[i][2] \in DOMAIN class
    <3>1. i + 1 \in DOMAIN l /\ rest[i] = l[i + 1]
      BY <1>2, <1>4
    <3>2. QED
      BY <3>1, <2>1
  <2>3. Waiting(rest)
    BY <1>4, <2>2 DEF Waiting
  <2>4. 1 \in DOMAIN l
    BY <1>2
  <2>5. QED
    BY <2>1, <2>3, <2>4
<1>6. ASSUME NEW i \in DOMAIN l PROVE l[i] = l[1] \/ \E k \in DOMAIN rest : l[i] = rest[k]
  <2>1. CASE i = 1
    BY <2>1
  <2>2. CASE i # 1
    <3>1. i - 1 \in DOMAIN rest /\ rest[i - 1] = l[i]
      BY <2>2, <1>2, <1>4
    <3>2. QED
      BY <3>1
  <2>3. QED
    BY <2>1, <2>2
<1>7. \A c \in ToSet(l) : c = Head(l) \/ c \in ToSet(rest)
  BY <1>2, <1>6 DEF ToSet
<1>8. QED
  BY <1>2, <1>5, <1>7 DEF rest

(* What a batch does to the changes: it decides on some when none wait,    *)
(* adds the first of those that wait, or fails to.                         *)
Decides(b) ==
  /\ todo[b] = <<>> /\ UNCHANGED changes
  /\ \E list : Waiting(list) /\ todo' = [todo EXCEPT ![b] = list]
Adds(b) ==
  /\ todo[b] # <<>> /\ faults' = faults
  /\ changes' = Added(changes, Head(todo[b]), [asset |-> Head(todo[b])[2], acknowledged |-> FALSE])
  /\ todo' = [todo EXCEPT ![b] = Tail(@)]
Drops(b) ==
  /\ todo[b] # <<>> /\ faults' = faults + 1 /\ UNCHANGED changes
  /\ todo' = [todo EXCEPT ![b] = Tail(@)] \/ todo' = [todo EXCEPT ![b] = <<>>]
LEMMA ChangesOfBatch ==
  ASSUME PlaceInv, NEW b \in Batches, IngestBatch(b) \/ Correlated(b)
  PROVE  UNCHANGED <<todo, changes>> \/ Decides(b) \/ Adds(b) \/ Drops(b)
<1> USE DEF batchVars, tables, At, NoFault, Fault
<1>c. ASSUME pc[b] \in WorkingStages, NEW type, NEW current
      PROVE  Change(b, type, current)[2] \in DOMAIN class
  BY <1>c DEF Change, PlaceInv
<1>1. CASE Collect(b) \/ Resolve(b) \/ AttachRest(b) \/ Evaluate(b) \/ ReadAsset(b)
           \/ EvaluateAdvisories(b) \/ Finish(b)
  BY <1>1 DEF Collect, Resolve, AttachRest, Evaluate, ReadAsset, EvaluateAdvisories, Finish
<1>2. CASE Detect(b)
  <2>1. pc[b] \in WorkingStages /\ todo[b] = <<>> /\ UNCHANGED changes
    BY <1>2 DEF Detect, WorkingStages
  <2> DEFINE last == Seen(<<b, Len(Content[b])>>)
             found == Seen(CHOOSE o \in ChangedCertificates(b) : TRUE).facts
             first == <<Change(b, "asset_first_seen", Seen(<<b, 1>>).port)>>
             service == When(NewService(b), Change(b, "new_service", last.port))
             certificate == When(ChangedCertificates(b) # {}, Change(b, "certificate_changed", found))
  <2>2. Waiting(service) /\ Waiting(certificate)
    BY <2>1, <1>c, WaitingOne
  <2>3. Waiting(service \o certificate)
    BY <2>2, WaitingBoth
  <2>4. Waiting(first)
    <3>1. Waiting(When(TRUE, Change(b, "asset_first_seen", Seen(<<b, 1>>).port)))
      BY <2>1, <1>c, WaitingOne
    <3>2. QED
      BY <3>1 DEF When
  <2>5. \/ todo' = todo
        \/ todo' = [todo EXCEPT ![b] = first]
        \/ todo' = [todo EXCEPT ![b] = service \o certificate]
    BY <1>2 DEF Detect
  <2> HIDE DEF first, service, certificate
  <2>6. QED
    BY <2>1, <2>3, <2>4, <2>5 DEF Decides
<1>3. CASE UpdateClassification(b)
  <2>1. pc[b] \in WorkingStages /\ todo[b] = <<>> /\ UNCHANGED changes
    BY <1>3 DEF UpdateClassification, WorkingStages
  <2>2. todo' = [todo EXCEPT ![b] = When(~created[b] /\ previous[b] # top[b],
                                         Change(b, "classification_changed", top[b]))]
    BY <1>3 DEF UpdateClassification
  <2>3. Waiting(When(~created[b] /\ previous[b] # top[b], Change(b, "classification_changed", top[b])))
    BY <2>1, <1>c, WaitingOne
  <2>4. QED
    BY <2>1, <2>2, <2>3 DEF Decides
<1>4. CASE DetectTitle(b)
  <2>1. pc[b] \in WorkingStages /\ todo[b] = <<>> /\ UNCHANGED changes
    BY <1>4 DEF DetectTitle, WorkingStages
  <2> DEFINE responses == AsEvidence({o \in Observed(asset[b]) : Seen(o).source = "http"})
             differ == Len(responses) >= 2 /\ responses[1].facts # responses[2].facts
             asked == \E o \in Obs(b) : Seen(o).source = "http"
             list == When(differ /\ asked, Change(b, "http_title_changed", responses[1].facts))
  <2>2. todo' = todo \/ todo' = [todo EXCEPT ![b] = list]
    BY <1>4 DEF DetectTitle
  <2>3. Waiting(list)
    BY <2>1, <1>c, WaitingOne
  <2> HIDE DEF list
  <2>4. QED
    BY <2>1, <2>2, <2>3 DEF Decides
<1>5. CASE UpsertFinding(b)
  <2>1. pc[b] \in WorkingStages /\ todo[b] = <<>> /\ UNCHANGED changes
    BY <1>5 DEF UpsertFinding, WorkingStages
  <2>p. PICK f \in pending[b] : RowWritten(b, f)
    BY <1>5, RowOfUpsert
  <2> DEFINE key == [asset |-> asset[b], advisory |-> f.advisory]
             list == When(key \notin DOMAIN findings, Change(b, "new_finding", <<f.advisory, f.state>>))
  <2>2. todo' = todo \/ todo' = [todo EXCEPT ![b] = list]
    BY <2>p DEF RowWritten
  <2>3. Waiting(list)
    BY <2>1, <1>c, WaitingOne
  <2> HIDE DEF list
  <2>4. QED
    BY <2>1, <2>2, <2>3 DEF Decides
<1>6. CASE Report(b)
  <2>1. Adds(b) \/ Drops(b)
    BY <1>6 DEF Report, Adds, Drops
  <2>2. QED
    BY <2>1
<1>7. QED
  BY <1>1, <1>2, <1>3, <1>4, <1>5, <1>6 DEF IngestBatch, Correlated

(* Every step keeps what is said of changes. *)
LEMMA NextChanges == PlaceInv /\ ChangesInv /\ [Next]_vars => ChangesInv'
<1> SUFFICES ASSUME PlaceInv, ChangesInv, [Next]_vars PROVE ChangesInv'
  OBVIOUS
<1>g. DOMAIN class \subseteq DOMAIN class'
  <2>1. ASSUME NEW b \in Batches, Resolve(b) PROVE DOMAIN class \subseteq DOMAIN class'
    <3>1. class' = class \/ \E a \in Assets : class' = Added(class, a, Blank)
      BY <2>1, ResolveOfBatch, Zenon
    <3>2. QED
      BY <3>1 DEF Added
  <2>2. ASSUME NEW b \in Batches, IngestBatch(b) \/ Correlated(b), ~Resolve(b)
        PROVE  DOMAIN class \subseteq DOMAIN class'
    BY <2>2, StepOfBatch
  <2>3. QED
    BY <2>1, <2>2, StepOfOperator DEF Next, vars, tables
<1>w. \A list : Waiting(list) => (\E S : list \in Seq(S)) /\ \A i \in DOMAIN list : list[i][2] \in DOMAIN class'
  BY <1>g DEF Waiting
<1>s. ASSUME DOMAIN todo' = Batches, \A b \in Batches : \E list : Waiting(list) /\ todo'[b] = list,
             \A c \in DOMAIN changes' :
               /\ changes'[c] = [asset |-> changes'[c].asset, acknowledged |-> changes'[c].acknowledged]
               /\ changes'[c].asset \in DOMAIN class'
      PROVE  ChangesInv'
  <2>1. ASSUME NEW b \in Batches PROVE Waiting(todo[b])'
    <3>1. PICK list : Waiting(list) /\ todo'[b] = list
      BY <1>s
    <3>2. /\ \E S : todo'[b] \in Seq(S)
          /\ \A i \in DOMAIN todo'[b] : todo'[b][i][2] \in DOMAIN class'
      BY <3>1, <1>w
    <3>3. QED
      BY <3>2 DEF Waiting
  <2>2. QED
    BY <1>s, <2>1 DEF ChangesInv
<1>o. \A c \in DOMAIN changes : changes[c].asset \in DOMAIN class'
  BY <1>g DEF ChangesInv
<1>1. ASSUME NEW b \in Batches, IngestBatch(b) \/ Correlated(b) PROVE ChangesInv'
  <2>1. CASE UNCHANGED <<todo, changes>>
    BY <2>1, <1>s, <1>o DEF ChangesInv
  <2>2. CASE Decides(b)
    <3>1. PICK list : Waiting(list) /\ todo' = [todo EXCEPT ![b] = list]
      BY <2>2 DEF Decides
    <3>2. UNCHANGED changes
      BY <2>2 DEF Decides
    <3>3. DOMAIN todo' = Batches /\ \A x \in Batches : \E l : Waiting(l) /\ todo'[x] = l
      BY <3>1 DEF ChangesInv
    <3>4. QED
      BY <3>2, <3>3, <1>s, <1>o DEF ChangesInv
  <2>3. CASE Adds(b) \/ Drops(b)
    <3>1. todo[b] # <<>> /\ Waiting(todo[b])
      BY <2>3 DEF Adds, Drops, ChangesInv
    <3>2. Waiting(Tail(todo[b])) /\ Head(todo[b])[2] \in DOMAIN class
      BY <3>1, WaitingRest
    <3>3. \/ todo' = [todo EXCEPT ![b] = Tail(todo[b])]
          \/ todo' = [todo EXCEPT ![b] = <<>>]
      BY <2>3 DEF Adds, Drops
    <3>4. DOMAIN todo' = Batches /\ \A x \in Batches : \E l : Waiting(l) /\ todo'[x] = l
      BY <3>2, <3>3, WaitingNone DEF ChangesInv
    <3> DEFINE c == Head(todo[b])
               row == [asset |-> c[2], acknowledged |-> FALSE]
    <3>5. changes' = changes \/ changes' = Added(changes, c, row)
      BY <2>3 DEF Adds, Drops
    <3>6. row = [asset |-> row.asset, acknowledged |-> row.acknowledged] /\ row.asset \in DOMAIN class'
      BY <3>2, <1>g
    <3> HIDE DEF c, row
    <3>7. \A x \in DOMAIN changes' : changes'[x] = row \/ (x \in DOMAIN changes /\ changes'[x] = changes[x])
      BY <3>5 DEF Added
    <3>8. \A x \in DOMAIN changes' :
            /\ changes'[x] = [asset |-> changes'[x].asset, acknowledged |-> changes'[x].acknowledged]
            /\ changes'[x].asset \in DOMAIN class'
      BY <3>6, <3>7, <1>o DEF ChangesInv
    <3>9. QED
      BY <3>4, <3>8, <1>s
  <2>4. QED
    BY <1>1, <2>1, <2>2, <2>3, ChangesOfBatch
<1>2. ASSUME NEW source \in Assets, NEW target \in Assets, Merge(source, target) PROVE ChangesInv'
  <2>1. UNCHANGED <<todo, class>> /\ target \in DOMAIN class
    BY <1>2 DEF Merge, batchVars
  <2>2. changes' = [c \in DOMAIN changes |->
                      [changes[c] EXCEPT !.asset = IF @ = source THEN target ELSE @]]
    BY <1>2 DEF Merge
  <2>3. \A c \in DOMAIN changes' : \E a \in DOMAIN class :
          changes'[c] = [asset |-> a, acknowledged |-> changes[c].acknowledged]
    <3> SUFFICES ASSUME NEW c \in DOMAIN changes
                 PROVE  \E a \in DOMAIN class :
                          changes'[c] = [asset |-> a, acknowledged |-> changes[c].acknowledged]
      BY <2>2
    <3> DEFINE old == changes[c]
               a == IF old.asset = source THEN target ELSE old.asset
    <3>1. old = [asset |-> old.asset, acknowledged |-> old.acknowledged] /\ a \in DOMAIN class
      BY <2>1 DEF ChangesInv
    <3>2. changes'[c] = [old EXCEPT !.asset = a]
      BY <2>2
    <3> HIDE DEF old, a
    <3>3. changes'[c] = [asset |-> a, acknowledged |-> old.acknowledged]
      BY <3>1, <3>2
    <3>4. QED
      BY <3>1, <3>3 DEF old
  <2>4. QED
    BY <2>1, <2>3 DEF ChangesInv, Waiting
<1>3. ASSUME NEW c \in DOMAIN changes, Acknowledge(c) PROVE ChangesInv'
  <2>1. UNCHANGED <<todo, class>>
    BY <1>3 DEF Acknowledge, batchVars
  <2> DEFINE old == changes[c]
             new == [old EXCEPT !.acknowledged = ~old.acknowledged]
  <2>2. changes' = [changes EXCEPT ![c] = new]
    BY <1>3 DEF Acknowledge
  <2>3. old = [asset |-> old.asset, acknowledged |-> old.acknowledged] /\ old.asset \in DOMAIN class
    BY DEF ChangesInv
  <2>4. new = [asset |-> new.asset, acknowledged |-> new.acknowledged] /\ new.asset = old.asset
    BY <2>3
  <2> HIDE DEF old, new
  <2>5. \A x \in DOMAIN changes' : x \in DOMAIN changes /\ (changes'[x] = new \/ changes'[x] = changes[x])
    BY <2>2
  <2>6. QED
    BY <2>1, <2>3, <2>4, <2>5 DEF ChangesInv, Waiting
<1>4. ASSUME NEW key \in DOMAIN findings, NEW word, SetDisposition(key, word) PROVE ChangesInv'
  BY <1>4 DEF SetDisposition, batchVars, ChangesInv, Waiting
<1>5. CASE UNCHANGED vars
  BY <1>5 DEF vars, batchVars, tables, ChangesInv, Waiting
<1>6. QED
  BY <1>1, <1>2, <1>3, <1>4, <1>5 DEF Next, Operator

-----------------------------------------------------------------------------
(* Announcements. *)

(* The same in the next state. *)
ToldNext(a, c) ==
  \/ <<"classification_changed", a, c>> \in DOMAIN changes'
  \/ \E b \in Batches : <<"classification_changed", a, c>> \in ToSet(todo'[b])
  \/ \E b \in Batches : created'[b] /\ asset'[b] = a /\ top'[b] = c

(* A batch past its evaluation keeps its asset and its classification. *)
LEMMA LateStays ==
  ASSUME PlaceInv, [Next]_vars, NEW x \in Batches, pc[x] \notin EarlyStages
  PROVE  top'[x] = top[x] /\ asset'[x] = asset[x] /\ created'[x] = created[x]
<1>1. ASSUME NEW b \in Batches, IngestBatch(b) \/ Correlated(b), ~Resolve(b)
      PROVE  top'[x] = top[x] /\ asset'[x] = asset[x] /\ created'[x] = created[x]
  <2>1. UNCHANGED <<asset, created>>
    BY <1>1, StepOfBatch
  <2>2. CASE top' = top
    BY <2>1, <2>2
  <2>3. CASE top' # top
    <3>1. pc[b] \in EarlyStages /\ \E t : top' = [top EXCEPT ![b] = t]
      BY <1>1, <2>3, StepOfBatch, Zenon
    <3>2. QED
      BY <2>1, <3>1 DEF PlaceInv
  <2>4. QED
    BY <2>2, <2>3
<1>2. ASSUME NEW b \in Batches, Resolve(b)
      PROVE  top'[x] = top[x] /\ asset'[x] = asset[x] /\ created'[x] = created[x]
  <2>1. pc[b] = "resolve" /\ UNCHANGED top
    BY <1>2, ResolveOfBatch
  <2>2. \/ UNCHANGED <<asset, created>>
        \/ \E a \in Assets : /\ asset' = [asset EXCEPT ![b] = a]
                             /\ created' = [created EXCEPT ![b] = a \notin DOMAIN class]
    BY <1>2, ResolveOfBatch
  <2>3. QED
    BY <2>1, <2>2 DEF PlaceInv, EarlyStages
<1>3. CASE Operator
  BY <1>3, StepOfOperator
<1>4. CASE UNCHANGED vars
  BY <1>4 DEF vars, batchVars
<1>5. QED
  BY <1>1, <1>2, <1>3, <1>4 DEF Next

(* Nothing is lost of the changes while no call fails. *)
LEMMA ChangesStay ==
  ASSUME PlaceInv, ChangesInv, [Next]_vars, faults' = 0
  PROVE  /\ faults = 0 /\ DOMAIN changes \subseteq DOMAIN changes'
         /\ \A x \in Batches : \A c \in ToSet(todo[x]) : c \in DOMAIN changes' \/ c \in ToSet(todo'[x])
<1>f. faults \in Nat
  BY DEF PlaceInv
<1>1. ASSUME NEW b \in Batches, IngestBatch(b) \/ Correlated(b)
      PROVE  /\ faults = 0 /\ DOMAIN changes \subseteq DOMAIN changes'
             /\ \A x \in Batches : \A c \in ToSet(todo[x]) : c \in DOMAIN changes' \/ c \in ToSet(todo'[x])
  <2>1. faults' \in {faults, faults + 1}
    BY <1>1, StepOfBatch, ResolveOfBatch
  <2>2. faults = 0 /\ ~Drops(b)
    BY <2>1, <1>f DEF Drops
  <2>3. CASE UNCHANGED <<todo, changes>>
    BY <2>2, <2>3
  <2>4. CASE Decides(b)
    <3>1. ToSet(<<>>) = {}
      BY DEF ToSet
    <3>2. \A x \in Batches \ {b} : todo'[x] = todo[x]
      BY <2>4 DEF Decides, ChangesInv
    <3>3. todo[b] = <<>> /\ UNCHANGED changes
      BY <2>4 DEF Decides
    <3>4. QED
      BY <2>2, <3>1, <3>2, <3>3
  <2>5. CASE Adds(b)
    <3>1. \A c \in ToSet(todo[b]) : c = Head(todo[b]) \/ c \in ToSet(Tail(todo[b]))
      BY <2>5, WaitingRest DEF Adds, ChangesInv
    <3>2. /\ todo'[b] = Tail(todo[b])
          /\ \A x \in Batches \ {b} : todo'[x] = todo[x]
      BY <2>5 DEF Adds, ChangesInv
    <3>3. DOMAIN changes' = DOMAIN changes \cup {Head(todo[b])}
      BY <2>5 DEF Adds, Added
    <3>4. QED
      BY <2>2, <3>1, <3>2, <3>3
  <2>6. QED
    BY <1>1, <2>2, <2>3, <2>4, <2>5, ChangesOfBatch
<1>2. CASE Operator
  <2>1. UNCHANGED <<todo, faults>>
    BY <1>2, StepOfOperator
  <2>2. DOMAIN changes' = DOMAIN changes
    BY <1>2 DEF Operator, Merge, SetDisposition, Acknowledge
  <2>3. QED
    BY <2>1, <2>2
<1>3. CASE UNCHANGED vars
  BY <1>3 DEF vars, batchVars, tables
<1>4. QED
  BY <1>1, <1>2, <1>3 DEF Next

(* What was told stays told. *)
LEMMA ToldStays ==
  ASSUME PlaceInv, ChangesInv, [Next]_vars, faults' = 0, NEW a, NEW c, c # Blank, Told(a, c)
  PROVE  ToldNext(a, c)
<1> DEFINE told == <<"classification_changed", a, c>>
<1>1. CASE told \in DOMAIN changes
  BY <1>1, ChangesStay DEF ToldNext
<1>2. CASE \E b \in Batches : told \in ToSet(todo[b])
  <2>1. PICK b \in Batches : told \in ToSet(todo[b])
    BY <1>2
  <2> HIDE DEF told
  <2>2. told \in DOMAIN changes' \/ told \in ToSet(todo'[b])
    BY <2>1, ChangesStay
  <2>3. QED
    BY <2>2 DEF ToldNext, told
<1>3. CASE \E b \in Batches : created[b] /\ asset[b] = a /\ top[b] = c
  <2>1. PICK b \in Batches : created[b] /\ asset[b] = a /\ top[b] = c
    BY <1>3
  <2>2. pc[b] \notin EarlyStages
    BY <2>1 DEF PlaceInv
  <2>3. created'[b] /\ asset'[b] = a /\ top'[b] = c
    BY <2>1, <2>2, LateStays, Zenon
  <2>4. QED
    BY <2>3 DEF ToldNext
<1>4. QED
  BY <1>1, <1>2, <1>3 DEF Told

(* Only ReadAsset brings a batch to its update. *)
LEMMA OnlyReadAsset ==
  ASSUME PlaceInv, NEW b \in Batches, IngestBatch(b) \/ Correlated(b), ~ReadAsset(b)
  PROVE  UNCHANGED previous /\ \A x \in Batches : pc'[x] = "write" => pc[x] = "write"
<1> USE DEF batchVars, Goto, IngestError
<1>1. UNCHANGED previous
  BY DEF IngestBatch, Correlated, Collect, Resolve, AttachRest, Detect, Report, Evaluate,
         UpdateClassification, DetectTitle, EvaluateAdvisories, UpsertFinding, Finish
<1>2. pc' = pc \/ \E s : s # "write" /\ pc' = [pc EXCEPT ![b] = s]
  <2>1. CASE Collect(b) \/ Resolve(b) \/ AttachRest(b) \/ Detect(b)
    BY <2>1 DEF Collect, Resolve, AttachRest, Detect
  <2>2. CASE Report(b) \/ UpdateClassification(b) \/ DetectTitle(b) \/ EvaluateAdvisories(b)
             \/ UpsertFinding(b) \/ Finish(b)
    BY <2>2 DEF Report, UpdateClassification, DetectTitle, EvaluateAdvisories, UpsertFinding, Finish
  <2>3. CASE Evaluate(b)
    <3>1. pc' = [pc EXCEPT ![b] = "titles"] \/ pc' = [pc EXCEPT ![b] = "read"]
      BY <2>3 DEF Evaluate
    <3>2. QED
      BY <3>1
  <2>4. QED
    BY <2>1, <2>2, <2>3 DEF IngestBatch, Correlated
<1>3. QED
  BY <1>1, <1>2 DEF PlaceInv

(* Every step keeps that classifications are announced. *)
LEMMA NextAnnounced == PlaceInv /\ ChangesInv /\ AnnouncedInv /\ [Next]_vars => AnnouncedInv'
<1> SUFFICES ASSUME PlaceInv, ChangesInv, AnnouncedInv, [Next]_vars PROVE AnnouncedInv'
  OBVIOUS
<1>d. DOMAIN previous' = Batches
  <2>1. ASSUME NEW b \in Batches, ReadAsset(b) PROVE DOMAIN previous' = Batches
    BY <2>1 DEF ReadAsset, AnnouncedInv
  <2>2. ASSUME NEW b \in Batches, IngestBatch(b) \/ Correlated(b), ~ReadAsset(b)
        PROVE  DOMAIN previous' = Batches
    BY <2>2, OnlyReadAsset DEF AnnouncedInv
  <2>3. QED
    BY <2>1, <2>2, StepOfOperator DEF Next, vars, batchVars, AnnouncedInv
<1> SUFFICES ASSUME faults' = 0
             PROVE  /\ \A a \in DOMAIN class' : class'[a] # Blank => ToldNext(a, class'[a])
                    /\ \A b \in Batches :
                         pc'[b] = "write" /\ previous'[b] # Blank => ToldNext(asset'[b], previous'[b])
  BY <1>d DEF AnnouncedInv, Told, ToldNext
<1>f. /\ faults = 0 /\ faults' = faults
      /\ \A a \in DOMAIN class : class[a] # Blank => Told(a, class[a])
      /\ \A b \in Batches : pc[b] = "write" /\ previous[b] # Blank => Told(asset[b], previous[b])
  BY ChangesStay DEF AnnouncedInv
<1>s. \A a, c : c # Blank /\ Told(a, c) => ToldNext(a, c)
  BY ToldStays
<1>c. ASSUME \A a \in DOMAIN class' : class'[a] = Blank \/ (a \in DOMAIN class /\ class'[a] = class[a])
      PROVE  \A a \in DOMAIN class' : class'[a] # Blank => ToldNext(a, class'[a])
  <2> SUFFICES ASSUME NEW a \in DOMAIN class', class'[a] # Blank PROVE ToldNext(a, class'[a])
    OBVIOUS
  <2>1. a \in DOMAIN class /\ class'[a] = class[a] /\ Told(a, class[a])
    BY <1>c, <1>f
  <2> DEFINE c == class[a]
  <2>2. class'[a] = c /\ c # Blank /\ Told(a, c)
    BY <2>1
  <2> HIDE DEF c
  <2>3. ToldNext(a, c)
    BY <2>2, <1>s
  <2>4. QED
    BY <2>2, <2>3 DEF ToldNext
<1>p. ASSUME UNCHANGED previous, \A x \in Batches : pc'[x] = "write" => pc[x] = "write"
      PROVE  \A b \in Batches : pc'[b] = "write" /\ previous'[b] # Blank => ToldNext(asset'[b], previous'[b])
  <2> SUFFICES ASSUME NEW b \in Batches, pc'[b] = "write", previous'[b] # Blank
               PROVE  ToldNext(asset'[b], previous'[b])
    OBVIOUS
  <2>1. pc[b] = "write" /\ previous'[b] = previous[b] /\ Told(asset[b], previous[b])
    BY <1>p, <1>f
  <2>2. asset'[b] = asset[b]
    BY <2>1, LateStays DEF EarlyStages
  <2>3. ToldNext(asset[b], previous[b])
    BY <2>1, <1>s
  <2>4. QED
    BY <2>1, <2>2, <2>3 DEF ToldNext
<1> DEFINE Goal == /\ \A a \in DOMAIN class' : class'[a] # Blank => ToldNext(a, class'[a])
                   /\ \A b \in Batches :
                        pc'[b] = "write" /\ previous'[b] # Blank => ToldNext(asset'[b], previous'[b])
<1> HIDE DEF Goal
<1>1. ASSUME NEW b \in Batches, ReadAsset(b) PROVE Goal
  <2>1. UNCHANGED <<class, asset>> /\ pc[b] = "read" /\ pc' = [pc EXCEPT ![b] = "write"]
    BY <1>1 DEF ReadAsset, tables, Goto, At
  <2>2. \A a \in DOMAIN class' : class'[a] # Blank => ToldNext(a, class'[a])
    BY <2>1, <1>c
  <2>3. previous' = [previous EXCEPT ![b] = Shown(asset[b])]
    BY <1>1, <1>f DEF ReadAsset, Fault
  <2>4. asset[b] \in DOMAIN class
    BY <2>1 DEF PlaceInv, WorkingStages
  <2>5. previous'[b] = Blank \/ previous'[b] = class[asset[b]]
    BY <2>3 DEF Shown, AnnouncedInv
  <2>6. ASSUME NEW x \in Batches, pc'[x] = "write", previous'[x] # Blank
        PROVE  ToldNext(asset'[x], previous'[x])
    <3>1. CASE x = b
      <4>1. previous'[x] = class[asset[x]] /\ class[asset[x]] # Blank /\ Told(asset[x], class[asset[x]])
        BY <3>1, <2>4, <2>5, <2>6, <1>f
      <4>2. ToldNext(asset[x], class[asset[x]])
        BY <4>1, <1>s
      <4>3. QED
        BY <4>1, <4>2, <2>1 DEF ToldNext
    <3>2. CASE x # b
      <4>1. previous'[x] = previous[x] /\ pc[x] = "write"
        BY <3>2, <2>1, <2>3, <2>6 DEF AnnouncedInv, PlaceInv
      <4>2. previous[x] # Blank /\ Told(asset[x], previous[x])
        BY <4>1, <2>6, <1>f
      <4>3. ToldNext(asset[x], previous[x])
        BY <4>2, <1>s
      <4>4. QED
        BY <4>1, <4>3, <2>1 DEF ToldNext
    <3>3. QED
      BY <3>1, <3>2
  <2>7. QED
    BY <2>2, <2>6 DEF Goal
<1>2. ASSUME NEW b \in Batches, UpdateClassification(b) PROVE Goal
  <2>1. /\ UNCHANGED <<asset, created, top, previous>>
        /\ pc[b] = "write" /\ pc' = [pc EXCEPT ![b] = "titles"]
    BY <1>2 DEF UpdateClassification, Goto, At
  <2>2. class' = [class EXCEPT ![asset[b]] = top[b]]
    BY <1>2, <1>f DEF UpdateClassification, Fault
  <2>3. todo' = [todo EXCEPT ![b] = When(~created[b] /\ previous[b] # top[b],
                                         Change(b, "classification_changed", top[b]))]
    BY <1>2 DEF UpdateClassification
  <2>4. top[b] # Blank => ToldNext(asset[b], top[b])
    <3>1. CASE created[b]
      BY <3>1, <2>1 DEF ToldNext
    <3>2. CASE ~created[b] /\ previous[b] # top[b]
      <4> DEFINE told == <<"classification_changed", asset[b], top[b]>>
      <4>1. todo'[b] = <<told>>
        BY <2>3, <3>2 DEF When, Change, ChangesInv
      <4>2. told \in ToSet(<<told>>)
        <5>1. 1 \in DOMAIN <<told>> /\ <<told>>[1] = told
          OBVIOUS
        <5> HIDE DEF told
        <5>2. QED
          BY <5>1 DEF ToSet
      <4>3. QED
        BY <4>1, <4>2 DEF ToldNext
    <3>3. CASE previous[b] = top[b]
      BY <3>3, <2>1, <1>f, <1>s
    <3>4. QED
      BY <3>1, <3>2, <3>3
  <2>5. \A a \in DOMAIN class' : class'[a] # Blank => ToldNext(a, class'[a])
    <3> SUFFICES ASSUME NEW a \in DOMAIN class', class'[a] # Blank PROVE ToldNext(a, class'[a])
      OBVIOUS
    <3>1. CASE a = asset[b]
      <4>1. class'[a] = top[b]
        BY <2>2, <3>1
      <4>2. QED
        BY <4>1, <2>4, <3>1 DEF ToldNext
    <3>2. CASE a # asset[b]
      <4>1. a \in DOMAIN class /\ class'[a] = class[a]
        BY <2>2, <3>2
      <4>2. ToldNext(a, class[a])
        BY <4>1, <1>f, <1>s
      <4>3. QED
        BY <4>1, <4>2 DEF ToldNext
    <3>3. QED
      BY <3>1, <3>2
  <2>6. \A x \in Batches : pc'[x] = "write" => pc[x] = "write"
    BY <2>1 DEF PlaceInv
  <2>7. QED
    BY <2>1, <2>5, <2>6, <1>p DEF Goal
<1>3. ASSUME NEW b \in Batches, IngestBatch(b) \/ Correlated(b), ~ReadAsset(b), ~UpdateClassification(b)
      PROVE  Goal
  <2>1. UNCHANGED previous /\ \A x \in Batches : pc'[x] = "write" => pc[x] = "write"
    BY <1>3, OnlyReadAsset
  <2>2. class' = class \/ \E a \in Assets : class' = Added(class, a, Blank)
    <3>1. CASE Resolve(b)
      BY <3>1, ResolveOfBatch
    <3>2. CASE ~Resolve(b)
      BY <1>3, <3>2 DEF IngestBatch, Correlated, Collect, AttachRest, Detect, Report, Evaluate,
           DetectTitle, EvaluateAdvisories, UpsertFinding, Finish, tables
    <3>3. QED
      BY <3>1, <3>2
  <2>3. \A a \in DOMAIN class' : class'[a] = Blank \/ (a \in DOMAIN class /\ class'[a] = class[a])
    BY <2>2 DEF Added
  <2>4. QED
    BY <2>1, <2>3, <1>c, <1>p DEF Goal
<1>4. ASSUME Operator PROVE Goal
  BY <1>4, StepOfOperator, <1>c, <1>p DEF Goal
<1>5. ASSUME UNCHANGED vars PROVE Goal
  BY <1>5, <1>c, <1>p DEF Goal, vars, batchVars, tables
<1>6. ASSUME NEW b \in Batches, IngestBatch(b) \/ Correlated(b)
      PROVE  Goal
  BY <1>1, <1>2, <1>3, <1>6
<1>7. Goal
  BY <1>4, <1>5, <1>6 DEF Next
<1>8. QED
  BY <1>7 DEF Goal

-----------------------------------------------------------------------------
(* The theorems. *)

(* The inductive invariant holds in every reachable state. *)
THEOREM Invariance == Spec => []IInv
<1>1. Init => IInv
  <2> SUFFICES ASSUME Init PROVE IInv
    OBVIOUS
  <2>1. MergedInv /\ FindingsInv
    BY DEF Init, Nothing, MergedInv, FindingsInv
  <2>2. PlaceInv
    BY DEF Init, Nothing, PlaceInv, Stages, WorkingStages
  <2>3. ChangesInv
    BY WaitingNone DEF Init, Nothing, ChangesInv
  <2>4. AnnouncedInv
    BY DEF Init, Nothing, AnnouncedInv
  <2>5. QED
    BY <2>1, <2>2, <2>3, <2>4 DEF IInv
<1>2. IInv /\ [Next]_vars => IInv'
  BY NextMerged, NextFindings, NextPlaces, NextChanges, NextAnnounced DEF IInv
<1>3. QED
  BY <1>1, <1>2, PTL DEF Spec

(* The history of every finding ends in its state and has no two equal     *)
(* entries in a row (UpsertFinding, MergeAssets).                          *)
THEOREM HistoriesChain == Spec => []HistoryChains
<1>1. IInv => HistoryChains
  BY DEF IInv, FindingsInv, RowOf, Chain, HistoryChains
<1>2. QED
  BY Invariance, <1>1, PTL

(* No batch undoes what an operator decided, and no step leaves an         *)
(* advisory without a finding on the asset it was found on, or on the one  *)
(* that asset was merged into (UpsertFinding, AddChange, MergeAssets).     *)
THEOREM JudgementsAreKept == Spec => JudgementsKept
<1> DEFINE Kept ==
      /\ \A b \in Batches : IngestBatch(b) \/ Correlated(b) =>
          /\ \A k \in DOMAIN findings :
               k \in DOMAIN findings' /\ findings'[k].disposition = findings[k].disposition
          /\ \A c \in DOMAIN changes :
               c \in DOMAIN changes' /\ changes'[c].acknowledged = changes[c].acknowledged
      /\ \A k \in DOMAIN findings :
          \E kept \in DOMAIN findings' :
            /\ kept.advisory = k.advisory
            /\ kept.asset \in {k.asset, mergedInto'[k.asset]}
<1>1. IInv /\ [Next]_vars => [Kept]_vars
  <2> SUFFICES ASSUME IInv, [Next]_vars PROVE Kept
    OBVIOUS
  <2>1. StillFound
    BY NextFindings DEF IInv
  <2>2. ASSUME NEW b \in Batches, IngestBatch(b) \/ Correlated(b)
        PROVE  /\ \A k \in DOMAIN findings :
                    k \in DOMAIN findings' /\ findings'[k].disposition = findings[k].disposition
               /\ \A c \in DOMAIN changes :
                    c \in DOMAIN changes' /\ changes'[c].acknowledged = changes[c].acknowledged
    BY <2>2, BatchKeepsRows DEF IInv
  <2>3. QED
    BY <2>1, <2>2 DEF StillFound
<1>2. QED
  BY Invariance, <1>1, PTL DEF Spec, JudgementsKept

(* No asset shows a classification that was not, or is not about to be,    *)
(* announced, or given to it by the batch that found it, whichever batches *)
(* overlap (UpdateClassification, with the asset read before it).          *)
THEOREM ClassificationsAreAnnounced == Spec => []ShownWasAnnounced
<1>1. IInv => ShownWasAnnounced
  <2> SUFFICES ASSUME AnnouncedInv, faults = 0, NEW a \in DOMAIN class, class[a] # Blank
               PROVE  \/ <<"classification_changed", a, class[a]>> \in DOMAIN changes
                      \/ \E b \in Batches :
                           \/ <<"classification_changed", a, class[a]>> \in ToSet(todo[b])
                           \/ created[b] /\ asset[b] = a /\ top[b] = class[a]
    BY DEF IInv, ShownWasAnnounced
  <2>1. Told(a, class[a])
    BY DEF AnnouncedInv
  <2>2. QED
    BY <2>1 DEF Told
<1>2. QED
  BY Invariance, <1>1, PTL
-----------------------------------------------------------------------------
(* Folds. The functions of Fingerprint fold the predicates of a rule and   *)
(* the contributions of sources. A fold is a function on the subsets of    *)
(* what it folds, defined by recursion on them; that it exists and what it *)
(* keeps are shown by induction over their sizes, with sets in the place   *)
(* of predicates.                                                          *)

(* A set of numbers has a least one.                                       *)
LEMMA Least == ASSUME NEW T \in SUBSET Nat, T # {}
  PROVE \E x \in T : \A y \in T : x <= y
<1> DEFINE Less == {ss \in Nat \X Nat : ss[1] < ss[2]}
<1>1. IsWellFoundedOn(Less, Nat)
  BY NatLessThanWellFounded, Zenon DEF OpToRel
<1>2. \A x, y \in T : x < y => <<x, y>> \in Less OBVIOUS
<1> HIDE DEF Less
<1>3. PICK x \in T : \A y \in T : ~ (<<y, x>> \in Less)
  BY <1>1, WFMin
<1>4. \A y \in T : ~ (y < x) BY <1>2, <1>3
<1>5. \A y \in T : x <= y BY <1>4
<1>6. QED BY <1>5

(* Induction over the natural numbers, for a set in place of a predicate.  *)
LEMMA Inductive == ASSUME NEW T, 0 \in T, \A n \in Nat : n \in T => n + 1 \in T
  PROVE Nat \subseteq T
<1> SUFFICES ASSUME ~ (Nat \subseteq T) PROVE FALSE OBVIOUS
<1> DEFINE U == Nat \ T
<1>1. PICK x \in U : \A y \in U : x <= y BY Least
<1>2. x # 0 /\ x - 1 \in Nat BY <1>1
<1>3. x - 1 \in T BY <1>1, <1>2
<1>4. QED BY <1>1, <1>2, <1>3

(* A function that folds a finite set: it takes out one element after the  *)
(* other (pick), down to the empty set.                                    *)
FoldsBy(g, T, base, pick, step) ==
  \A s \in SUBSET T : g[s] = IF s = {} THEN base ELSE step[<<s, g[s \ {pick[s]}]>>]

(* There is one, whatever the step, ...                                    *)
LEMMA FoldExists ==
  ASSUME NEW T, IsFiniteSet(T), NEW base, NEW V, base \in V,
         NEW pick, \A s \in SUBSET T : s # {} => pick[s] \in s,
         NEW step \in [(SUBSET T) \X V -> V]
  PROVE  \E g \in [SUBSET T -> V] : FoldsBy(g, T, base, pick, step)
<1> DEFINE Upto(n) == {s \in SUBSET T : Cardinality(s) <= n}
           Folds(n, g) == \A s \in Upto(n) :
                            g[s] = IF s = {} THEN base ELSE step[<<s, g[s \ {pick[s]}]>>]
           Good == {n \in Nat : \E g \in [Upto(n) -> V] : Folds(n, g)}
<1>1. \A s \in SUBSET T : IsFiniteSet(s) /\ Cardinality(s) \in Nat /\ Cardinality(s) <= Cardinality(T)
  BY FS_Subset, FS_CardinalityType
<1>2. \A s \in SUBSET T : Cardinality(s) = 0 <=> s = {}
  BY <1>1, FS_EmptySet
<1>3. \A s \in SUBSET T : s # {} => s \ {pick[s]} \in SUBSET T
                                    /\ Cardinality(s \ {pick[s]}) = Cardinality(s) - 1
  <2> TAKE s \in SUBSET T
  <2> HAVE s # {}
  <2>1. pick[s] \in s /\ IsFiniteSet(s) BY <1>1
  <2>2. Cardinality(s \ {pick[s]}) = IF pick[s] \in s THEN Cardinality(s) - 1 ELSE Cardinality(s)
    BY <2>1, FS_RemoveElement
  <2>3. QED BY <2>1, <2>2
<1>4. 0 \in Good
  <2> DEFINE g == [s \in Upto(0) |-> base]
  <2>1. \A s \in Upto(0) : s = {} BY <1>1, <1>2
  <2>2. g \in [Upto(0) -> V] /\ Folds(0, g) BY <2>1
  <2>3. QED BY <2>2
<1>5. ASSUME NEW n \in Nat, n \in Good PROVE n + 1 \in Good
  <2>1. PICK g \in [Upto(n) -> V] : Folds(n, g) BY <1>5
  <2> DEFINE h == [s \in Upto(n + 1) |-> IF s \in Upto(n) THEN g[s]
                                         ELSE step[<<s, g[s \ {pick[s]}]>>]]
  <2>2. \A s \in Upto(n + 1) : s # {} => s \ {pick[s]} \in Upto(n) BY <1>1, <1>3
  <2>3. \A s \in Upto(n + 1) : s \notin Upto(n) => s # {} BY <1>2
  <2>4. Upto(n) \subseteq Upto(n + 1) BY <1>1
  <2>5. h \in [Upto(n + 1) -> V] BY <2>1, <2>2, <2>3
  <2>6. Folds(n + 1, h)
    <3> SUFFICES ASSUME NEW s \in Upto(n + 1)
                 PROVE  h[s] = IF s = {} THEN base ELSE step[<<s, h[s \ {pick[s]}]>>]
      OBVIOUS
    <3>0. s \in SUBSET T OBVIOUS
    <3>1. s # {} => h[s \ {pick[s]}] = g[s \ {pick[s]}] BY <2>2, <2>4
    <3>2. CASE s \in Upto(n)
      <4>1. h[s] = g[s] BY <3>2
      <4>2. g[s] = IF s = {} THEN base ELSE step[<<s, g[s \ {pick[s]}]>>] BY <3>2, <2>1
      <4> HIDE DEF h, Upto
      <4>3. QED BY <4>1, <4>2, <3>1
    <3>3. CASE s \notin Upto(n) BY <3>1, <3>3, <2>3
    <3>4. QED BY <3>2, <3>3
  <2> HIDE DEF h, Folds, Upto
  <2>7. QED BY <2>5, <2>6
<1>6. Cardinality(T) \in Good
  <2> HIDE DEF Good
  <2>1. Nat \subseteq Good BY <1>4, <1>5, Inductive
  <2>2. QED BY <2>1, <1>1
<1>7. Upto(Cardinality(T)) = SUBSET T BY <1>1
<1>8. QED BY <1>6, <1>7 DEF FoldsBy

(* ... and whatever folds a finite set keeps what the step keeps.          *)
LEMMA FoldKeeps ==
  ASSUME NEW T, IsFiniteSet(T), NEW V, NEW g, g[{}] \in V,
         \A s \in SUBSET T : s # {} => \E x \in s : g[s \ {x}] \in V => g[s] \in V
  PROVE  \A s \in SUBSET T : g[s] \in V
<1> DEFINE Good == {n \in Nat : \A s \in SUBSET T : Cardinality(s) = n => g[s] \in V}
<1>1. \A s \in SUBSET T : IsFiniteSet(s) /\ Cardinality(s) \in Nat
  BY FS_Subset, FS_CardinalityType
<1>2. 0 \in Good BY <1>1, FS_EmptySet
<1>3. ASSUME NEW n \in Nat, n \in Good PROVE n + 1 \in Good
  <2> SUFFICES ASSUME NEW s \in SUBSET T, Cardinality(s) = n + 1 PROVE g[s] \in V
    OBVIOUS
  <2>1. s # {} BY <1>1, FS_EmptySet
  <2>2. PICK x \in s : g[s \ {x}] \in V => g[s] \in V BY <2>1
  <2>3. Cardinality(s \ {x}) = IF x \in s THEN Cardinality(s) - 1 ELSE Cardinality(s)
    BY <1>1, <2>2, FS_RemoveElement
  <2>4. Cardinality(s \ {x}) = n BY <2>3
  <2>5. QED BY <1>3, <2>2, <2>4
<1> HIDE DEF Good
<1>4. Nat \subseteq Good BY <1>2, <1>3, Inductive
<1>5. QED BY <1>1, <1>4 DEF Good
-----------------------------------------------------------------------------
(* Max and Min, where the model takes them.                                *)
LEMMA MaxOfTwo == ASSUME NEW x \in Int, NEW y \in Int
  PROVE Max({x, y}) \in {x, y} /\ x <= Max({x, y}) /\ y <= Max({x, y})
<1>1. \E m \in {x, y} : \A z \in {x, y} : m >= z
  <2>1. CASE x >= y BY <2>1
  <2>2. CASE y >= x BY <2>2
  <2>3. QED BY <2>1, <2>2
<1>2. QED BY <1>1 DEF Max

LEMMA MinOfTwo == ASSUME NEW x \in Int, NEW y \in Int
  PROVE Min({x, y}) \in {x, y} /\ Min({x, y}) <= x /\ Min({x, y}) <= y
<1>1. \E m \in {x, y} : \A z \in {x, y} : m =< z
  <2>1. CASE x >= y BY <2>1
  <2>2. CASE y >= x BY <2>2
  <2>3. QED BY <2>1, <2>2
<1>2. QED BY <1>1 DEF Min

LEMMA MaxOfPlaces == ASSUME NEW n \in Nat, NEW s \in SUBSET (1..n), s # {}
  PROVE Max(s) \in s
<1> DEFINE Below == {n - x : x \in s}
<1>0. \A x \in s : n - x \in Nat OBVIOUS
<1>1. Below \in SUBSET Nat /\ Below # {} BY <1>0
<1>2. PICK d \in Below : \A e \in Below : d <= e BY <1>1, Least
<1>3. PICK m \in s : d = n - m BY <1>2
<1>4. \A x \in s : m >= x
  <2> TAKE x \in s
  <2>1. n - x \in Below OBVIOUS
  <2>2. QED BY <1>2, <1>3, <2>1
<1>5. \E m2 \in s : \A x \in s : m2 >= x BY <1>4
<1>6. QED BY <1>5 DEF Max

(* A source stays within its cap, whatever a predicate weighs.             *)
LEMMA CappedStays == ASSUME NEW used \in 0..SourceCap, NEW weight \in Int
  PROVE used + Capped(used, weight) \in 0..SourceCap
<1>1. SourceCap = 65 BY DEF SourceCap
<1> DEFINE m == Min({weight, SourceCap - used})
<1>2. m \in Int /\ m <= SourceCap - used BY <1>1, MinOfTwo
<1> HIDE DEF m
<1>3. Max({0, m}) \in {0, m} /\ 0 <= Max({0, m}) BY <1>2, MaxOfTwo
<1>4. Capped(used, weight) = Max({0, m}) BY DEF Capped, m
<1>5. QED BY <1>1, <1>2, <1>3, <1>4

Matched(r, ev) == {p \in ToSet(r.positive) : MatchAny(p, ev)}
Credited(r, ev) == {CreditedTo(p, ev) : p \in Matched(r, ev)}

LEMMA Predicates == ASSUME NEW i \in DOMAIN Rules, NEW list \in {Rules[i].positive, Rules[i].negative}
  PROVE /\ Len(list) \in Nat /\ DOMAIN list = 1..Len(list) /\ IsFiniteSet(DOMAIN list)
        /\ \A n \in DOMAIN list : list[n].weight \in Int
        /\ \A s \in SUBSET DOMAIN list : s # {} => Max(s) \in s
<1>1. list \in Seq(ToSet(list)) /\ \A p \in ToSet(list) : p.weight \in Int
  BY FingerprintAssumption
<1>2. Len(list) \in Nat /\ DOMAIN list = 1..Len(list) BY <1>1
<1>3. IsFiniteSet(DOMAIN list) BY <1>2, FS_Interval
<1>4. \A s \in SUBSET DOMAIN list : s # {} => Max(s) \in s BY <1>2, MaxOfPlaces
<1>5. QED BY <1>1, <1>2, <1>3, <1>4 DEF ToSet

(* What the sources contribute is within the cap for each of them.         *)
LEMMA SourcesCapped == ASSUME NEW i \in DOMAIN Rules, NEW ev
  PROVE SourceTotals(Rules[i], ev) \in [Credited(Rules[i], ev) -> 0..SourceCap]
<1> DEFINE r == Rules[i]
           T == DOMAIN r.positive
           C == Credited(r, ev)
           V == [C -> 0..SourceCap]
           base == [s \in C |-> 0]
           Credit(acc, p) == IF p \notin Matched(r, ev) THEN acc
                             ELSE [acc EXCEPT ![CreditedTo(p, ev)] = @ + Capped(@, p.weight)]
           Step(s, g) == IF s = {} THEN base ELSE Credit(g[s \ {Max(s)}], r.positive[Max(s)])
           fold == CHOOSE g : g = [s \in SUBSET T |-> Step(s, g)]
           step == [sv \in (SUBSET T) \X V |-> IF sv[1] = {} THEN base ELSE Credit(sv[2], r.positive[Max(sv[1])])]
           pick == [s \in SUBSET T |-> Max(s)]
<1>1. SourceTotals(r, ev) = fold[T]
  BY Zenon DEF SourceTotals, FoldLeft, MapThenFoldSet, Matched, Credited
<1>2. /\ IsFiniteSet(T) /\ \A n \in T : r.positive[n].weight \in Int
      /\ \A s \in SUBSET T : s # {} => Max(s) \in s
  BY Predicates
<1>3. base \in V BY DEF SourceCap
<1>4. ASSUME NEW n \in T, NEW acc \in V PROVE Credit(acc, r.positive[n]) \in V
  <2> SUFFICES Credit(acc, r.positive[n]) \in V OBVIOUS
  <2> DEFINE p == r.positive[n]
             to == CreditedTo(p, ev)
  <2>1. CASE p \notin Matched(r, ev) BY <2>1
  <2>2. CASE p \in Matched(r, ev)
    <3>1. to \in C BY <2>2 DEF Credited
    <3>2. acc[to] \in 0..SourceCap BY <3>1
    <3>3. acc[to] + Capped(acc[to], p.weight) \in 0..SourceCap BY <1>2, <3>2, CappedStays
    <3>4. Credit(acc, p) = [acc EXCEPT ![to] = acc[to] + Capped(acc[to], p.weight)] BY <2>2
    <3> HIDE DEF to, p, Credit
    <3>5. QED BY <3>1, <3>3, <3>4 DEF p
  <2> HIDE DEF Credit, V
  <2>3. QED BY <2>1, <2>2
<1> HIDE DEF Credit, C, T, r, base
<1>5. step \in [(SUBSET T) \X V -> V] BY <1>2, <1>3, <1>4
<1>6. \A s \in SUBSET T : s # {} => pick[s] \in s BY <1>2
<1>7. \E g : g = [s \in SUBSET T |-> Step(s, g)]
  <2> HIDE DEF V, step, pick
  <2>0. IsFiniteSet(T) BY <1>2
  <2>1. PICK g \in [SUBSET T -> V] : FoldsBy(g, T, base, pick, step)
    BY <2>0, <1>3, <1>5, <1>6, FoldExists
  <2>2. ASSUME NEW s \in SUBSET T PROVE g[s] = Step(s, g)
    <3>1. CASE s = {} BY <2>1, <3>1 DEF FoldsBy
    <3>2. CASE s # {}
      <4>1. pick[s] = Max(s) BY DEF pick
      <4>2. s \ {Max(s)} \in SUBSET T /\ g[s \ {Max(s)}] \in V BY <2>1
      <4>3. step[<<s, g[s \ {Max(s)}]>>] = Credit(g[s \ {Max(s)}], r.positive[Max(s)])
        BY <3>2, <4>2 DEF step
      <4>4. QED BY <2>1, <3>2, <4>1, <4>3 DEF FoldsBy
    <3>3. QED BY <3>1, <3>2
  <2>3. g = [s \in SUBSET T |-> Step(s, g)] BY <2>1, <2>2
  <2>4. QED BY <2>3
<1>8. fold = [s \in SUBSET T |-> Step(s, fold)]
  <2> HIDE DEF Step
  <2>1. QED BY <1>7
<1> HIDE DEF fold, V
<1>9. fold[{}] \in V
  BY <1>3, <1>8
<1>10. ASSUME NEW s \in SUBSET T, s # {} PROVE \E x \in s : fold[s \ {x}] \in V => fold[s] \in V
  <2>1. Max(s) \in s BY <1>2, <1>10
  <2>2. fold[s] = Credit(fold[s \ {Max(s)}], r.positive[Max(s)]) BY <1>8, <1>10
  <2>3. Max(s) \in T BY <2>1
  <2>4. QED BY <1>4, <2>1, <2>2, <2>3
<1>11. \A s \in SUBSET T : fold[s] \in V BY <1>2, <1>9, <1>10, FoldKeeps
<1>12. QED BY <1>1, <1>11 DEF V, C, r

(* Negative evidence never adds.                                           *)
LEMMA PenaltyTakes == ASSUME NEW i \in DOMAIN Rules, NEW ev
  PROVE Penalty(Rules[i], ev) \in Nat
<1> DEFINE r == Rules[i]
           T == DOMAIN r.negative
           Taken(p) == IF MatchAny(p, ev) THEN Max({p.weight, -p.weight}) ELSE 0
           Step(s, g) == IF s = {} THEN 0 ELSE g[s \ {Max(s)}] + Taken(r.negative[Max(s)])
           fold == CHOOSE g : g = [s \in SUBSET T |-> Step(s, g)]
           step == [sv \in (SUBSET T) \X Nat |-> IF sv[1] = {} THEN 0 ELSE sv[2] + Taken(r.negative[Max(sv[1])])]
           pick == [s \in SUBSET T |-> Max(s)]
<1>1. Penalty(r, ev) = fold[T]
  BY Zenon DEF Penalty, FoldLeft, MapThenFoldSet
<1>2. /\ IsFiniteSet(T) /\ \A n \in T : r.negative[n].weight \in Int
      /\ \A s \in SUBSET T : s # {} => Max(s) \in s
  BY Predicates
<1>3. ASSUME NEW n \in T PROVE Taken(r.negative[n]) \in Nat
  <2> DEFINE w == r.negative[n].weight
  <2>1. w \in Int BY <1>2
  <2> HIDE DEF w
  <2>n. -w \in Int BY <2>1
  <2>2. Max({w, -w}) \in {w, -w} /\ w <= Max({w, -w}) /\ -w <= Max({w, -w}) BY <2>1, <2>n, MaxOfTwo
  <2>3. Max({w, -w}) \in Nat BY <2>1, <2>2
  <2>4. QED BY <2>3 DEF w
<1> HIDE DEF Taken, T, r
<1>4. step \in [(SUBSET T) \X Nat -> Nat] BY <1>2, <1>3
<1>5. \A s \in SUBSET T : s # {} => pick[s] \in s BY <1>2
<1>6. \E g : g = [s \in SUBSET T |-> Step(s, g)]
  <2> HIDE DEF step, pick
  <2>1. IsFiniteSet(T) /\ 0 \in Nat BY <1>2
  <2>2. PICK g \in [SUBSET T -> Nat] : FoldsBy(g, T, 0, pick, step)
    BY <2>1, <1>4, <1>5, FoldExists
  <2>3. ASSUME NEW s \in SUBSET T PROVE g[s] = Step(s, g)
    <3>1. CASE s = {} BY <2>2, <3>1 DEF FoldsBy
    <3>2. CASE s # {}
      <4>1. pick[s] = Max(s) BY DEF pick
      <4>2. s \ {Max(s)} \in SUBSET T /\ g[s \ {Max(s)}] \in Nat BY <2>2
      <4>3. step[<<s, g[s \ {Max(s)}]>>] = g[s \ {Max(s)}] + Taken(r.negative[Max(s)])
        BY <3>2, <4>2 DEF step
      <4>4. QED BY <2>2, <3>2, <4>1, <4>3 DEF FoldsBy
    <3>3. QED BY <3>1, <3>2
  <2>4. g = [s \in SUBSET T |-> Step(s, g)] BY <2>2, <2>3
  <2>5. QED BY <2>4
<1>7. fold = [s \in SUBSET T |-> Step(s, fold)]
  <2> HIDE DEF Step
  <2>1. QED BY <1>6
<1> HIDE DEF fold
<1>8. fold[{}] \in Nat BY <1>7
<1>9. ASSUME NEW s \in SUBSET T, s # {} PROVE \E x \in s : fold[s \ {x}] \in Nat => fold[s] \in Nat
  <2>1. Max(s) \in s /\ Max(s) \in T BY <1>2, <1>9
  <2>2. fold[s] = fold[s \ {Max(s)}] + Taken(r.negative[Max(s)]) BY <1>7, <1>9
  <2>3. Taken(r.negative[Max(s)]) \in Nat BY <1>3, <2>1
  <2>4. fold[s \ {Max(s)}] \in Nat => fold[s] \in Nat BY <2>2, <2>3
  <2>5. QED BY <2>1, <2>4
<1>10. \A s \in SUBSET T : fold[s] \in Nat BY <1>2, <1>8, <1>9, FoldKeeps
<1>11. QED BY <1>1, <1>10 DEF r

(* The sum of what no more than one source contributes.                    *)
LEMMA SumOfOne ==
  ASSUME NEW C, IsFiniteSet(C), Cardinality(C) <= 1, NEW cap \in Nat, NEW f \in [C -> 0..cap]
  PROVE  FoldFunction(LAMBDA x, y : x + y, 0, f) \in 0..cap
<1> DEFINE OneOf(s) == CHOOSE x \in s : TRUE
           Step(s, g) == IF s = {} THEN 0 ELSE f[OneOf(s)] + g[s \ {OneOf(s)}]
           fold == CHOOSE g : g = [s \in SUBSET C |-> Step(s, g)]
           one == [s \in SUBSET C |-> IF s = {} THEN 0 ELSE f[OneOf(s)]]
<1>1. FoldFunction(LAMBDA x, y : x + y, 0, f) = fold[C]
  <2>1. DOMAIN f = C OBVIOUS
  <2>2. QED BY <2>1, Zenon DEF FoldFunction, FoldFunctionOnSet, MapThenFoldSet
<1>2. \A s \in SUBSET C : s # {} => OneOf(s) \in s OBVIOUS
<1>3. \A s \in SUBSET C : s # {} => s \ {OneOf(s)} = {}
  <2> SUFFICES ASSUME NEW x \in C, NEW y \in C PROVE x = y BY <1>2
  <2>1. IsFiniteSet(C \ {x}) /\ Cardinality(C \ {x}) = IF x \in C THEN Cardinality(C) - 1 ELSE Cardinality(C)
    BY FS_RemoveElement
  <2>2. Cardinality(C \ {x}) \in Nat /\ Cardinality(C) \in Nat BY <2>1, FS_CardinalityType
  <2>3. C \ {x} = {} BY <2>1, <2>2, FS_EmptySet
  <2>4. QED BY <2>3
<1> HIDE DEF OneOf
<1>4. one = [s \in SUBSET C |-> Step(s, one)]
  <2>1. ASSUME NEW s \in SUBSET C PROVE one[s] = Step(s, one)
    <3>1. CASE s = {} BY <3>1
    <3>2. CASE s # {}
      <4>1. one[s \ {OneOf(s)}] = 0 BY <1>3, <3>2
      <4>2. one[s] = f[OneOf(s)] BY <3>2
      <4>3. f[OneOf(s)] \in Int BY <1>2, <3>2
      <4> HIDE DEF one
      <4>4. QED BY <3>2, <4>1, <4>2, <4>3
    <3>3. QED BY <3>1, <3>2
  <2> HIDE DEF Step
  <2>2. QED BY <2>1
<1>5. fold = [s \in SUBSET C |-> Step(s, fold)]
  <2> HIDE DEF Step
  <2>1. QED BY <1>4
<1> HIDE DEF fold
<1> SUFFICES fold[C] \in 0..cap BY <1>1, Zenon
<1>6. CASE C = {} BY <1>5, <1>6
<1>7. CASE C # {}
  <2>1. fold[C] = f[OneOf(C)] + fold[{}] BY <1>3, <1>5, <1>7
  <2>2. fold[{}] = 0 BY <1>5
  <2>3. f[OneOf(C)] \in 0..cap BY <1>2, <1>7
  <2>4. QED BY <2>1, <2>2, <2>3
<1>8. QED BY <1>6, <1>7

(* As many sources as predicates at most.                                  *)
LEMMA FewSources == ASSUME NEW i \in DOMAIN Rules, NEW ev
  PROVE IsFiniteSet(Credited(Rules[i], ev))
<1> DEFINE list == Rules[i].positive
           Hits == {n \in DOMAIN list : MatchAny(list[n], ev)}
           source == [n \in Hits |-> CreditedTo(list[n], ev)]
<1>1. IsFiniteSet(DOMAIN list) BY Predicates
<1>2. IsFiniteSet(Hits) BY <1>1, FS_Subset
<1>3. source \in Surjection(Hits, Credited(Rules[i], ev))
  BY DEF Surjection, Credited, Matched, ToSet
<1>4. QED BY <1>2, <1>3, FS_Surjection

(* One source alone.                                                       *)
LEMMA OneSource ==
  ASSUME NEW i \in DOMAIN Rules, NEW ev, Cardinality(DOMAIN SourceTotals(Rules[i], ev)) <= 1
  PROVE  Score(Rules[i], ev, 0) <= SourceCap + 5
<1> DEFINE r == Rules[i]
           parts == SourceTotals(r, ev)
           C == Credited(r, ev)
           sum == FoldFunction(LAMBDA x, y : x + y, 0, parts)
           bonus == IF r.model THEN 5 ELSE 0
           total == sum - Penalty(r, ev) + DiversityBonus(Cardinality(DOMAIN parts))
                    + bonus - StalePenalty(0)
<1>1. parts \in [C -> 0..SourceCap] /\ IsFiniteSet(C) BY SourcesCapped, FewSources
<1>2. DOMAIN parts = C BY <1>1
<1>3. SourceCap \in Nat /\ SourceCap = 65 BY DEF SourceCap
<1> HIDE DEF parts, C
<1>4. Cardinality(C) <= 1 BY <1>2 DEF parts, r
<1>5. sum \in 0..SourceCap BY <1>1, <1>3, <1>4, SumOfOne
<1>6. Penalty(r, ev) \in Nat BY PenaltyTakes
<1>7. Cardinality(C) \in Nat BY <1>1, FS_CardinalityType
<1>8. DiversityBonus(Cardinality(DOMAIN parts)) = 0 BY <1>2, <1>4, <1>7 DEF DiversityBonus
<1>9. StalePenalty(0) = 0 BY DEF StalePenalty
<1>10. bonus \in {0, 5} OBVIOUS
<1> HIDE DEF sum, bonus
<1>11. total \in Int /\ total <= SourceCap + 5 BY <1>3, <1>5, <1>6, <1>8, <1>9, <1>10
<1>12. Score(r, ev, 0) = IF \A n \in DOMAIN r.required : MatchAny(r.required[n], ev)
                         THEN Max({0, Min({100, total})}) ELSE 0
  BY DEF Score, parts, sum, bonus
<1> HIDE DEF total
<1> DEFINE upper == Min({100, total})
<1>13. upper \in Int /\ upper <= total BY <1>11, MinOfTwo
<1> HIDE DEF upper
<1>14. Max({0, upper}) \in {0, upper} BY <1>13, MaxOfTwo
<1>15. Score(r, ev, 0) \in {0, upper} BY <1>12, <1>14 DEF upper
<1>16. QED BY <1>3, <1>11, <1>13, <1>15 DEF r

(* Whatever rules are loaded and whatever was observed, one source alone   *)
(* identifies nothing beyond its cap and the bonus of a model              *)
(* (evaluateRule).                                                         *)
THEOREM OneSourceIdentifiesNothing == Spec => []OneSourceIsNotEnough
<1>1. OneSourceIsNotEnough
  BY OneSource DEF OneSourceIsNotEnough
<1>2. QED
  BY <1>1, PTL
=============================================================================
