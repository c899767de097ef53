---------------------------- MODULE Identity_proofs ----------------------------
(***************************************************************************)
(* Proofs about Identity for any observations, identifiers and addresses,  *)
(* and any number of merges and failing calls.                             *)
(***************************************************************************)
EXTENDS Identity, FiniteSetTheorems, TLAPS

(* From here on Resolve works on an asset.                                 *)
HasChosen(o) == pc[o] \in {"attach", "serviceSet", "identify", "done"}
ChosenShape ==
    \A o \in Observations : /\ HasChosen(o) => chosen[o] \in Assets
                            /\ todo[o] \subseteq Strong[o]

(* What a resolution that gathers evidence knows of each identifier it has *)
(* looked up. Rows are never deleted, so it stays true.                    *)
EvidenceSound ==
    \A o \in Observations :
        pc[o] = "match" =>
            \A i \in Strong[o] \ todo[o] :
                unmatched[o] \/ \E a \in matches[o] : <<a, i>> \in strongRows

(* Until the first merge an asset holds the identifiers of the observation *)
(* it was created for, and no others.                                      *)
NoMergeYet == \A a \in Assets : mergedInto[a] = Nobody
OwnIdentifiers ==
    NoMergeYet => \A row \in strongRows : row[2] \in Strong[row[1]]

(* An observation has no asset before it is attached, and one afterwards.  *)
LinkSound ==
    \A o \in Observations :
        /\ pc[o] \in {"none", "match", "create", "attach"} => Linked(o) = {}
        /\ pc[o] \in {"serviceSet", "identify", "done"} =>
              \E a \in Assets : Linked(o) = {a}

(* Weak evidence matches nothing before continuity is asked; a row of      *)
(* either kind stems from an observation that joined the asset; and so     *)
(* does whatever weak evidence has chosen.                                 *)
SawSet(p)   == pc[p] \in {"identify", "done", "failed"}
ByAddress(e, a) == \E p \in Observations : Joined(p, a) /\ Endpoint[p] = e
ByServices(s, a) == \E p \in Observations : SawSet(p) /\ Joined(p, a) /\ ServiceSet[p] = s
ContinuityInv ==
    /\ \A o \in Observations : Strong[o] = {} /\ pc[o] = "match" => matches[o] = {}
    /\ \A o \in Observations : pc[o] = "serviceSet" => Joined(o, chosen[o])
    /\ \A row \in addressRows : ByAddress(row[2], row[1])
    /\ \A row \in setRows : ByServices(row[2], row[1])

TypeInv     == TypeOK /\ ChosenShape
EvidenceInv == EvidenceSound /\ AttachOnlyOnAgreement
IInv        == TypeInv /\ EvidenceInv /\ OwnIdentifiers /\ LinkSound
WeakInv     == ContinuityInv /\ WeakNeedsServiceSet

-----------------------------------------------------------------------------
(* Type correctness. *)

(* The initial state is well typed. *)
LEMMA InitTypeInv == Init => TypeInv
<1> SUFFICES ASSUME Init PROVE TypeInv
  OBVIOUS
<1>1. PICK made \in Arrivals :
         pc = [o \in Observations |-> IF o \in made THEN "match" ELSE "none"]
  BY DEF Init
<1>2. QED
  BY <1>1, IdentityAssumption DEF Init, TypeInv, TypeOK, ChosenShape, HasChosen, Assets

(* Every step keeps the types. *)
LEMMA NextTypeInv == TypeInv /\ [Next]_vars => TypeInv'
<1> SUFFICES ASSUME TypeInv, [Next]_vars PROVE TypeInv'
  OBVIOUS
<1> USE IdentityAssumption
<1> USE DEF TypeInv, TypeOK, ChosenShape, HasChosen, At, Goto, tableVars, resolveVars, Assets
<1>1. ASSUME NEW o \in Observations, NEW i \in StrongIds, LookUp(o, i) PROVE TypeInv'
  BY <1>1 DEF LookUp, Holders
<1>2. ASSUME NEW o \in Observations, NEW i \in StrongIds, AddStrong(o, i) PROVE TypeInv'
  BY <1>2 DEF AddStrong
<1>3. ASSUME NEW o \in Observations, Decide(o) PROVE TypeInv'
  <2> DEFINE found == IF Strong[o] = {} /\ ServiceSet[o] # NoSet
                        THEN Continuity(o) ELSE matches[o]
  <2>1. found \subseteq Assets
    BY DEF Continuity
  <2> HIDE DEF found
  <2>2. /\ matches' = [matches EXCEPT ![o] = found]
        /\ conflict' = [conflict EXCEPT ![o] = found # {} /\ ~Agrees(o, found)]
        /\ UNCHANGED <<tableVars, todo, unmatched>>
    BY <1>3 DEF Decide, found
  <2>3. \/ pc' = [pc EXCEPT ![o] = "create"] /\ UNCHANGED chosen
        \/ /\ pc' = [pc EXCEPT ![o] = "attach"]
           /\ \E a \in found : chosen' = [chosen EXCEPT ![o] = a]
    BY <1>3 DEF Decide, found
  <2>4. (found # {} /\ ~Agrees(o, found)) \in BOOLEAN
    OBVIOUS
  <2>5. QED
    BY <2>1, <2>2, <2>3, <2>4
<1>4. ASSUME NEW o \in Observations, Create(o) PROVE TypeInv'
  BY <1>4 DEF Create
<1>5. ASSUME NEW o \in Observations, Attach(o) PROVE TypeInv'
  <2>1. chosen[o] \in Assets
    BY <1>5 DEF Attach
  <2>2. QED
    BY <1>5, <2>1 DEF Attach
<1>6. ASSUME NEW o \in Observations, AddServiceSet(o) PROVE TypeInv'
  <2>1. chosen[o] \in Assets
    BY <1>6 DEF AddServiceSet
  <2>2. QED
    BY <1>6, <2>1 DEF AddServiceSet
<1>7. ASSUME NEW o \in Observations, Classify(o) \/ Fail(o) PROVE TypeInv'
  BY <1>7 DEF Classify, Fail, Calling
<1>8. ASSUME NEW row \in setRows, WindowPasses(row) PROVE TypeInv'
  BY <1>8 DEF WindowPasses
<1>9. ASSUME NEW source \in Assets, NEW target \in Assets, Merge(source, target) PROVE TypeInv'
  <2>1. /\ Copied(strongRows, source, target) \subseteq Assets \X StrongIds
        /\ Copied(links, source, target) \subseteq Assets \X Observations
    <3>1. Copied(strongRows, source, target) \subseteq Assets \X StrongIds
      BY DEF Copied
    <3>2. Copied(links, source, target) \subseteq Assets \X Observations
      BY DEF Copied
    <3>3. QED
      BY <3>1, <3>2
  <2>2. /\ setRows' \subseteq {<<a, ServiceSet[o]>> : a \in Assets, o \in Observations}
        /\ addressRows' \subseteq {<<a, Endpoint[o]>> : a \in Assets, o \in Observations}
    BY <1>9 DEF Merge, Copied
  <2>3. QED
    BY <1>9, <2>1, <2>2 DEF Merge, LinksMoved
<1>10. CASE UNCHANGED vars
  BY <1>10 DEF vars
<1>11. QED
  BY <1>1, <1>2, <1>3, <1>4, <1>5, <1>6, <1>7, <1>8, <1>9, <1>10 DEF Next, Resolve
-----------------------------------------------------------------------------
(* Evidence and the asset it joins. *)

(* A row of a strong identifier is never deleted. *)
LEMMA RowsStay == [Next]_vars => strongRows \subseteq strongRows'
BY DEF Next, Resolve, LookUp, AddStrong, Decide, Create, Attach, AddServiceSet, Classify, Fail,
       WindowPasses, Merge, Copied, vars, tableVars

(* What holds of one observation's evidence and choice. *)
Evidence(o) ==
    /\ pc[o] = "match" =>
          \A i \in Strong[o] \ todo[o] :
              unmatched[o] \/ \E a \in matches[o] : <<a, i>> \in strongRows
    /\ chosen[o] \notin {o, Nobody} => \A i \in Strong[o] : <<chosen[o], i>> \in strongRows

(* It is kept while its resolution neither looks up nor decides.           *)
LEMMA EvidenceStays ==
    ASSUME NEW o \in Observations, Evidence(o), strongRows \subseteq strongRows',
           pc'[o] = "match" => /\ pc[o] = "match" /\ todo'[o] = todo[o]
                               /\ unmatched'[o] = unmatched[o] /\ matches'[o] = matches[o],
           chosen'[o] \in {chosen[o], o}
    PROVE  Evidence(o)'
BY DEF Evidence

(* Nothing has been looked up at first. *)
LEMMA InitEvidenceInv == Init => EvidenceInv
BY IdentityAssumption DEF Init, EvidenceInv, EvidenceSound, AttachOnlyOnAgreement

(* A resolution attaches evidence to another asset only when that asset is *)
(* the single match of identifiers that were all found.                    *)
LEMMA NextEvidenceInv == TypeInv /\ EvidenceInv /\ [Next]_vars => EvidenceInv'
<1> SUFFICES ASSUME TypeInv, EvidenceInv, [Next]_vars, NEW p \in Observations
             PROVE  Evidence(p)'
  BY DEF EvidenceInv, EvidenceSound, AttachOnlyOnAgreement, Evidence
<1>p. Evidence(p)
  BY DEF EvidenceInv, EvidenceSound, AttachOnlyOnAgreement, Evidence
<1>r. strongRows \subseteq strongRows'
  BY RowsStay
<1> USE DEF TypeInv, TypeOK, At, Goto, tableVars, resolveVars, Assets
<1>1. ASSUME NEW o \in Observations, NEW i \in StrongIds, LookUp(o, i) PROVE Evidence(p)'
  <2>1. CASE o # p
    BY <1>1, <1>p, <1>r, <2>1, EvidenceStays DEF LookUp
  <2>2. CASE o = p
    <3>1. /\ pc[p] = "match" /\ UNCHANGED <<strongRows, chosen>>
          /\ todo'[p] = todo[p] \ {i}
          /\ matches'[p] = matches[p] \cup Holders(i)
          /\ unmatched'[p] = (unmatched[p] \/ Holders(i) = {})
      BY <1>1, <2>2 DEF LookUp
    <3>2. unmatched'[p] \/ \E a \in matches'[p] : <<a, i>> \in strongRows
      BY <3>1 DEF Holders
    <3>3. \A k \in Strong[p] \ todo[p] :
             unmatched'[p] \/ \E a \in matches'[p] : <<a, k>> \in strongRows
      BY <3>1, <1>p DEF Evidence
    <3>4. QED
      BY <3>1, <3>2, <3>3, <1>p DEF Evidence
  <2>3. QED
    BY <2>1, <2>2
<1>2. ASSUME NEW o \in Observations, NEW i \in StrongIds, AddStrong(o, i) PROVE Evidence(p)'
  BY <1>2, <1>p, <1>r, EvidenceStays DEF AddStrong
<1>3. ASSUME NEW o \in Observations, Decide(o) PROVE Evidence(p)'
  <2>1. CASE o # p
    BY <1>3, <1>p, <1>r, <2>1, EvidenceStays DEF Decide
  <2>2. CASE o = p
    <3> DEFINE found == IF Strong[p] = {} /\ ServiceSet[p] # NoSet
                          THEN Continuity(p) ELSE matches[p]
    <3>1. pc[p] = "match" /\ todo[p] = {} /\ pc'[p] # "match" /\ UNCHANGED strongRows
      BY <1>3, <2>2 DEF Decide
    <3>2. CASE chosen' = chosen
      BY <3>1, <3>2, <1>p DEF Evidence
    <3>3. CASE chosen' # chosen
      <4>1. Agrees(p, found) /\ \E a \in found : chosen' = [chosen EXCEPT ![p] = a]
        BY <1>3, <2>2, <3>3 DEF Decide
      <4>2. CASE Strong[p] = {}
        BY <3>1, <4>2 DEF Evidence
      <4>3. CASE Strong[p] # {}
        <5>1. found = matches[p] /\ ~unmatched[p] /\ Cardinality(matches[p]) = 1
          BY <4>1, <4>3 DEF Agrees
        <5>2. IsFiniteSet(matches[p])
          BY IdentityAssumption, FS_Subset
        <5>3. PICK a : matches[p] = {a}
          BY <5>1, <5>2, FS_Singleton
        <5>4. chosen'[p] = a
          BY <4>1, <5>1, <5>3
        <5>5. \A i \in Strong[p] : <<a, i>> \in strongRows
          BY <3>1, <5>1, <5>3, <1>p DEF Evidence
        <5>6. QED
          BY <3>1, <5>4, <5>5 DEF Evidence
      <4>4. QED
        BY <4>2, <4>3
    <3>4. QED
      BY <3>2, <3>3
  <2>3. QED
    BY <2>1, <2>2
<1>4. ASSUME NEW o \in Observations, Create(o) PROVE Evidence(p)'
  BY <1>4, <1>p, <1>r, EvidenceStays DEF Create
<1>5. ASSUME NEW o \in Observations, Attach(o) PROVE Evidence(p)'
  BY <1>5, <1>p, <1>r, EvidenceStays DEF Attach
<1>6. ASSUME NEW o \in Observations, AddServiceSet(o) \/ Classify(o) \/ Fail(o)
      PROVE  Evidence(p)'
  BY <1>6, <1>p, <1>r, EvidenceStays DEF AddServiceSet, Classify, Fail, Calling
<1>7. ASSUME NEW row \in setRows, WindowPasses(row) PROVE Evidence(p)'
  BY <1>7, <1>p, <1>r, EvidenceStays DEF WindowPasses
<1>8. ASSUME NEW source \in Assets, NEW target \in Assets, Merge(source, target)
      PROVE  Evidence(p)'
  BY <1>8, <1>p, <1>r, EvidenceStays DEF Merge
<1>9. CASE UNCHANGED vars
  BY <1>9, <1>p, <1>r, EvidenceStays DEF vars
<1>10. QED
  BY <1>1, <1>2, <1>3, <1>4, <1>5, <1>6, <1>7, <1>8, <1>9 DEF Next, Resolve

-----------------------------------------------------------------------------
(* The identifiers of an asset. *)

(* There is no row at first. *)
LEMMA InitOwn == Init => OwnIdentifiers
BY DEF Init, OwnIdentifiers

(* Evidence adds to an asset it did not create no row that is new.         *)
LEMMA NextOwn == TypeInv /\ EvidenceInv /\ OwnIdentifiers /\ [Next]_vars => OwnIdentifiers'
<1> SUFFICES ASSUME TypeInv, EvidenceInv, OwnIdentifiers, [Next]_vars PROVE OwnIdentifiers'
  OBVIOUS
<1> USE IdentityAssumption
<1> USE DEF TypeInv, TypeOK, At, Goto, tableVars, resolveVars, Assets, OwnIdentifiers, NoMergeYet
<1>s. ASSUME UNCHANGED <<strongRows, mergedInto>> PROVE OwnIdentifiers'
  BY <1>s
<1>1. ASSUME NEW o \in Observations, NEW i \in StrongIds, AddStrong(o, i)
      PROVE  OwnIdentifiers'
  <2>1. /\ strongRows' = strongRows \cup {<<chosen[o], i>>} /\ UNCHANGED mergedInto
        /\ chosen[o] \in Observations
    BY <1>1 DEF AddStrong, ChosenShape, HasChosen
  <2>2. i \in Strong[o]
    BY <1>1 DEF AddStrong, ChosenShape
  <2>3. chosen[o] = o \/ <<chosen[o], i>> \in strongRows
    BY <2>1, <2>2 DEF EvidenceInv, AttachOnlyOnAgreement
  <2>4. QED
    BY <2>1, <2>2, <2>3
<1>2. ASSUME NEW source \in Assets, NEW target \in Assets, Merge(source, target)
      PROVE  OwnIdentifiers'
  <2>1. mergedInto'[source] = target /\ target # Nobody
    BY <1>2 DEF Merge
  <2>2. QED
    BY <2>1
<1>3. ASSUME NEW o \in Observations,
             \/ \E i \in StrongIds : LookUp(o, i)
             \/ Decide(o) \/ Create(o) \/ Attach(o) \/ AddServiceSet(o) \/ Classify(o) \/ Fail(o)
      PROVE  OwnIdentifiers'
  BY <1>3, <1>s DEF LookUp, Decide, Create, Attach, AddServiceSet, Classify, Fail
<1>4. ASSUME NEW row \in setRows, WindowPasses(row) PROVE OwnIdentifiers'
  BY <1>4, <1>s DEF WindowPasses
<1>5. CASE UNCHANGED vars
  BY <1>5, <1>s DEF vars
<1>6. QED
  BY <1>1, <1>2, <1>3, <1>4, <1>5 DEF Next, Resolve
-----------------------------------------------------------------------------
(* Links. *)

(* Nothing is attached at first. *)
LEMMA InitLinkSound == Init => LinkSound
BY DEF Init, LinkSound, Linked

(* An observation is attached once, and moves with a merge. *)
LEMMA NextLinkSound == TypeInv /\ LinkSound /\ [Next]_vars => LinkSound'
<1> SUFFICES ASSUME TypeInv, LinkSound, [Next]_vars PROVE LinkSound'
  OBVIOUS
<1> USE DEF TypeInv, TypeOK, At, Goto, tableVars, resolveVars, Assets
<1>s. ASSUME NEW o \in Observations, UNCHANGED links,
             \A p \in Observations : p # o => pc'[p] = pc[p],
             \/ pc'[o] = pc[o] \/ pc'[o] = "failed"
             \/ pc[o] \in {"match", "create"} /\ pc'[o] \in {"create", "attach"}
             \/ pc[o] \in {"serviceSet", "identify"} /\ pc'[o] \in {"identify", "done"}
      PROVE  LinkSound'
  BY <1>s DEF LinkSound, Linked
<1>1. ASSUME NEW o \in Observations, Attach(o) PROVE LinkSound'
  <2>1. /\ links' = links \cup {<<chosen[o], o>>} /\ chosen[o] \in Assets
        /\ pc' = [pc EXCEPT ![o] = "serviceSet"] /\ pc[o] = "attach"
    BY <1>1 DEF Attach, ChosenShape, HasChosen
  <2>2. Linked(o)' = {chosen[o]}
    BY <2>1 DEF LinkSound, Linked
  <2>3. \A p \in Observations : p # o => Linked(p)' = Linked(p) /\ pc'[p] = pc[p]
    BY <2>1 DEF Linked
  <2>4. pc'[o] = "serviceSet"
    BY <2>1
  <2>5. QED
    BY <2>1, <2>2, <2>3, <2>4 DEF LinkSound
<1>2. ASSUME NEW source \in Assets, NEW target \in Assets, Merge(source, target)
      PROVE  LinkSound'
  <2>1. /\ links' = LinksMoved(source, target) /\ source # target /\ UNCHANGED pc
    BY <1>2 DEF Merge
  <2>2. \A o \in Observations :
           Linked(o)' = (Linked(o) \ {source}) \cup (IF source \in Linked(o) THEN {target} ELSE {})
    BY <2>1 DEF LinksMoved, Copied, Linked
  <2>3. \A o \in Observations : Linked(o) = {} => Linked(o)' = {}
    BY <2>2
  <2>4. \A o \in Observations, a \in Assets :
           Linked(o) = {a} => Linked(o)' = IF a = source THEN {target} ELSE {a}
    BY <2>1, <2>2
  <2>5. QED
    BY <2>1, <2>3, <2>4 DEF LinkSound
<1>3. ASSUME NEW o \in Observations, NEW i \in StrongIds, LookUp(o, i) \/ AddStrong(o, i)
      PROVE  LinkSound'
  BY <1>3, <1>s DEF LookUp, AddStrong
<1>4. ASSUME NEW o \in Observations, Decide(o) PROVE LinkSound'
  BY <1>4, <1>s DEF Decide
<1>5. ASSUME NEW o \in Observations,
             Create(o) \/ AddServiceSet(o) \/ Classify(o) \/ Fail(o)
      PROVE  LinkSound'
  BY <1>5, <1>s DEF Create, AddServiceSet, Classify, Fail
<1>6. ASSUME NEW row \in setRows, WindowPasses(row) PROVE LinkSound'
  BY <1>6 DEF WindowPasses, LinkSound, Linked
<1>7. CASE UNCHANGED vars
  BY <1>7 DEF vars, LinkSound, Linked
<1>8. QED
  BY <1>1, <1>2, <1>3, <1>4, <1>5, <1>6, <1>7 DEF Next, Resolve

-----------------------------------------------------------------------------
(* Weak evidence. *)

(* Whatever was closed under the merges of a state that has one merge more *)
(* is closed under those before it.                                        *)
LEMMA ClosureShrinks ==
    ASSUME TypeOK, [Next]_vars, NEW S \in SUBSET Assets, ClosedUnderMerges(S)'
    PROVE  ClosedUnderMerges(S)
<1>1. \A b \in Assets : mergedInto[b] # Nobody => mergedInto'[b] = mergedInto[b]
  <2>1. ASSUME NEW source \in Assets, NEW target \in Assets, Merge(source, target)
        PROVE  \A b \in Assets : mergedInto[b] # Nobody => mergedInto'[b] = mergedInto[b]
    <3>1. mergedInto' = [mergedInto EXCEPT ![source] = target] /\ mergedInto[source] = Nobody
      BY <2>1 DEF Merge, BothUnmerged, Unmerged
    <3>2. QED
      BY <3>1 DEF TypeOK
  <2>2. ASSUME NEW o \in Observations, Resolve(o) PROVE UNCHANGED mergedInto
    BY <2>2 DEF Resolve, LookUp, AddStrong, Decide, Create, Attach, AddServiceSet, Classify, Fail,
                tableVars
  <2>3. ASSUME NEW row \in setRows, WindowPasses(row) PROVE UNCHANGED mergedInto
    BY <2>3 DEF WindowPasses
  <2>4. CASE UNCHANGED vars
    BY <2>4 DEF vars, tableVars
  <2>5. QED
    BY <2>1, <2>2, <2>3, <2>4 DEF Next
<1>2. QED
  BY <1>1 DEF ClosedUnderMerges

(* Assets merged stay so. *)
LEMMA FamilyGrows ==
    ASSUME TypeOK, [Next]_vars, NEW a, NEW b \in Family(a)
    PROVE  b \in Family(a)'
<1>1. b \in Assets /\ \A S \in SUBSET Assets : ClosedUnderMerges(S) /\ a \in S => b \in S
  BY DEF Family
<1>2. \A S \in SUBSET Assets : ClosedUnderMerges(S)' => ClosedUnderMerges(S)
  BY ClosureShrinks
<1>3. QED
  BY <1>1, <1>2 DEF Family

(* An asset is of its own family. *)
LEMMA FamilyHasSelf == ASSUME NEW a \in Assets PROVE a \in Family(a)
BY DEF Family

(* An observation that joined an asset stays joined to it, as it moves     *)
(* with the merges.                                                        *)
LEMMA JoinedStays ==
    ASSUME TypeOK, [Next]_vars, NEW p, NEW a, Joined(p, a)
    PROVE  Joined(p, a)'
<1>1. PICK b \in Linked(p) : b \in Family(a)
  BY DEF Joined
<1>2. b \in Family(a)'
  BY <1>1, FamilyGrows
<1>3. CASE links \subseteq links'
  BY <1>1, <1>2, <1>3 DEF Joined, Linked
<1>4. ASSUME NEW source \in Assets, NEW target \in Assets, Merge(source, target)
      PROVE  Joined(p, a)'
  <2>1. /\ links' = LinksMoved(source, target) /\ source # target /\ target # Nobody
        /\ mergedInto' = [mergedInto EXCEPT ![source] = target]
    BY <1>4, IdentityAssumption DEF Merge, Assets
  <2>2. CASE b # source
    <3>1. b \in Linked(p)'
      BY <1>1, <2>1, <2>2 DEF Linked, LinksMoved, Copied
    <3>2. QED
      BY <1>2, <3>1 DEF Joined
  <2>3. CASE b = source
    <3>1. target \in Linked(p)'
      BY <1>1, <2>1, <2>3 DEF Linked, LinksMoved, Copied
    <3>2. mergedInto'[source] = target
      BY <2>1 DEF TypeOK
    <3>3. \A S \in SUBSET Assets : ClosedUnderMerges(S)' /\ source \in S => target \in S
      BY <2>1, <3>2 DEF ClosedUnderMerges
    <3>4. target \in Family(a)'
      BY <1>2, <2>3, <3>3 DEF Family
    <3>5. QED
      BY <3>1, <3>4 DEF Joined
  <2>4. QED
    BY <2>2, <2>3
<1>5. ASSUME NEW o \in Observations, Resolve(o) PROVE links \subseteq links'
  BY <1>5 DEF Resolve, LookUp, AddStrong, Decide, Create, Attach, AddServiceSet, Classify, Fail,
              tableVars
<1>6. ASSUME NEW row \in setRows, WindowPasses(row) PROVE links \subseteq links'
  BY <1>6 DEF WindowPasses
<1>7. CASE UNCHANGED vars
  BY <1>7, <1>3 DEF vars, tableVars
<1>8. QED
  BY <1>3, <1>4, <1>5, <1>6, <1>7 DEF Next

(* What joined the source of a merge has joined its target. *)
LEMMA JoinedAfterMerge ==
    ASSUME TypeOK, NEW source \in Assets, NEW target \in Assets, Merge(source, target),
           NEW p, Joined(p, source)
    PROVE  Joined(p, target)'
<1>1. [Next]_vars
  BY DEF Next
<1>2. PICK b \in Linked(p)' : b \in Family(source)'
  BY <1>1, JoinedStays DEF Joined
<1>3. mergedInto'[source] = target /\ target # Nobody
  BY IdentityAssumption DEF Merge, TypeOK, Assets
<1>4. \A S \in SUBSET Assets : ClosedUnderMerges(S)' /\ target \in S => source \in S
  BY <1>3 DEF ClosedUnderMerges
<1>5. b \in Family(target)'
  BY <1>2, <1>4 DEF Family
<1>6. QED
  BY <1>2, <1>5 DEF Joined

(* An observation that got past its service set stays so. *)
LEMMA SawSetStays == ASSUME TypeOK, [Next]_vars, NEW p \in Observations, SawSet(p) PROVE SawSet(p)'
<1> USE DEF SawSet, TypeOK, At, Goto, tableVars, resolveVars, Calling
<1>1. ASSUME NEW o \in Observations, Resolve(o) PROVE SawSet(p)'
  <2>1. CASE \E i \in StrongIds : LookUp(o, i) \/ AddStrong(o, i)
    BY <2>1 DEF LookUp, AddStrong
  <2>2. CASE Decide(o)
    BY <2>2 DEF Decide
  <2>3. CASE Create(o) \/ Attach(o) \/ AddServiceSet(o) \/ Classify(o) \/ Fail(o)
    BY <2>3 DEF Create, Attach, AddServiceSet, Classify, Fail
  <2>4. QED
    BY <1>1, <2>1, <2>2, <2>3 DEF Resolve
<1>2. ASSUME NEW row \in setRows, WindowPasses(row) PROVE SawSet(p)'
  BY <1>2 DEF WindowPasses
<1>3. ASSUME NEW source \in Assets, NEW target \in Assets, Merge(source, target) PROVE SawSet(p)'
  BY <1>3 DEF Merge
<1>4. CASE UNCHANGED vars
  BY <1>4 DEF vars
<1>5. QED
  BY <1>1, <1>2, <1>3, <1>4 DEF Next

(* Support stays with the steps. *)
LEMMA SupportStays ==
    ASSUME TypeOK, [Next]_vars, NEW a
    PROVE  /\ \A e : ByAddress(e, a) => ByAddress(e, a)'
           /\ \A s : ByServices(s, a) => ByServices(s, a)'
BY JoinedStays, SawSetStays DEF ByAddress, ByServices

(* No support is there at first, nor any need of it. *)
LEMMA InitWeak == Init => WeakInv
<1> SUFFICES ASSUME Init PROVE WeakInv
  OBVIOUS
<1>1. PICK made \in Arrivals :
         pc = [o \in Observations |-> IF o \in made THEN "match" ELSE "none"]
  BY DEF Init
<1>2. QED
  BY <1>1 DEF Init, WeakInv, ContinuityInv, WeakNeedsServiceSet

(* Every step keeps that rows stem from observations that joined. *)
LEMMA NextContinuity == TypeInv /\ ContinuityInv /\ [Next]_vars => ContinuityInv'
<1> SUFFICES ASSUME TypeInv, ContinuityInv, [Next]_vars PROVE ContinuityInv'
  OBVIOUS
<1>t. TypeOK /\ ChosenShape
  BY DEF TypeInv
<1>s. ASSUME \A o \in Observations : Strong[o] = {} /\ pc'[o] = "match" =>
                 pc[o] = "match" /\ matches'[o] = matches[o],
             \A o \in Observations : pc'[o] = "serviceSet" =>
                 Joined(o, chosen[o])' \/ (pc[o] = "serviceSet" /\ chosen'[o] = chosen[o]),
             \A row \in addressRows' : row \in addressRows \/ ByAddress(row[2], row[1])',
             \A row \in setRows' : row \in setRows \/ ByServices(row[2], row[1])'
      PROVE  ContinuityInv'
  <2>1. \A o \in Observations : Strong[o] = {} /\ pc'[o] = "match" => matches'[o] = {}
    BY <1>s DEF ContinuityInv
  <2>2. \A o \in Observations : pc'[o] = "serviceSet" => Joined(o, chosen[o])'
    BY <1>s, <1>t, JoinedStays DEF ContinuityInv
  <2>3. \A row \in addressRows' : ByAddress(row[2], row[1])'
    BY <1>s, <1>t, SupportStays DEF ContinuityInv
  <2>4. \A row \in setRows' : ByServices(row[2], row[1])'
    BY <1>s, <1>t, SupportStays DEF ContinuityInv
  <2>5. QED
    BY <2>1, <2>2, <2>3, <2>4 DEF ContinuityInv
<1> USE DEF At, Goto, tableVars, resolveVars, Calling
<1>1. ASSUME NEW o \in Observations, NEW i \in StrongIds, LookUp(o, i) \/ AddStrong(o, i)
      PROVE  ContinuityInv'
  <2>1. UNCHANGED <<pc, chosen, addressRows, setRows>>
    BY <1>1 DEF LookUp, AddStrong
  <2>2. \A q \in Observations : Strong[q] = {} => matches'[q] = matches[q]
    BY <1>1, <1>t DEF LookUp, AddStrong, ChosenShape, TypeOK
  <2>3. QED
    BY <1>s, <2>1, <2>2
<1>2. ASSUME NEW o \in Observations, Decide(o) PROVE ContinuityInv'
  <2>1. /\ UNCHANGED <<addressRows, setRows>>
        /\ pc' = [pc EXCEPT ![o] = "create"] \/ pc' = [pc EXCEPT ![o] = "attach"]
        /\ \A q \in Observations \ {o} : matches'[q] = matches[q] /\ chosen'[q] = chosen[q]
    BY <1>2, <1>t DEF Decide, TypeOK
  <2>2. /\ \A q \in Observations \ {o} : pc'[q] = pc[q]
        /\ pc'[o] \in {"create", "attach"}
    BY <2>1, <1>t DEF TypeOK
  <2>3. QED
    BY <1>s, <2>1, <2>2
<1>3. ASSUME NEW o \in Observations, Create(o) \/ Classify(o) \/ Fail(o) PROVE ContinuityInv'
  <2>1. UNCHANGED <<addressRows, setRows, matches>>
    BY <1>3 DEF Create, Classify, Fail
  <2>2. /\ \A q \in Observations \ {o} : pc'[q] = pc[q] /\ chosen'[q] = chosen[q]
        /\ pc'[o] \in {"attach", "done", "failed"}
    BY <1>3, <1>t DEF Create, Classify, Fail, TypeOK
  <2>3. QED
    BY <1>s, <2>1, <2>2
<1>4. ASSUME NEW o \in Observations, Attach(o) PROVE ContinuityInv'
  <2>1. /\ pc[o] = "attach" /\ pc' = [pc EXCEPT ![o] = "serviceSet"]
        /\ links' = links \cup {<<chosen[o], o>>}
        /\ addressRows' = addressRows \cup {<<chosen[o], Endpoint[o]>>}
        /\ UNCHANGED <<matches, chosen, setRows>>
    BY <1>4 DEF Attach
  <2>2. chosen[o] \in Assets
    BY <1>t, <2>1 DEF ChosenShape, HasChosen
  <2>3. PICK a : a = chosen[o]
    OBVIOUS
  <2>4. Joined(o, a)'
    <3>1. a \in Linked(o)'
      BY <2>1, <2>2, <2>3 DEF Linked
    <3>2. a \in Family(a)'
      BY <2>2, <2>3 DEF Family
    <3>3. QED
      BY <3>1, <3>2 DEF Joined
  <2>5. ByAddress(Endpoint[o], a)'
    BY <2>4 DEF ByAddress
  <2>6. /\ \A q \in Observations \ {o} : pc'[q] = pc[q]
        /\ pc'[o] = "serviceSet" /\ chosen'[o] = a
    BY <1>t, <2>1, <2>3 DEF TypeOK
  <2>7. \A row \in addressRows' : row \in addressRows \/ (row[1] = a /\ row[2] = Endpoint[o])
    BY <2>1, <2>3
  <2>8. QED
    BY <1>s, <2>1, <2>4, <2>5, <2>6, <2>7
<1>5. ASSUME NEW o \in Observations, AddServiceSet(o) PROVE ContinuityInv'
  <2>1. /\ pc[o] = "serviceSet" /\ pc' = [pc EXCEPT ![o] = "identify"]
        /\ UNCHANGED <<matches, chosen, addressRows, links>>
        /\ \A row \in setRows' : row \in setRows \/ row = <<chosen[o], ServiceSet[o]>>
    BY <1>5 DEF AddServiceSet
  <2>2. PICK a : a = chosen[o]
    OBVIOUS
  <2>3. Joined(o, a)'
    BY <1>t, <2>1, <2>2, JoinedStays DEF ContinuityInv
  <2>4. SawSet(o)' /\ \A q \in Observations \ {o} : pc'[q] = pc[q]
    BY <1>t, <2>1 DEF SawSet, TypeOK
  <2>5. ByServices(ServiceSet[o], a)'
    BY <2>3, <2>4 DEF ByServices
  <2>6. \A row \in setRows' : row \in setRows \/ (row[1] = a /\ row[2] = ServiceSet[o])
    BY <2>1, <2>2
  <2>7. pc'[o] = "identify"
    BY <1>t, <2>1 DEF TypeOK
  <2>8. QED
    BY <1>s, <2>1, <2>4, <2>5, <2>6, <2>7
<1>6. ASSUME NEW row \in setRows, WindowPasses(row) PROVE ContinuityInv'
  BY <1>6, <1>s DEF WindowPasses
<1>7. ASSUME NEW source \in Assets, NEW target \in Assets, Merge(source, target)
      PROVE  ContinuityInv'
  <2>1. /\ addressRows' = Copied(addressRows, source, target)
        /\ setRows' = Copied(setRows, source, target)
        /\ UNCHANGED <<pc, matches, chosen>>
    BY <1>7 DEF Merge
  <2>2. \A p : Joined(p, source) => Joined(p, target)'
    BY <1>7, <1>t, JoinedAfterMerge
  <2>3. ASSUME NEW row \in addressRows' PROVE row \in addressRows \/ ByAddress(row[2], row[1])'
    <3>1. SUFFICES ASSUME row \notin addressRows PROVE ByAddress(row[2], row[1])'
      OBVIOUS
    <3>2. PICK r \in addressRows : r[1] = source /\ row = <<target, r[2]>>
      BY <2>1, <2>3, <3>1 DEF Copied
    <3>3. PICK p \in Observations : Joined(p, source) /\ Endpoint[p] = r[2]
      BY <3>2 DEF ContinuityInv, ByAddress
    <3>4. Joined(p, target)' /\ row[1] = target /\ row[2] = Endpoint[p]
      BY <2>2, <3>2, <3>3
    <3>5. QED
      BY <3>4 DEF ByAddress
  <2>4. ASSUME NEW row \in setRows' PROVE row \in setRows \/ ByServices(row[2], row[1])'
    <3>1. SUFFICES ASSUME row \notin setRows PROVE ByServices(row[2], row[1])'
      OBVIOUS
    <3>2. PICK r \in setRows : r[1] = source /\ row = <<target, r[2]>>
      BY <2>1, <2>4, <3>1 DEF Copied
    <3>3. PICK p \in Observations : SawSet(p) /\ Joined(p, source) /\ ServiceSet[p] = r[2]
      BY <3>2 DEF ContinuityInv, ByServices
    <3>4. Joined(p, target)' /\ row[1] = target /\ row[2] = ServiceSet[p] /\ SawSet(p)'
      BY <2>1, <2>2, <3>2, <3>3 DEF SawSet
    <3>5. QED
      BY <3>4 DEF ByServices
  <2>5. QED
    BY <1>s, <2>1, <2>3, <2>4
<1>8. CASE UNCHANGED vars
  BY <1>8, <1>s DEF vars
<1>9. QED
  BY <1>1, <1>2, <1>3, <1>4, <1>5, <1>6, <1>7, <1>8 DEF Next, Resolve

(* Weak evidence chooses only an asset that continuity supports.           *)
LEMMA NextWeak ==
    TypeInv /\ LinkSound /\ ContinuityInv /\ WeakNeedsServiceSet /\ [Next]_vars => WeakNeedsServiceSet'
<1> DEFINE Supported(o, a) ==
             /\ \E p \in Observations \ {o} : Joined(p, a) /\ Endpoint[p] = Endpoint[o]
             /\ \E p \in Observations \ {o} :
                   Joined(p, a) /\ ServiceSet[p] = ServiceSet[o] /\ SawSet(p)
<1>d. WeakNeedsServiceSet <=> \A o \in Observations :
        Strong[o] = {} /\ chosen[o] \notin {o, Nobody} => Supported(o, chosen[o])
  BY DEF WeakNeedsServiceSet, SawSet
<1>e. WeakNeedsServiceSet' <=> \A o \in Observations :
        Strong[o] = {} /\ chosen'[o] \notin {o, Nobody} => Supported(o, chosen[o])'
  BY DEF WeakNeedsServiceSet, SawSet
<1> SUFFICES ASSUME TypeInv, LinkSound, ContinuityInv, WeakNeedsServiceSet, [Next]_vars,
                    NEW o \in Observations, Strong[o] = {}, chosen'[o] \notin {o, Nobody}
             PROVE  Supported(o, chosen[o])'
  BY <1>e
<1>t. TypeOK /\ ChosenShape
  BY DEF TypeInv
<1>s. ASSUME NEW a, Supported(o, a) PROVE Supported(o, a)'
  BY <1>s, <1>t, JoinedStays, SawSetStays
<1>k. ASSUME chosen'[o] = chosen[o] PROVE Supported(o, chosen[o])'
  <2>1. PICK a : a = chosen[o]
    OBVIOUS
  <2>2. Supported(o, a)
    BY <1>d, <1>k, <2>1
  <2>3. Supported(o, a)'
    BY <1>s, <2>2
  <2>4. a = chosen'[o]
    BY <1>k, <2>1
  <2>5. QED
    BY <2>3, <2>4
<1> USE DEF At, Goto, tableVars, resolveVars
<1>1. ASSUME Decide(o) PROVE Supported(o, chosen[o])'
  <2> DEFINE found == IF Strong[o] = {} /\ ServiceSet[o] # NoSet THEN Continuity(o) ELSE matches[o]
  <2>1. CASE chosen' = chosen
    BY <1>k, <2>1
  <2>2. CASE chosen' # chosen
    <3>1. pc[o] = "match" /\ \E a \in found : chosen' = [chosen EXCEPT ![o] = a]
      BY <1>1, <2>2 DEF Decide
    <3>2. PICK a \in found : chosen' = [chosen EXCEPT ![o] = a]
      BY <3>1
    <3>3. a \in Continuity(o)
      BY <3>1, <3>2 DEF ContinuityInv
    <3>4. ByAddress(Endpoint[o], a) /\ ByServices(ServiceSet[o], a)
      <4>1. <<a, Endpoint[o]>> \in addressRows /\ <<a, ServiceSet[o]>> \in setRows
        BY <3>3 DEF Continuity
      <4>2. PICK row : row = <<a, Endpoint[o]>>
        OBVIOUS
      <4>3. PICK shown : shown = <<a, ServiceSet[o]>>
        OBVIOUS
      <4>4. ByAddress(row[2], row[1]) /\ ByServices(shown[2], shown[1])
        BY <4>1, <4>2, <4>3 DEF ContinuityInv
      <4>5. row[1] = a /\ row[2] = Endpoint[o] /\ shown[1] = a /\ shown[2] = ServiceSet[o]
        BY <4>2, <4>3
      <4>6. QED
        BY <4>4, <4>5
    <3>5. ~Joined(o, a)
      BY <3>1 DEF LinkSound, Joined
    <3>6. Supported(o, a)
      BY <3>4, <3>5 DEF ByAddress, ByServices
    <3>7. Supported(o, a)'
      BY <1>s, <3>6
    <3>8. chosen'[o] = a
      BY <1>t, <3>2 DEF TypeOK
    <3>9. QED
      BY <3>7, <3>8
  <2>3. QED
    BY <2>1, <2>2
<1>2. ASSUME NEW p \in Observations, p # o, Decide(p) PROVE chosen'[o] = chosen[o]
  BY <1>2, <1>t DEF Decide, TypeOK
<1>3. ASSUME NEW p \in Observations, Create(p) PROVE chosen'[o] = chosen[o]
  BY <1>3, <1>t DEF Create, TypeOK
<1>4. ASSUME NEW p \in Observations,
             \/ \E i \in StrongIds : LookUp(p, i) \/ AddStrong(p, i)
             \/ Attach(p) \/ AddServiceSet(p) \/ Classify(p) \/ Fail(p)
      PROVE  chosen'[o] = chosen[o]
  BY <1>4 DEF LookUp, AddStrong, Attach, AddServiceSet, Classify, Fail
<1>5. ASSUME NEW row \in setRows, WindowPasses(row) PROVE chosen'[o] = chosen[o]
  BY <1>5 DEF WindowPasses
<1>6. ASSUME NEW source \in Assets, NEW target \in Assets, Merge(source, target)
      PROVE  chosen'[o] = chosen[o]
  BY <1>6 DEF Merge
<1>7. CASE UNCHANGED vars
  BY <1>7, <1>k DEF vars
<1> HIDE DEF Supported
<1>8. QED
  BY <1>1, <1>2, <1>3, <1>4, <1>5, <1>6, <1>7, <1>k DEF Next, Resolve

-----------------------------------------------------------------------------
(* The theorems. *)

(* The inductive invariant holds at first, and every step keeps it. *)
LEMMA InitIInv == Init => IInv
BY InitTypeInv, InitEvidenceInv, InitOwn, InitLinkSound DEF IInv
LEMMA NextIInv == IInv /\ [Next]_vars => IInv'
BY NextTypeInv, NextEvidenceInv, NextOwn, NextLinkSound DEF IInv

(* It holds in every reachable state. *)
THEOREM Invariance == Spec => []IInv
BY InitIInv, NextIInv, PTL DEF Spec

(* Every variable keeps its type. *)
THEOREM TypeCorrect == Spec => []TypeOK
<1>1. IInv => TypeOK
  BY DEF IInv, TypeInv
<1>2. QED
  BY <1>1, Invariance, PTL

(* Strong evidence joins an asset it did not create only when that asset   *)
(* holds all of it.                                                        *)
THEOREM AttachesOnAgreement == Spec => []AttachOnlyOnAgreement
<1>1. IInv => AttachOnlyOnAgreement
  BY DEF IInv, EvidenceInv
<1>2. QED
  BY <1>1, Invariance, PTL

(* No asset comes to hold two strong identifiers of a kind before a merge. *)
THEOREM OneIdentifierPerKind == Spec => []OneIdPerKind
<1>1. IInv => OneIdPerKind
  <2> SUFFICES ASSUME IInv, NoMergeYet, NEW a \in Assets, NEW i \in StrongIds, NEW k \in StrongIds,
                      <<a, i>> \in strongRows, <<a, k>> \in strongRows, KindOf[i] = KindOf[k]
               PROVE  i = k
    BY DEF OneIdPerKind, NoMergeYet
  <2>1. i \in Strong[a] /\ k \in Strong[a]
    BY DEF IInv, OwnIdentifiers
  <2>2. QED
    BY <2>1, IdentityAssumption DEF Assets
<1>2. QED
  BY <1>1, Invariance, PTL

(* An attached observation belongs to one asset, through every merge. *)
THEOREM ObservationsLinkedOnce == Spec => []LinkedOnce
<1>1. IInv => LinkedOnce
  <2>1. \A a : Cardinality({a}) = 1
    BY FS_Singleton
  <2>2. QED
    BY <2>1 DEF IInv, LinkSound, LinkedOnce
<1>2. QED
  BY <1>1, Invariance, PTL

(* Weak evidence joins only an asset that was seen at its address and      *)
(* showed its service set, itself or as one merged with it                 *)
(* (FindContinuityAssets).                                                 *)
THEOREM WeakEvidenceNeedsServices == Spec => []WeakNeedsServiceSet
<1>1. IInv /\ WeakInv /\ [Next]_vars => WeakInv'
  BY NextContinuity, NextWeak DEF IInv, WeakInv
<1>2. WeakInv => WeakNeedsServiceSet
  BY DEF WeakInv
<1>3. QED
  BY InitWeak, <1>1, <1>2, Invariance, PTL DEF Spec
=============================================================================
