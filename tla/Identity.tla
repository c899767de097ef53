------------------------------- MODULE Identity -------------------------------
(***************************************************************************)
(* Asset identity: Resolver.Resolve of internal/assets/resolver.go over    *)
(* the asset tables of internal/storage/sqlite/store.go, run by concurrent *)
(* scan workers and imports, beside operators who merge assets by hand.    *)
(* Resolve is a sequence of separate store calls, so every call is a step; *)
(* any call can fail, and Resolve then returns with what it has written.   *)
(* MergeAssets is one transaction whose first write is refused when        *)
(* anything was committed after its reads: one step, or no effect.         *)
(*                                                                         *)
(* A batch of observations of one endpoint is one observation, and an      *)
(* asset is named after the observation that created it.  Left out:        *)
(* timestamps (the 30 minute window is the action WindowPasses), reasons,  *)
(* audit rows and the classification itself.                               *)
(***************************************************************************)
EXTENDS Naturals, FiniteSets

CONSTANTS Observations,
          Arrivals,      \* which of them are made together
          StrongIds,     \* values of mac, serial_number, agent_enrollment_id, ...
          KindOf,        \* the kind of each strong identifier
          Strong,        \* the strong identifiers each observation supplies
          Endpoint,      \* the address each observation was made at
          ServiceSet,    \* its service-set fingerprint, or NoSet
          NoSet,
          Nobody         \* merged_into IS NULL, no asset chosen

ASSUME IdentityAssumption ==
    /\ IsFiniteSet(Observations)
    /\ Strong \in [Observations -> SUBSET StrongIds]
    /\ Nobody \notin Observations
    /\ Arrivals \subseteq SUBSET Observations
    /\ \A o \in Observations : \A i, k \in Strong[o] :
          KindOf[i] = KindOf[k] => i = k

Assets == Observations

VARIABLES
    status,      \* assets.status, "absent" while there is no row
    ambiguous,   \* assets.ambiguous
    mergedInto,  \* assets.merged_into
    strongRows,  \* asset_identifiers: <<asset, identifier>>
    setRows,     \* ... of kind service_set, seen in the window: <<asset, set>>
    addressRows, \* asset_addresses: <<asset, address>>
    links,       \* asset_observations: <<asset, observation>>
    pc,          \* where Resolve is for each observation
    todo,        \* strong identifiers still to look up, or to store
    matches,     \* assets found so far
    unmatched,   \* some strong identifier was found nowhere
    chosen,      \* result.AssetID
    conflict     \* result.Conflict

tableVars   == <<status, ambiguous, mergedInto, strongRows, setRows, addressRows, links>>
resolveVars == <<pc, todo, matches, unmatched, chosen, conflict>>
vars == <<tableVars, resolveVars>>

TypeOK ==
    /\ status \in [Assets -> {"absent", "active", "identity_conflict", "merged"}]
    /\ ambiguous \in [Assets -> BOOLEAN]
    /\ mergedInto \in [Assets -> Assets \cup {Nobody}]
    /\ strongRows \subseteq Assets \X StrongIds
    /\ setRows \subseteq {<<a, ServiceSet[o]>> : a \in Assets, o \in Observations}
    /\ addressRows \subseteq {<<a, Endpoint[o]>> : a \in Assets, o \in Observations}
    /\ links \subseteq Assets \X Observations
    /\ pc \in [Observations -> {"none", "match", "create", "attach",
                                "serviceSet", "identify", "done", "failed"}]
    /\ todo \in [Observations -> SUBSET StrongIds]
    /\ matches \in [Observations -> SUBSET Assets]
    /\ unmatched \in [Observations -> BOOLEAN]
    /\ chosen \in [Observations -> Assets \cup {Nobody}]
    /\ conflict \in [Observations -> BOOLEAN]

Init ==
    /\ status = [a \in Assets |-> "absent"]
    /\ ambiguous = [a \in Assets |-> FALSE]
    /\ mergedInto = [a \in Assets |-> Nobody]
    /\ strongRows = {}
    /\ setRows = {}
    /\ addressRows = {}
    /\ links = {}
    /\ \E made \in Arrivals :
          pc = [o \in Observations |-> IF o \in made THEN "match" ELSE "none"]
    /\ todo = Strong
    /\ matches = [o \in Observations |-> {}]
    /\ unmatched = [o \in Observations |-> FALSE]
    /\ chosen = [o \in Observations |-> Nobody]
    /\ conflict = [o \in Observations |-> FALSE]

At(o, place)   == pc[o] = place
Goto(o, place) == pc' = [pc EXCEPT ![o] = place]

-----------------------------------------------------------------------------
(* FindAssetsByIdentifier: merged assets are found too. *)
Holders(i) == {a \in Assets : <<a, i>> \in strongRows}

LookUp(o, i) ==
    /\ At(o, "match")
    /\ i \in todo[o]
    /\ todo' = [todo EXCEPT ![o] = @ \ {i}]
    /\ matches' = [matches EXCEPT ![o] = @ \cup Holders(i)]
    /\ unmatched' = [unmatched EXCEPT ![o] = @ \/ Holders(i) = {}]
    /\ UNCHANGED <<tableVars, pc, chosen, conflict>>

(* A slip: continuity on the service set alone. *)
ContinuityByServices(o) ==
    {a \in Assets : mergedInto[a] = Nobody /\ <<a, ServiceSet[o]>> \in setRows}

(* FindContinuityAssets: unmerged assets seen at this address that showed  *)
(* this service set within the window, at any address.                     *)
Continuity(o) ==
    {a \in Assets : /\ mergedInto[a] = Nobody
                    /\ <<a, Endpoint[o]>> \in addressRows
                    /\ <<a, ServiceSet[o]>> \in setRows}

(* A slip: identifiers found nowhere do not matter. *)
AgreesPartly(o, found) == Cardinality(found) = 1

(* What the evidence gathered for o says.  Continuity is asked only when   *)
(* no strong identifier was supplied.                                      *)
Agrees(o, found) == ~unmatched[o] /\ Cardinality(found) = 1

(* The switch of Resolve: one agreed asset is chosen, anything else makes  *)
(* a new one, in conflict unless nothing matched at all.                   *)
Decide(o) ==
    /\ At(o, "match")
    /\ todo[o] = {}
    /\ LET found == IF Strong[o] = {} /\ ServiceSet[o] # NoSet
                      THEN Continuity(o) ELSE matches[o]
       IN  /\ IF Agrees(o, found)
                THEN /\ Goto(o, "attach")
                     /\ \E a \in found : chosen' = [chosen EXCEPT ![o] = a]
                ELSE /\ Goto(o, "create")
                     /\ UNCHANGED chosen
           /\ matches' = [matches EXCEPT ![o] = found]
           /\ conflict' = [conflict EXCEPT ![o] = found # {} /\ ~Agrees(o, found)]
    /\ UNCHANGED <<tableVars, todo, unmatched>>

(* CreateAsset *)
Create(o) ==
    /\ At(o, "create")
    /\ status' = [status EXCEPT ![o] =
                    IF conflict[o] THEN "identity_conflict" ELSE "active"]
    /\ ambiguous' = [ambiguous EXCEPT ![o] = conflict[o]]
    /\ chosen' = [chosen EXCEPT ![o] = o]
    /\ Goto(o, "attach")
    /\ UNCHANGED <<mergedInto, strongRows, setRows, addressRows, links,
                   todo, matches, unmatched, conflict>>

(* AttachObservation: one transaction of three writes; the last makes the  *)
(* asset 'active' whatever it was.                                         *)
Attach(o) ==
    /\ At(o, "attach")
    /\ links' = links \cup {<<chosen[o], o>>}
    /\ addressRows' = addressRows \cup {<<chosen[o], Endpoint[o]>>}
    /\ status' = [status EXCEPT ![chosen[o]] = "active"]
    /\ todo' = [todo EXCEPT ![o] = Strong[o]]
    /\ Goto(o, "serviceSet")
    /\ UNCHANGED <<ambiguous, mergedInto, strongRows, setRows,
                   matches, unmatched, chosen, conflict>>

(* AddIdentifier, one identifier at a time: the service set comes first in *)
(* the list that ingestBatch builds ...                                    *)
AddServiceSet(o) ==
    /\ At(o, "serviceSet")
    /\ setRows' = IF ServiceSet[o] = NoSet
                    THEN setRows
                    ELSE setRows \cup {<<chosen[o], ServiceSet[o]>>}
    /\ Goto(o, "identify")
    /\ UNCHANGED <<status, ambiguous, mergedInto, strongRows, addressRows,
                   links, todo, matches, unmatched, chosen, conflict>>

(* ... the strong identifiers follow. *)
AddStrong(o, i) ==
    /\ At(o, "identify")
    /\ i \in todo[o]
    /\ strongRows' = strongRows \cup {<<chosen[o], i>>}
    /\ todo' = [todo EXCEPT ![o] = @ \ {i}]
    /\ UNCHANGED <<status, ambiguous, mergedInto, setRows, addressRows, links,
                   pc, matches, unmatched, chosen, conflict>>

(* ingestBatch goes on to UpdateClassification when some rule matched: the *)
(* ambiguous column becomes that of the candidates.                        *)
Classify(o) ==
    /\ At(o, "identify")
    /\ todo[o] = {}
    /\ \/ \E b \in BOOLEAN : ambiguous' = [ambiguous EXCEPT ![chosen[o]] = b]
       \/ UNCHANGED ambiguous
    /\ Goto(o, "done")
    /\ UNCHANGED <<status, mergedInto, strongRows, setRows, addressRows, links,
                   todo, matches, unmatched, chosen, conflict>>

Calling == {"match", "create", "attach", "serviceSet", "identify"}

(* A slip: the error of a lookup is ignored. *)
FailIgnored(o) ==
    /\ pc[o] \in Calling
    /\ Goto(o, IF pc[o] = "match" THEN "attach" ELSE "failed")
    /\ UNCHANGED <<tableVars, todo, matches, unmatched, chosen, conflict>>

(* A store call fails: Resolve returns, what was written stays. *)
Fail(o) ==
    /\ pc[o] \in Calling
    /\ Goto(o, "failed")
    /\ UNCHANGED <<tableVars, todo, matches, unmatched, chosen, conflict>>

(* Thirty minutes without this service set. *)
WindowPasses(row) ==
    /\ row \in setRows
    /\ setRows' = setRows \ {row}
    /\ UNCHANGED <<status, ambiguous, mergedInto, strongRows, addressRows,
                   links, resolveVars>>

-----------------------------------------------------------------------------
Unmerged(a) == status[a] # "absent" /\ mergedInto[a] = Nobody

(* "both active assets must exist" *)
BothUnmerged(source, target) == Unmerged(source) /\ Unmerged(target)

(* "strong identifier conflict for ..." *)
Compatible(source, target) ==
    \A i, k \in StrongIds :
        <<source, i>> \in strongRows /\ <<target, k>> \in strongRows
        /\ KindOf[i] = KindOf[k] => i = k

(* Rows of the target after those of the source were copied to it. *)
Copied(rows, source, target) ==
    rows \cup {<<target, row[2]>> : row \in {r \in rows : r[1] = source}}

LinksMoved(source, target) ==
    {r \in Copied(links, source, target) : r[1] # source}

(* MergeAssets.  Identifier and address rows are copied and those of the   *)
(* source stay; observations move.                                         *)
Merge(source, target) ==
    /\ source # target
    /\ BothUnmerged(source, target)
    /\ Compatible(source, target)
    /\ mergedInto' = [mergedInto EXCEPT ![source] = target]
    /\ status' = [status EXCEPT ![source] = "merged"]
    /\ strongRows' = Copied(strongRows, source, target)
    /\ setRows' = Copied(setRows, source, target)
    /\ addressRows' = Copied(addressRows, source, target)
    /\ links' = LinksMoved(source, target)
    /\ UNCHANGED <<ambiguous, resolveVars>>

Resolve(o) ==
    \/ \E i \in StrongIds : LookUp(o, i) \/ AddStrong(o, i)
    \/ Decide(o)
    \/ Create(o)
    \/ Attach(o)
    \/ AddServiceSet(o)
    \/ Classify(o)
    \/ Fail(o)

Next ==
    \/ \E o \in Observations : Resolve(o)
    \/ \E row \in setRows : WindowPasses(row)
    \/ \E source, target \in Assets : Merge(source, target)

Spec == Init /\ [][Next]_vars

-----------------------------------------------------------------------------
Linked(o) == {a \in Assets : <<a, o>> \in links}

(* Evidence with strong identifiers joins an asset it did not create only  *)
(* when that asset holds every one of them: no interleaving of scans,      *)
(* failures and merges attaches it on part of them or on weak evidence.    *)
AttachOnlyOnAgreement ==
    \A o \in Observations :
        chosen[o] \notin {o, Nobody} =>
            \A i \in Strong[o] : <<chosen[o], i>> \in strongRows

(* Until the first merge, no asset holds two strong identifiers of a kind, *)
(* whatever fails and however the resolutions interleave.                  *)
OneIdPerKind ==
    (\A a \in Assets : mergedInto[a] = Nobody) =>
        \A a \in Assets, i, k \in StrongIds :
            <<a, i>> \in strongRows /\ <<a, k>> \in strongRows
            /\ KindOf[i] = KindOf[k] => i = k

(* An attached observation belongs to exactly one asset, through failures  *)
(* and through merges that move it.                                        *)
LinkedOnce ==
    \A o \in Observations :
        /\ pc[o] \in {"serviceSet", "identify", "done"} => Cardinality(Linked(o)) = 1
        /\ pc[o] \in {"none", "match", "create"} => Linked(o) = {}

(* The assets that operators have merged with a, a among them: whatever is *)
(* closed under merged_into in both directions and holds a, holds them.    *)
ClosedUnderMerges(S) ==
    \A b \in Assets : mergedInto[b] # Nobody => (b \in S <=> mergedInto[b] \in S)
Family(a) ==
    {b \in Assets : \A S \in SUBSET Assets : ClosedUnderMerges(S) /\ a \in S => b \in S}

(* p was attached to a, or to an asset that is now merged with it.         *)
Joined(p, a) == \E b \in Linked(p) : b \in Family(a)

(* Weak evidence joins an asset only when that asset, or one merged with   *)
(* it, was seen at the same address and showed the same service set; an    *)
(* address alone, or a service set alone, never joins two observations.    *)
WeakNeedsServiceSet ==
    \A o \in Observations :
        Strong[o] = {} /\ chosen[o] \notin {o, Nobody} =>
            /\ \E p \in Observations \ {o} :
                  Joined(p, chosen[o]) /\ Endpoint[p] = Endpoint[o]
            /\ \E p \in Observations \ {o} :
                  /\ Joined(p, chosen[o]) /\ ServiceSet[p] = ServiceSet[o]
                  /\ pc[p] \in {"identify", "done", "failed"}

(* An asset created for conflicting identity says so, by its status or by  *)
(* its ambiguous flag, once its observation is resolved.                   *)
ConflictStaysExplicit ==
    \A o \in Observations :
        pc[o] = "done" /\ conflict[o] =>
            status[o] = "identity_conflict" \/ ambiguous[o]

(* Strong agreement attaches: evidence whose strong identifiers were all   *)
(* found, on assets that an operator has merged into one, is no conflict.  *)
MergedAgreementAttaches ==
    \A o \in Observations :
        pc[o] = "create" /\ conflict[o] /\ ~unmatched[o] =>
            \E a, b \in matches[o] : b \notin Family(a)
=============================================================================
