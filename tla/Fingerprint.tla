----------------------------- MODULE Fingerprint -----------------------------
(***************************************************************************)
(* The scoring of internal/fingerprint/rules.go as functions. Scores are   *)
(* hundredths. An evidence is a stored observation: its source and the     *)
(* field values (facts) it holds. A predicate asks for one fact, from one  *)
(* source or from AnySource; operator, field and value are abstracted into *)
(* the fact. Evidence comes newest first, as ListObservations gives it,    *)
(* and a predicate is credited to the first evidence that matches.         *)
(***************************************************************************)
EXTENDS Integers, Sequences, SequencesExt

CONSTANTS Rules,      \* the loaded rule files, in the order of their names
          AnySource   \* source_type: "" of a predicate

(* A rule lists its predicates, each with a weight.                        *)
ASSUME FingerprintAssumption ==
  \A i \in DOMAIN Rules :
    LET positive == Rules[i].positive
        negative == Rules[i].negative
    IN  /\ positive \in Seq(ToSet(positive)) /\ negative \in Seq(ToSet(negative))
        /\ \A p \in ToSet(positive) \cup ToSet(negative) : p.weight \in Int

SourceCap == 65       \* what one source may contribute
AmbiguityDelta == 10  \* fingerprint.New(.1)

(* matchAny *)
Match(p, e) == p.source \in {AnySource, e.source} /\ p.fact \in e.facts
MatchAny(p, ev) == \E i \in DOMAIN ev : Match(p, ev[i])
CreditedTo(p, ev) ==
  ev[CHOOSE i \in DOMAIN ev :
       Match(p, ev[i]) /\ \A j \in 1..(i - 1) : ~Match(p, ev[j])].source

(* A slip: each predicate is capped, and not what its source adds up to.   *)
CappedEach(used, weight) == Max({0, Min({weight, SourceCap})})

(* What a positive match adds when its source has contributed `used'.      *)
Capped(used, weight) == Max({0, Min({weight, SourceCap - used})})

(* sourceTotals: what each source that matched contributes.                *)
SourceTotals(r, ev) ==
  LET matched == {p \in ToSet(r.positive) : MatchAny(p, ev)}
      credit(acc, p) == IF p \notin matched THEN acc
                        ELSE [acc EXCEPT ![CreditedTo(p, ev)] = @ + Capped(@, p.weight)]
  IN  FoldLeft(credit, [s \in {CreditedTo(p, ev) : p \in matched} |-> 0], r.positive)

Penalty(r, ev) ==
  FoldLeft(LAMBDA acc, p : acc + (IF MatchAny(p, ev) THEN Max({p.weight, -p.weight}) ELSE 0),
           0, r.negative)
DiversityBonus(n) == IF n >= 2 THEN Min({15, 5 * (n - 1)}) ELSE 0
StalePenalty(days) == IF days > 30 THEN Min({25, (25 * days) \div 365}) ELSE 0

(* evaluateRule, on evidence the newest of which is `days' old; a rule that *)
(* scores nothing is no candidate.                                         *)
Score(r, ev, days) ==
  LET parts == SourceTotals(r, ev)
      total == FoldFunction(LAMBDA x, y : x + y, 0, parts) - Penalty(r, ev)
               + DiversityBonus(Cardinality(DOMAIN parts))
               + (IF r.model THEN 5 ELSE 0) - StalePenalty(days)
  IN  IF \A i \in DOMAIN r.required : MatchAny(r.required[i], ev)
      THEN Max({0, Min({100, total})}) ELSE 0

(* Evaluate: the active rules that score, best first, equals in the order  *)
(* of their files (as sort.Slice leaves up to twelve). Evidence of an      *)
(* ingest is new.                                                          *)
Candidates(ev) == {i \in DOMAIN Rules : Rules[i].active /\ Score(Rules[i], ev, 0) > 0}
Top(ev) ==
  LET score == [i \in Candidates(ev) |-> Score(Rules[i], ev, 0)]
  IN  CHOOSE i \in DOMAIN score : \A j \in DOMAIN score \ {i} :
        score[i] > score[j] \/ (score[i] = score[j] /\ i < j)
IsAmbiguous(ev) ==
  \E j \in Candidates(ev) \ {Top(ev)} :
    Score(Rules[Top(ev)], ev, 0) - Score(Rules[j], ev, 0) <= AmbiguityDelta
=============================================================================
