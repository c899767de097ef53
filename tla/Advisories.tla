----------------------------- MODULE Advisories -----------------------------
(***************************************************************************)
(* internal/findings: how strong a finding an advisory and the identity of *)
(* an asset support. An asset is its classification with the firmware; an  *)
(* advisory names a vendor, a product family and the firmware it affects.  *)
(* Names are compared case-insensitively, so they are values here.         *)
(***************************************************************************)
CONSTANT Unknown   \* an empty vendor, product family or firmware

(* A slip: the vendor alone makes a finding likely.                        *)
CorrelateByVendor(adv, e) ==
  IF e.vendor # adv.vendor THEN "none" ELSE "likely"

(* Correlate; "none" stands for its errors.                                *)
Correlate(adv, e) ==
  LET versionConfirmed == e.productConfirmed /\ e.firmware # Unknown /\ e.versionInRange
  IN  IF e.vendor # adv.vendor \/ adv.vendor = Unknown THEN "none"
      ELSE IF e.safeValidated
           THEN IF versionConfirmed THEN "safely_validated" ELSE "none"
      ELSE IF versionConfirmed THEN "version_confirmed"
      ELSE IF e.productConfirmed /\ e.family = adv.family THEN "likely"
      ELSE "potential"

(* The evidence Engine.Evaluate makes of an asset: nothing it knows of     *)
(* validates safely.                                                       *)
EvidenceOf(adv, a) ==
  LET confirmed == a.family # Unknown /\ a.family = adv.family
  IN  [vendor |-> a.vendor, family |-> a.family, firmware |-> a.firmware,
       productConfirmed |-> confirmed,
       versionInRange |-> confirmed /\ a.firmware # Unknown /\ a.firmware \in adv.affected,
       safeValidated |-> FALSE]

Finding(adv, a) == Correlate(adv, EvidenceOf(adv, a))
=============================================================================
