----------------------------- MODULE MCIdentity -----------------------------
(* Instances of Identity for TLC. *)
EXTENDS Identity, TLC

CONSTANTS o1, o2, o3, o4, w1, w2, w3, m1, m2, s1, home, away, web, mail

Three == {o1, o2, o3}
ThreeTogether == {Three}

(* Two addresses of kind mac and one serial number. *)
Kinds == [i \in {m1, m2, s1} |-> IF i = s1 THEN "serial_number" ELSE "mac"]

(* A machine seen twice, whole and in part, and a stranger that shows its  *)
(* serial number with another mac.                                         *)
Contradicting == (o1 :> {m1, s1}) @@ (o2 :> {m1}) @@ (o3 :> {m2, s1})

(* These three; or a strong sighting and two weak ones of its services; or *)
(* three weak sightings: the second shares only the address with the first, *)
(* the third only the services.  The first joins another one only when an  *)
(* operator has merged the other two.                                      *)
Together == {Three, {o4, w1, w3}, {w1, w2, w3}}

All == UNION Together

StrongOfAll == Contradicting @@ (o4 :> {m1}) @@ [o \in {w1, w2, w3} |-> {}]

EndpointOfAll == [o \in All |-> IF o = w3 THEN away ELSE home]

ServicesOfAll == (w2 :> mail) @@ [o \in {o4, w1, w3} |-> web] @@ [o \in Three |-> NoSet]

(* A machine known by its mac, another by its serial number, and the first *)
(* one again.                                                              *)
MacAndSerial == (o1 :> {m1}) @@ (o2 :> {s1}) @@ (o3 :> {m1})

OneEndpoint == [o \in Three |-> home]

NoServices == [o \in Three |-> NoSet]
=============================================================================
