---------------------------- MODULE Install_proofs ----------------------------
(***************************************************************************)
(* Proofs about Install for any processes, commands and migrations, and    *)
(* any number of failing calls and crashes.                                *)
(***************************************************************************)
EXTENDS Install, TLAPS

(* The places a process comes to only when it has the newest schema.       *)
Late == {"count", "insert", "rename", "chmod", "delete", "remove", "revoke", "audit", "done"}

(* Where each command can be.                                              *)
PlaceOfCommand ==
  \A p \in Processes :
    /\ pc[p] \in {"create", "write", "load", "count", "remove"} => Command[p] = "init"
    /\ pc[p] \in {"delete", "revoke", "audit"} => Command[p] = "rotate"
    /\ pc[p] \in {"insert", "rename", "chmod"} => Command[p] # "open"

(* The applied migrations are the first few, each executed once, and a     *)
(* process knows of no others.                                             *)
Prefix == \E k \in 0..Latest : applied = 1..k
ExecutedOnce == \A v \in 1..Latest : ddl[v] = IF v \in applied THEN 1 ELSE 0
KnownApplied == \A p \in Processes : 1..current[p] \subseteq applied
LateIsNewest == \A p \in Processes : pc[p] \in Late => applied = 1..Latest

(* What a process that runs alone has brought about at each place.         *)
SoleCommand(p) == \A q \in Processes : Active(q) => q = p
LonePlace(p) ==
  /\ pc[p] = "load" => config = "whole"
  /\ pc[p] = "migrate" => applied = 1..current[p]
  /\ Command[p] = "init" =>
       /\ pc[p] \in {"rename", "chmod", "insert", "remove"} => Live = {}
       /\ pc[p] \in {"chmod", "insert"} => file = p
  /\ Command[p] = "rotate" =>
       /\ pc[p] \in {"rename", "chmod", "revoke"} => tokens[p] = "live"
       /\ pc[p] \in {"chmod", "revoke", "audit"} => file = p
       /\ pc[p] = "audit" => Live = {p}
LoneSound == \A p \in Processes : Active(p) /\ alone[p] => SoleCommand(p) /\ LonePlace(p)

TypeInv    == TypeOK /\ faults \in Nat /\ PlaceOfCommand
MigrateInv == Prefix /\ ExecutedOnce /\ KnownApplied /\ LateIsNewest
IInv       == TypeInv /\ MigrateInv /\ LoneSound

-----------------------------------------------------------------------------
(* Type correctness. *)

(* The version read is that of the last migration applied. *)
LEMMA VersionOfPrefix ==
  ASSUME NEW k \in Nat, applied = 1..k
  PROVE  Version = k
<1>1. k \in applied \cup {0} /\ \A w \in applied : w <= k
  OBVIOUS
<1>2. \A v \in applied \cup {0} : (\A w \in applied : w <= v) => v = k
  OBVIOUS
<1>3. QED
  BY <1>1, <1>2 DEF Version

(* The initial state is well typed. *)
LEMMA InitTypeInv == Init => TypeInv
BY InstallAssumption DEF Init, TypeInv, TypeOK, PlaceOfCommand, Over

(* Every step keeps the types, and each command its places. *)
LEMMA NextTypeInv == TypeInv /\ Prefix /\ [Next]_vars => TypeInv'
<1> SUFFICES ASSUME TypeInv, Prefix, [Next]_vars PROVE TypeInv'
  OBVIOUS
<1> USE InstallAssumption
<1> USE DEF TypeInv, TypeOK, PlaceOfCommand, Over, Goto, Fault, NoFault, database, bounds
<1>1. ASSUME NEW p \in Processes, Begin(p) PROVE TypeInv'
  BY <1>1 DEF Begin
<1>2. ASSUME NEW p \in Processes, WriteConfig(p) PROVE TypeInv'
  <2>1. faults' \in Nat
    BY <1>2 DEF WriteConfig
  <2>2. TypeOK'
    BY <1>2 DEF WriteConfig
  <2>3. PlaceOfCommand'
    BY <1>2 DEF WriteConfig
  <2>4. QED
    BY <2>1, <2>2, <2>3
<1>3. ASSUME NEW p \in Processes, ReadVersion(p) PROVE TypeInv'
  <2>1. PICK k \in 0..Latest : applied = 1..k
    BY DEF Prefix
  <2>2. Version = k
    BY <2>1, VersionOfPrefix
  <2>3. faults' \in Nat
    BY <1>3 DEF ReadVersion
  <2>4. TypeOK'
    <3>1. current' \in [Processes -> 0..Latest]
      BY <1>3, <2>2 DEF ReadVersion
    <3>2. QED
      BY <1>3, <3>1 DEF ReadVersion
  <2>5. PlaceOfCommand'
    BY <1>3 DEF ReadVersion
  <2>6. QED
    BY <2>3, <2>4, <2>5
<1>4. ASSUME NEW p \in Processes, Migrate(p) PROVE TypeInv'
  <2>1. faults' \in Nat
    BY <1>4 DEF Migrate
  <2>2. TypeOK'
    <3>1. CASE UNCHANGED <<ddl, applied, current>>
      BY <1>4, <3>1 DEF Migrate
    <3>2. CASE ~UNCHANGED <<ddl, applied, current>>
      <4> DEFINE v == current[p] + 1
      <4>1. /\ v \in 1..Latest /\ UNCHANGED <<pc, config, tokens, file, alone>>
            /\ ddl' = [ddl EXCEPT ![v] = @ + 1]
            /\ applied' = applied \cup {v}
            /\ current' = [current EXCEPT ![p] = v]
        BY <1>4, <3>2 DEF Migrate
      <4> HIDE DEF v
      <4>2. ddl[v] + 1 \in Nat
        BY <4>1
      <4>3. ddl' \in [1..Latest -> Nat]
        BY <4>1, <4>2
      <4>4. applied' \subseteq 1..Latest /\ current' \in [Processes -> 0..Latest]
        BY <4>1
      <4>5. QED
        BY <4>1, <4>3, <4>4
    <3>3. QED
      BY <3>1, <3>2
  <2>3. PlaceOfCommand'
    BY <1>4 DEF Migrate
  <2>4. QED
    BY <2>1, <2>2, <2>3
<1>5. ASSUME NEW p \in Processes, Opened(p) PROVE TypeInv'
  <2>1. faults' \in Nat
    BY <1>5 DEF Opened
  <2>2. TypeOK'
    BY <1>5 DEF Opened
  <2>3. PlaceOfCommand'
    BY <1>5 DEF Opened
  <2>4. QED
    BY <2>1, <2>2, <2>3
<1>6. ASSUME NEW p \in Processes, CountTokens(p) PROVE TypeInv'
  <2>1. faults' \in Nat
    BY <1>6 DEF CountTokens
  <2>2. TypeOK'
    BY <1>6 DEF CountTokens
  <2>3. PlaceOfCommand'
    BY <1>6 DEF CountTokens
  <2>4. QED
    BY <2>1, <2>2, <2>3
<1>7. ASSUME NEW p \in Processes, InsertToken(p) PROVE TypeInv'
  <2>1. faults' \in Nat
    BY <1>7 DEF InsertToken
  <2>2. TypeOK'
    BY <1>7 DEF InsertToken
  <2>3. PlaceOfCommand'
    BY <1>7 DEF InsertToken
  <2>4. QED
    BY <2>1, <2>2, <2>3
<1>8. ASSUME NEW p \in Processes, RenameSecret(p) PROVE TypeInv'
  <2>1. faults' \in Nat
    BY <1>8 DEF RenameSecret
  <2>2. TypeOK'
    BY <1>8 DEF RenameSecret, SecretFailed
  <2>3. PlaceOfCommand'
    BY <1>8 DEF RenameSecret, SecretFailed
  <2>4. QED
    BY <2>1, <2>2, <2>3
<1>9. ASSUME NEW p \in Processes, ChmodSecret(p) PROVE TypeInv'
  <2>1. faults' \in Nat
    BY <1>9 DEF ChmodSecret
  <2>2. TypeOK'
    BY <1>9 DEF ChmodSecret, SecretFailed
  <2>3. PlaceOfCommand'
    BY <1>9 DEF ChmodSecret, SecretFailed
  <2>4. QED
    BY <2>1, <2>2, <2>3
<1>10. ASSUME NEW p \in Processes, DeleteToken(p) PROVE TypeInv'
  <2>1. faults' \in Nat
    BY <1>10 DEF DeleteToken
  <2>2. TypeOK'
    BY <1>10 DEF DeleteToken
  <2>3. PlaceOfCommand'
    BY <1>10 DEF DeleteToken
  <2>4. QED
    BY <2>1, <2>2, <2>3
<1>11. ASSUME NEW p \in Processes, RemoveSecret(p) PROVE TypeInv'
  <2>1. faults' \in Nat
    BY <1>11 DEF RemoveSecret
  <2>2. TypeOK'
    BY <1>11 DEF RemoveSecret
  <2>3. PlaceOfCommand'
    BY <1>11 DEF RemoveSecret
  <2>4. QED
    BY <2>1, <2>2, <2>3
<1>12. ASSUME NEW p \in Processes, RevokeOthers(p) PROVE TypeInv'
  <2>1. faults' \in Nat
    BY <1>12 DEF RevokeOthers
  <2>2. TypeOK'
    BY <1>12 DEF RevokeOthers
  <2>3. PlaceOfCommand'
    BY <1>12 DEF RevokeOthers
  <2>4. QED
    BY <2>1, <2>2, <2>3
<1>13. ASSUME NEW p \in Processes, AuditRotation(p) PROVE TypeInv'
  <2>1. faults' \in Nat
    BY <1>13 DEF AuditRotation
  <2>2. TypeOK'
    BY <1>13 DEF AuditRotation
  <2>3. PlaceOfCommand'
    BY <1>13 DEF AuditRotation
  <2>4. QED
    BY <2>1, <2>2, <2>3
<1>14. ASSUME NEW p \in Processes, Stop(p) PROVE TypeInv'
  BY <1>14 DEF Stop
<1>15. CASE UNCHANGED vars
  BY <1>15 DEF vars
<1>16. QED
  BY <1>1, <1>2, <1>3, <1>4, <1>5, <1>6, <1>7, <1>8, <1>9, <1>10, <1>11, <1>12,
     <1>13, <1>14, <1>15 DEF Next, Step

-----------------------------------------------------------------------------
(* Migrations. *)

(* An empty database has no migration. *)
LEMMA InitMigrateInv == Init => MigrateInv
<1> SUFFICES ASSUME Init PROVE MigrateInv
  OBVIOUS
<1>1. applied = 1..0 /\ 0 \in 0..Latest
  BY InstallAssumption DEF Init
<1>2. QED
  BY <1>1, InstallAssumption
     DEF Init, MigrateInv, Prefix, ExecutedOnce, KnownApplied, LateIsNewest, Late

(* A step that leaves the tables of migrate and the versions alone, and    *)
(* takes no process past migrate, keeps what is said of migrations.        *)
LEMMA KeepMigrateInv ==
  ASSUME MigrateInv, TypeInv, UNCHANGED <<applied, ddl, current>>,
         \A p \in Processes : pc'[p] \in Late => pc[p] \in Late \/ applied = 1..Latest
  PROVE  MigrateInv'
BY DEF MigrateInv, Prefix, ExecutedOnce, KnownApplied, LateIsNewest

(* Every step keeps what is said of migrations. *)
LEMMA NextMigrateInv == TypeInv /\ MigrateInv /\ [Next]_vars => MigrateInv'
<1> SUFFICES ASSUME TypeInv, MigrateInv, [Next]_vars PROVE MigrateInv'
  OBVIOUS
<1> USE InstallAssumption
<1> DEFINE Still == UNCHANGED <<applied, ddl, current>>
           LateWas == \A q \in Processes : pc'[q] \in Late => pc[q] \in Late \/ applied = 1..Latest
<1>0. Still /\ LateWas => MigrateInv'
  BY KeepMigrateInv
<1>1. ASSUME NEW p \in Processes, Begin(p) PROVE MigrateInv'
  BY <1>0, <1>1 DEF Begin, Goto, database, Late, TypeInv, TypeOK
<1>2. ASSUME NEW p \in Processes, WriteConfig(p) PROVE MigrateInv'
  BY <1>0, <1>2 DEF WriteConfig, Goto, Fault, database, Late, TypeInv, TypeOK
<1>3. ASSUME NEW p \in Processes, ReadVersion(p) PROVE MigrateInv'
  <2>0. CASE Fault(p, "failed") /\ UNCHANGED current
    BY <1>0, <1>3, <2>0 DEF ReadVersion, Goto, Fault, database, Late, TypeInv, TypeOK
  <2>a. SUFFICES ASSUME ~(Fault(p, "failed") /\ UNCHANGED current) PROVE MigrateInv'
    BY <2>0
  <2>1. PICK k \in 0..Latest : applied = 1..k
    BY DEF MigrateInv, Prefix
  <2>2. Version = k
    BY <2>1, VersionOfPrefix
  <2>3. /\ UNCHANGED <<applied, ddl>> /\ pc' = [pc EXCEPT ![p] = "migrate"]
        /\ current' = [current EXCEPT ![p] = k]
    BY <1>3, <2>a, <2>2 DEF ReadVersion, Goto, database
  <2>4. Prefix' /\ ExecutedOnce'
    BY <2>3 DEF MigrateInv, Prefix, ExecutedOnce
  <2>5. KnownApplied'
    BY <2>1, <2>3 DEF MigrateInv, KnownApplied, TypeInv, TypeOK
  <2>6. LateIsNewest'
    BY <2>3 DEF MigrateInv, LateIsNewest, Late, TypeInv, TypeOK
  <2>7. QED
    BY <2>4, <2>5, <2>6 DEF MigrateInv
<1>4. ASSUME NEW p \in Processes, Migrate(p) PROVE MigrateInv'
  <2>1. CASE UNCHANGED <<ddl, applied, current>>
    BY <1>0, <1>4, <2>1 DEF Migrate, Goto, Fault, Late, TypeInv, TypeOK
  <2>2. CASE ~UNCHANGED <<ddl, applied, current>>
    <3> DEFINE v == current[p] + 1
    <3>1. /\ v \in 1..Latest /\ v \notin applied /\ UNCHANGED pc
          /\ ddl' = [ddl EXCEPT ![v] = @ + 1]
          /\ applied' = applied \cup {v}
          /\ current' = [current EXCEPT ![p] = v]
      BY <1>4, <2>2 DEF Migrate, TypeInv, TypeOK
    <3>2. PICK k \in 0..Latest : applied = 1..k
      BY DEF MigrateInv, Prefix
    <3>3. current[p] \in 0..Latest /\ 1..current[p] \subseteq applied
      BY DEF MigrateInv, KnownApplied, TypeInv, TypeOK
    <3>4. v = k + 1 /\ applied' = 1..v
      BY <3>1, <3>2, <3>3
    <3>5. Prefix'
      BY <3>1, <3>4 DEF Prefix
    <3>6. ExecutedOnce'
      BY <3>1 DEF MigrateInv, ExecutedOnce, TypeInv, TypeOK
    <3>7. KnownApplied'
      BY <3>1, <3>2, <3>4 DEF MigrateInv, KnownApplied, TypeInv, TypeOK
    <3>8. LateIsNewest'
      BY <3>1, <3>2, <3>4 DEF MigrateInv, LateIsNewest
    <3>9. QED
      BY <3>5, <3>6, <3>7, <3>8 DEF MigrateInv
  <2>3. QED
    BY <2>1, <2>2
<1>5. ASSUME NEW p \in Processes, Opened(p) PROVE MigrateInv'
  <2>1. applied = 1..Latest
    BY <1>5 DEF Opened, MigrateInv, Prefix, KnownApplied, TypeInv, TypeOK
  <2>2. QED
    BY <1>0, <1>5, <2>1 DEF Opened, database
<1>6. ASSUME NEW p \in Processes,
             CountTokens(p) \/ InsertToken(p) \/ RenameSecret(p) \/ ChmodSecret(p)
               \/ DeleteToken(p) \/ RemoveSecret(p) \/ RevokeOthers(p) \/ AuditRotation(p)
      PROVE MigrateInv'
  <2>1. Still
    BY <1>6 DEF CountTokens, InsertToken, RenameSecret, ChmodSecret, DeleteToken, RemoveSecret,
                RevokeOthers, AuditRotation, database
  <2>2. pc[p] \in Late /\ \A q \in Processes : q # p => pc'[q] = pc[q]
    BY <1>6 DEF TypeInv, TypeOK, CountTokens, InsertToken, RenameSecret, ChmodSecret, DeleteToken, RemoveSecret,
                RevokeOthers, AuditRotation, Goto, Fault, SecretFailed, Late
  <2>3. LateWas
    BY <2>2
  <2>4. QED
    BY <1>0, <2>1, <2>3
<1>7. ASSUME NEW p \in Processes, Stop(p) PROVE MigrateInv'
  BY <1>0, <1>7 DEF Stop, Goto, database, Late, TypeInv, TypeOK
<1>8. CASE UNCHANGED vars
  BY <1>0, <1>8 DEF vars, database
<1>9. QED
  BY <1>1, <1>2, <1>3, <1>4, <1>5, <1>6, <1>7, <1>8 DEF Next, Step

-----------------------------------------------------------------------------
(* What a command that runs alone has brought about. *)

(* Nothing runs at first. *)
LEMMA InitLoneSound == Init => LoneSound
BY DEF Init, LoneSound, Active

(* The step of a process that was active disturbs no other process that    *)
(* runs alone: there is none.                                              *)
LEMMA OthersUndisturbed ==
  ASSUME LoneSound, TypeInv, NEW p \in Processes, Active(p), UNCHANGED alone,
         \A q \in Processes : q # p => pc'[q] = pc[q],
         alone[p] /\ Active(p)' => LonePlace(p)'
  PROVE  LoneSound'
BY DEF LoneSound, SoleCommand, Active, TypeInv, TypeOK

(* Every step keeps what holds of a command that runs alone. *)
LEMMA NextLoneSound == IInv /\ [Next]_vars => LoneSound'
<1> SUFFICES ASSUME IInv, [Next]_vars PROVE LoneSound'
  OBVIOUS
<1>t. TypeInv /\ LoneSound
  BY DEF IInv
<1> USE InstallAssumption
<1> DEFINE Step1(p) == /\ Active(p) /\ UNCHANGED alone
                       /\ \A q \in Processes : q # p => pc'[q] = pc[q]
                       /\ alone[p] /\ Active(p)' => LonePlace(p)'
<1>0. ASSUME NEW p \in Processes, Step1(p) PROVE LoneSound'
  BY <1>0, <1>t, OthersUndisturbed
<1> HIDE DEF Step1
<1>1. ASSUME NEW p \in Processes, Begin(p) PROVE LoneSound'
  <2>1. pc' = [pc EXCEPT ![p] = pc'[p]] /\ pc'[p] \in {"create", "open", "failed"}
    BY <1>1, <1>t DEF Begin, Goto, TypeInv, TypeOK
  <2>2. alone' = [q \in Processes |-> IF q = p THEN ~\E r \in Processes : Active(r)
                                      ELSE alone[q] /\ ~Active(q)]
    BY <1>1, <1>t DEF Begin, TypeInv, TypeOK
  <2>3. ASSUME NEW q \in Processes, Active(q)', alone'[q] PROVE q = p
    BY <2>1, <2>2, <2>3, <1>t DEF Active, TypeInv, TypeOK
  <2>4. alone'[p] => SoleCommand(p)'
    BY <2>1, <2>2, <1>t DEF SoleCommand, Active, TypeInv, TypeOK
  <2>5. LonePlace(p)'
    BY <2>1 DEF LonePlace
  <2>6. QED
    BY <2>3, <2>4, <2>5 DEF LoneSound
<1>2. ASSUME NEW p \in Processes, WriteConfig(p) PROVE LoneSound'
  <2>1. Step1(p)
    <3>1. /\ Active(p) /\ UNCHANGED alone
          /\ \A q \in Processes : q # p => pc'[q] = pc[q]
      BY <1>2, <1>t DEF WriteConfig, Goto, Fault, Active, Over, TypeInv, TypeOK
    <3>2. ASSUME Active(p)' PROVE LonePlace(p)'
      <4>1. /\ pc'[p] \in {"write", "load", "open"}
            /\ pc'[p] = "load" => config' = "whole"
        BY <1>2, <1>t, <3>2 DEF WriteConfig, Goto, Fault, Active, Over, TypeInv, TypeOK
      <4>2. QED
        BY <4>1 DEF LonePlace
    <3>3. QED
      BY <3>1, <3>2 DEF Step1
  <2>2. QED
    BY <2>1, <1>0
<1>3. ASSUME NEW p \in Processes, ReadVersion(p) PROVE LoneSound'
  <2>1. PICK k \in 0..Latest : applied = 1..k
    BY DEF IInv, MigrateInv, Prefix
  <2>2. Version = k
    BY <2>1, VersionOfPrefix
  <2>3. Step1(p)
    <3>1. /\ Active(p) /\ UNCHANGED alone
          /\ \A q \in Processes : q # p => pc'[q] = pc[q]
      BY <1>3, <1>t DEF ReadVersion, Goto, Fault, Active, Over, TypeInv, TypeOK
    <3>2. ASSUME Active(p)' PROVE LonePlace(p)'
      <4>1. pc'[p] = "migrate" /\ current'[p] = k /\ applied' = applied
        BY <1>3, <1>t, <2>2, <3>2 DEF ReadVersion, Goto, Fault, Active, Over, database, TypeInv, TypeOK
      <4>2. QED
        BY <2>1, <4>1 DEF LonePlace
    <3>3. QED
      BY <3>1, <3>2 DEF Step1
  <2>4. QED
    BY <2>3, <1>0
<1>4. ASSUME NEW p \in Processes, Migrate(p) PROVE LoneSound'
  <2>1. Active(p) /\ UNCHANGED alone /\ \A q \in Processes : q # p => pc'[q] = pc[q]
    BY <1>4, <1>t DEF Migrate, Goto, Fault, Active, Over, TypeInv, TypeOK
  <2>2. ASSUME alone[p], Active(p)' PROVE LonePlace(p)'
    <3>1. applied = 1..current[p]
      BY <1>4, <1>t, <2>1, <2>2 DEF LoneSound, LonePlace, Migrate
    <3>2. /\ pc' = pc /\ pc[p] = "migrate"
          /\ applied' = applied \cup {current[p] + 1}
          /\ current' = [current EXCEPT ![p] = current[p] + 1]
      BY <1>4, <1>t, <2>2 DEF Migrate, Goto, Fault, Active, Over, TypeInv, TypeOK
    <3>3. applied' = 1..current'[p]
      BY <3>1, <3>2, <1>t DEF TypeInv, TypeOK
    <3>4. QED
      BY <3>2, <3>3 DEF LonePlace
  <2>3. QED
    BY <2>1, <2>2, <1>0 DEF Step1
<1>5. ASSUME NEW p \in Processes, Opened(p) PROVE LoneSound'
  <2>1. Active(p) /\ UNCHANGED alone /\ \A q \in Processes : q # p => pc'[q] = pc[q]
    BY <1>5, <1>t DEF Opened, Goto, Fault, Active, Over, TypeInv, TypeOK
  <2>2. /\ pc'[p] \in {"count", "insert", "done", "failed"}
        /\ pc'[p] = "insert" => Command[p] = "rotate"
    BY <1>5, <1>t DEF Opened, Goto, Fault, TypeInv, TypeOK
  <2>3. LonePlace(p)'
    BY <2>2 DEF LonePlace
  <2>4. QED
    BY <2>1, <2>3, <1>0 DEF Step1
<1>6. ASSUME NEW p \in Processes, CountTokens(p) PROVE LoneSound'
  <2>1. Step1(p)
    <3>1. /\ Active(p) /\ UNCHANGED alone
          /\ \A q \in Processes : q # p => pc'[q] = pc[q]
      BY <1>6, <1>t DEF CountTokens, Goto, Fault, Active, Over, TypeInv, TypeOK
    <3>2. ASSUME Active(p)' PROVE LonePlace(p)'
      <4>1. /\ pc[p] = "count" /\ pc'[p] = "rename" /\ Live = {} /\ tokens' = tokens
        BY <1>6, <1>t, <3>2 DEF CountTokens, Goto, Fault, Active, Over, database, TypeInv, TypeOK
      <4>2. Command[p] = "init"
        BY <4>1, <1>t DEF TypeInv, PlaceOfCommand
      <4>3. QED
        BY <4>1, <4>2 DEF LonePlace, Live
    <3>3. QED
      BY <3>1, <3>2 DEF Step1
  <2>2. QED
    BY <2>1, <1>0
<1>7. ASSUME NEW p \in Processes, InsertToken(p) PROVE LoneSound'
  <2>1. Active(p) /\ UNCHANGED alone /\ \A q \in Processes : q # p => pc'[q] = pc[q]
    BY <1>7, <1>t DEF InsertToken, Goto, Fault, Active, Over, TypeInv, TypeOK
  <2>2. ASSUME alone[p], Active(p)' PROVE LonePlace(p)'
    <3>1. LonePlace(p)
      BY <1>7, <1>t, <2>1, <2>2 DEF LoneSound
    <3>2. QED
      BY <1>7, <1>t, <2>2, <3>1
         DEF InsertToken, Goto, Fault, Live, NoFault, LonePlace, Active, Over, database,
             TypeInv, TypeOK, PlaceOfCommand
  <2>3. QED
    BY <2>1, <2>2, <1>0 DEF Step1
<1>8. ASSUME NEW p \in Processes, RenameSecret(p) PROVE LoneSound'
  <2>1. Active(p) /\ UNCHANGED alone /\ \A q \in Processes : q # p => pc'[q] = pc[q]
    BY <1>8, <1>t DEF RenameSecret, Goto, Fault, SecretFailed, Active, Over, TypeInv, TypeOK
  <2>2. ASSUME alone[p], Active(p)' PROVE LonePlace(p)'
    <3>1. LonePlace(p)
      BY <1>8, <1>t, <2>1, <2>2 DEF LoneSound
    <3>2. QED
      BY <1>8, <1>t, <2>2, <3>1
         DEF RenameSecret, Goto, Fault, SecretFailed, NoFault, LonePlace, Active, Over, Live, database,
             TypeInv, TypeOK, PlaceOfCommand
  <2>3. QED
    BY <2>1, <2>2, <1>0 DEF Step1
<1>9. ASSUME NEW p \in Processes, ChmodSecret(p) PROVE LoneSound'
  <2>1. Active(p) /\ UNCHANGED alone /\ \A q \in Processes : q # p => pc'[q] = pc[q]
    BY <1>9, <1>t DEF ChmodSecret, Goto, Fault, SecretFailed, Active, Over, TypeInv, TypeOK
  <2>2. ASSUME alone[p], Active(p)' PROVE LonePlace(p)'
    <3>1. LonePlace(p)
      BY <1>9, <1>t, <2>1, <2>2 DEF LoneSound
    <3>2. QED
      BY <1>9, <1>t, <2>2, <3>1
         DEF ChmodSecret, Goto, Fault, SecretFailed, NoFault, LonePlace, Active, Over, Live, database,
             TypeInv, TypeOK, PlaceOfCommand
  <2>3. QED
    BY <2>1, <2>2, <1>0 DEF Step1
<1>10. ASSUME NEW p \in Processes, DeleteToken(p) PROVE LoneSound'
  <2>1. Active(p) /\ UNCHANGED alone /\ \A q \in Processes : q # p => pc'[q] = pc[q]
    BY <1>10, <1>t DEF DeleteToken, Goto, Fault, Active, Over, TypeInv, TypeOK
  <2>2. ASSUME alone[p], Active(p)' PROVE LonePlace(p)'
    <3>1. LonePlace(p)
      BY <1>10, <1>t, <2>1, <2>2 DEF LoneSound
    <3>2. QED
      BY <1>10, <1>t, <2>2, <3>1
         DEF DeleteToken, Goto, Fault, NoFault, LonePlace, Active, Over, Live, database,
             TypeInv, TypeOK, PlaceOfCommand
  <2>3. QED
    BY <2>1, <2>2, <1>0 DEF Step1
<1>11. ASSUME NEW p \in Processes, RemoveSecret(p) PROVE LoneSound'
  <2>1. Active(p) /\ UNCHANGED alone /\ \A q \in Processes : q # p => pc'[q] = pc[q]
    BY <1>11, <1>t DEF RemoveSecret, Goto, Fault, Active, Over, TypeInv, TypeOK
  <2>2. ASSUME alone[p], Active(p)' PROVE LonePlace(p)'
    <3>1. LonePlace(p)
      BY <1>11, <1>t, <2>1, <2>2 DEF LoneSound
    <3>2. QED
      BY <1>11, <1>t, <2>2, <3>1
         DEF RemoveSecret, Goto, Fault, NoFault, LonePlace, Active, Over, Live, database,
             TypeInv, TypeOK, PlaceOfCommand
  <2>3. QED
    BY <2>1, <2>2, <1>0 DEF Step1
<1>12. ASSUME NEW p \in Processes, RevokeOthers(p) PROVE LoneSound'
  <2>1. Active(p) /\ UNCHANGED alone /\ \A q \in Processes : q # p => pc'[q] = pc[q]
    BY <1>12, <1>t DEF RevokeOthers, Goto, Fault, Active, Over, TypeInv, TypeOK
  <2>2. ASSUME alone[p], Active(p)' PROVE LonePlace(p)'
    <3>1. tokens[p] = "live" /\ file = p /\ Command[p] = "rotate"
      BY <1>12, <1>t, <2>1, <2>2
         DEF LoneSound, LonePlace, RevokeOthers, TypeInv, PlaceOfCommand
    <3>2. /\ pc'[p] = "audit" /\ file' = file
          /\ tokens' = [t \in Processes |-> IF t \in Live \ {p} THEN "revoked" ELSE tokens[t]]
      BY <1>12, <1>t, <2>2
         DEF RevokeOthers, Revoked, Goto, Fault, Active, Over, TypeInv, TypeOK
    <3>3. Live' = {p}
      BY <3>1, <3>2 DEF Live
    <3>4. QED
      BY <3>1, <3>2, <3>3 DEF LonePlace
  <2>3. QED
    BY <2>1, <2>2, <1>0 DEF Step1
<1>13. ASSUME NEW p \in Processes, AuditRotation(p) PROVE LoneSound'
  <2>1. Active(p) /\ UNCHANGED alone /\ \A q \in Processes : q # p => pc'[q] = pc[q]
    BY <1>13, <1>t DEF AuditRotation, Goto, Fault, Active, Over, TypeInv, TypeOK
  <2>2. ASSUME alone[p], Active(p)' PROVE LonePlace(p)'
    <3>1. LonePlace(p)
      BY <1>13, <1>t, <2>1, <2>2 DEF LoneSound
    <3>2. QED
      BY <1>13, <1>t, <2>2, <3>1
         DEF AuditRotation, Goto, Fault, NoFault, LonePlace, Active, Over, Live, database,
             TypeInv, TypeOK, PlaceOfCommand
  <2>3. QED
    BY <2>1, <2>2, <1>0 DEF Step1
<1>14. ASSUME NEW p \in Processes, Stop(p) PROVE LoneSound'
  <2>1. Step1(p)
    BY <1>14, <1>t DEF Step1, Stop, Goto, Active, Over, TypeInv, TypeOK
  <2>2. QED
    BY <2>1, <1>0
<1>15. CASE UNCHANGED vars
  BY <1>15, <1>t DEF vars, database, LoneSound, SoleCommand, LonePlace, Active, Live
<1>16. QED
  BY <1>1, <1>2, <1>3, <1>4, <1>5, <1>6, <1>7, <1>8, <1>9, <1>10, <1>11, <1>12,
     <1>13, <1>14, <1>15 DEF Next, Step

-----------------------------------------------------------------------------
(* The theorems. *)

(* The inductive invariant holds at first. *)
LEMMA InitIInv == Init => IInv
BY InitTypeInv, InitMigrateInv, InitLoneSound DEF IInv

(* Every step keeps it. *)
LEMMA NextIInv == IInv /\ [Next]_vars => IInv'
BY NextTypeInv, NextMigrateInv, NextLoneSound DEF IInv, MigrateInv

(* It holds in every reachable state. *)
THEOREM Invariance == Spec => []IInv
BY InitIInv, NextIInv, PTL DEF Spec

(* Every variable keeps its type. *)
THEOREM TypeCorrect == Spec => []TypeOK
<1>1. IInv => TypeOK
  BY DEF IInv, TypeInv
<1>2. QED
  BY <1>1, Invariance, PTL

(* Every migration is executed once and in order, by any number of         *)
(* processes that open the database together and stop anywhere, and no     *)
(* command goes on with an older schema.                                   *)
THEOREM MigrationsOnce == Spec => []MigratedOnce
<1>1. IInv => MigratedOnce
  <2> SUFFICES ASSUME IInv PROVE MigratedOnce
    OBVIOUS
  <2>1. PICK k \in 0..Latest : applied = 1..k
    BY DEF IInv, MigrateInv, Prefix
  <2>2. \A v \in applied : 1..v \subseteq applied
    BY <2>1
  <2>3. QED
    BY <2>2 DEF IInv, MigrateInv, ExecutedOnce, LateIsNewest, Late, MigratedOnce
<1>2. QED
  BY <1>1, Invariance, PTL

(* A step that changes neither the file nor a token keeps access.          *)
LEMMA AccessUndisturbed ==
  ASSUME Usable, UNCHANGED <<file, tokens>>
  PROVE  Usable'
BY DEF Usable, Live

(* One step of a state that has the invariant keeps access, or a command   *)
(* that overlaps another, or failed at its chmod, takes it.                *)
LEMMA AccessStep ==
  IInv /\ [Next]_vars =>
    (Usable => Usable' \/ \E p \in Processes : Active(p) /\ (~alone[p] \/ pc[p] = "delete"))
<1> SUFFICES ASSUME IInv, [Next]_vars, Usable,
                    \A p \in Processes : Active(p) => alone[p] /\ pc[p] # "delete"
             PROVE  Usable'
  OBVIOUS
<1>t. TypeInv /\ LoneSound
  BY DEF IInv
<1>1. ASSUME NEW p \in Processes, Begin(p) PROVE Usable'
  BY <1>1, AccessUndisturbed DEF Begin, database
<1>2. ASSUME NEW p \in Processes, WriteConfig(p) PROVE Usable'
  BY <1>2, AccessUndisturbed DEF WriteConfig, database
<1>3. ASSUME NEW p \in Processes, ReadVersion(p) PROVE Usable'
  BY <1>3, AccessUndisturbed DEF ReadVersion, database
<1>4. ASSUME NEW p \in Processes, Migrate(p) PROVE Usable'
  BY <1>4, AccessUndisturbed DEF Migrate
<1>5. ASSUME NEW p \in Processes, Opened(p) PROVE Usable'
  BY <1>5, AccessUndisturbed DEF Opened, database
<1>6. ASSUME NEW p \in Processes, CountTokens(p) PROVE Usable'
  BY <1>6, AccessUndisturbed DEF CountTokens, database
<1>7. ASSUME NEW p \in Processes, InsertToken(p) PROVE Usable'
  BY <1>7, <1>t DEF InsertToken, Usable, Live, TypeInv, TypeOK
<1>8. ASSUME NEW p \in Processes, RenameSecret(p) PROVE Usable'
  <2>1. CASE UNCHANGED file
    BY <1>8, <2>1, AccessUndisturbed DEF RenameSecret, database
  <2>2. CASE ~UNCHANGED file
    <3>1. /\ pc[p] = "rename" /\ file' = p /\ UNCHANGED tokens
      BY <1>8, <2>2 DEF RenameSecret, database
    <3>2. LonePlace(p)
      BY <3>1, <1>t DEF LoneSound, Active, Over
    <3>3. Command[p] = "rotate"
      BY <3>1, <3>2, <1>t, InstallAssumption
         DEF LonePlace, Usable, TypeInv, PlaceOfCommand
    <3>4. tokens[p] = "live"
      BY <3>1, <3>2, <3>3 DEF LonePlace
    <3>5. QED
      BY <3>1, <3>4 DEF Usable, Live
  <2>3. QED
    BY <2>1, <2>2
<1>9. ASSUME NEW p \in Processes, ChmodSecret(p) PROVE Usable'
  BY <1>9, AccessUndisturbed DEF ChmodSecret, database
<1>10. ASSUME NEW p \in Processes, DeleteToken(p) PROVE Usable'
  BY <1>10 DEF DeleteToken, Active, Over
<1>11. ASSUME NEW p \in Processes, RemoveSecret(p) PROVE Usable'
  <2>1. pc[p] = "remove" /\ Active(p) /\ Command[p] = "init"
    BY <1>11, <1>t DEF RemoveSecret, Active, Over, TypeInv, PlaceOfCommand
  <2>2. Live = {}
    BY <2>1, <1>t DEF LoneSound, LonePlace
  <2>3. QED
    BY <2>2 DEF Usable
<1>12. ASSUME NEW p \in Processes, RevokeOthers(p) PROVE Usable'
  <2>1. CASE UNCHANGED tokens
    BY <1>12, <2>1, AccessUndisturbed DEF RevokeOthers
  <2>2. CASE ~UNCHANGED tokens
    <3>1. /\ pc[p] = "revoke" /\ UNCHANGED file
          /\ tokens' = [t \in Processes |-> IF t \in Revoked(p) THEN "revoked" ELSE tokens[t]]
      BY <1>12, <2>2 DEF RevokeOthers
    <3>2. file = p /\ tokens[p] = "live"
      BY <3>1, <1>t DEF LoneSound, LonePlace, Active, Over, TypeInv, PlaceOfCommand
    <3>3. QED
      BY <3>1, <3>2 DEF Usable, Live, Revoked
  <2>3. QED
    BY <2>1, <2>2
<1>13. ASSUME NEW p \in Processes, AuditRotation(p) PROVE Usable'
  BY <1>13, AccessUndisturbed DEF AuditRotation, database
<1>14. ASSUME NEW p \in Processes, Stop(p) PROVE Usable'
  BY <1>14, AccessUndisturbed DEF Stop, database
<1>15. CASE UNCHANGED vars
  BY <1>15, AccessUndisturbed DEF vars, database
<1>16. QED
  BY <1>1, <1>2, <1>3, <1>4, <1>5, <1>6, <1>7, <1>8, <1>9, <1>10, <1>11, <1>12,
     <1>13, <1>14, <1>15 DEF Next, Step

(* Only commands that overlap, or a rotation whose chmod failed, can make  *)
(* the token file useless.                                                 *)
THEOREM AccessIsKept == Spec => AccessKept
<1>1. IInv /\ [Next]_vars =>
        [Usable => Usable' \/ \E p \in Processes : Active(p) /\ (~alone[p] \/ pc[p] = "delete")]_vars
  BY AccessStep
<1>2. QED
  BY <1>1, Invariance, PTL DEF Spec, AccessKept

-----------------------------------------------------------------------------
(* Commands that run alone. *)

(* How a command ends well, and how badly.                                 *)
Succeeds(p) ==
  pc'[p] = "done" /\ Command[p] # "open" => file' = p /\ Live' = {p}
Excused(p) ==
  pc'[p] = "failed" /\ faults' = faults =>
    pc[p] \in {"delete", "remove"} \/ (pc[p] = "count" /\ Live # {})

(* One step that ends a command which runs alone ends it as promised.      *)
LEMMA LoneStep ==
  IInv /\ [Next]_vars =>
    \A p \in Processes : Active(p) /\ alone[p] /\ ~Active(p)' => Succeeds(p) /\ Excused(p)
<1> SUFFICES ASSUME IInv, [Next]_vars, NEW p \in Processes, Active(p), alone[p], ~Active(p)'
             PROVE  Succeeds(p) /\ Excused(p)
  OBVIOUS
<1>t. TypeInv /\ MigrateInv /\ SoleCommand(p) /\ LonePlace(p)
  BY DEF IInv, LoneSound
<1>s. Step(p) \/ Stop(p)
  <2>1. PICK q \in Processes : Step(q) \/ Stop(q)
    BY DEF Next, vars, Active
  <2>2. ASSUME q # p PROVE FALSE
    <3>1. ~Active(q)
      BY <1>t, <2>2 DEF SoleCommand
    <3>2. Begin(q)
      BY <3>1, <2>1 DEF Step, Stop, Active, Over, Begin, WriteConfig, ReadVersion, Migrate, Opened,
                        CountTokens, InsertToken, RenameSecret, ChmodSecret, DeleteToken,
                        RemoveSecret, RevokeOthers, AuditRotation
    <3>3. pc'[p] = pc[p]
      BY <3>2, <2>2, <1>t DEF Begin, Goto, TypeInv, TypeOK
    <3>4. QED
      BY <3>3 DEF Active
  <2>3. QED
    BY <2>1, <2>2
<1> USE DEF Succeeds, Excused
<1>1. CASE Begin(p)
  BY <1>1 DEF Begin, Active
<1>2. CASE WriteConfig(p)
  <2>1. pc'[p] # "done"
    BY <1>2, <1>t DEF WriteConfig, Goto, Fault, TypeInv, TypeOK
  <2>2. pc'[p] = "failed" => faults' # faults
    BY <1>2, <1>t DEF WriteConfig, Goto, Fault, LonePlace, TypeInv, TypeOK
  <2>3. QED
    BY <2>1, <2>2
<1>3. CASE ReadVersion(p)
  <2>1. pc'[p] # "done"
    BY <1>3, <1>t DEF ReadVersion, Goto, Fault, TypeInv, TypeOK
  <2>2. pc'[p] = "failed" => faults' # faults
    BY <1>3, <1>t DEF ReadVersion, Goto, Fault, TypeInv, TypeOK
  <2>3. QED
    BY <2>1, <2>2
<1>4. CASE Migrate(p)
  <2>1. ddl[current[p] + 1] = 0 /\ current[p] + 1 \notin applied
    BY <1>4, <1>t DEF Migrate, LonePlace, MigrateInv, ExecutedOnce, TypeInv, TypeOK
  <2>2. pc'[p] # "done"
    BY <1>4, <1>t DEF Migrate, Goto, Fault, TypeInv, TypeOK
  <2>3. pc'[p] = "failed" => faults' # faults
    BY <1>4, <1>t, <2>1 DEF Migrate, Goto, Fault, TypeInv, TypeOK
  <2>4. QED
    BY <2>2, <2>3
<1>5. CASE Opened(p)
  <2>1. pc'[p] = "done" => Command[p] = "open"
    BY <1>5, <1>t, InstallAssumption DEF Opened, Goto, Fault, TypeInv, TypeOK
  <2>2. pc'[p] = "failed" => faults' # faults
    BY <1>5, <1>t DEF Opened, Goto, Fault, TypeInv, TypeOK
  <2>3. QED
    BY <2>1, <2>2
<1>6. CASE CountTokens(p)
  <2>1. pc'[p] # "done"
    BY <1>6, <1>t DEF CountTokens, Goto, Fault, TypeInv, TypeOK
  <2>2. pc'[p] = "failed" => faults' # faults \/ (pc[p] = "count" /\ Live # {})
    BY <1>6, <1>t DEF CountTokens, Goto, Fault, TypeInv, TypeOK
  <2>3. QED
    BY <2>1, <2>2
<1>7. CASE InsertToken(p)
  <2>1. pc'[p] = "failed" => faults' # faults
    BY <1>7, <1>t DEF InsertToken, Goto, Fault, TypeInv, TypeOK
  <2>2. ASSUME pc'[p] = "done" PROVE file' = p /\ Live' = {p}
    <3>1. Command[p] = "init" /\ pc[p] = "insert" /\ tokens' = [tokens EXCEPT ![p] = "live"]
      BY <1>7, <1>t, <2>2 DEF InsertToken, Goto, Fault, TypeInv, TypeOK
    <3>2. Live = {} /\ file = p
      BY <3>1, <1>t DEF LonePlace
    <3>3. QED
      BY <1>7, <1>t, <3>1, <3>2 DEF InsertToken, Live, TypeInv, TypeOK
  <2>3. QED
    BY <2>1, <2>2
<1>8. CASE RenameSecret(p)
  BY <1>8, <1>t DEF RenameSecret, SecretFailed, Goto, Fault, TypeInv, TypeOK
<1>9. CASE ChmodSecret(p)
  BY <1>9, <1>t DEF ChmodSecret, SecretFailed, Goto, Fault, TypeInv, TypeOK
<1>10. CASE DeleteToken(p)
  BY <1>10, <1>t DEF DeleteToken, Goto, Fault, TypeInv, TypeOK
<1>11. CASE RemoveSecret(p)
  BY <1>11, <1>t DEF RemoveSecret, Goto, Fault, TypeInv, TypeOK
<1>12. CASE RevokeOthers(p)
  BY <1>12, <1>t DEF RevokeOthers, Goto, Fault, TypeInv, TypeOK
<1>13. CASE AuditRotation(p)
  <2>1. file' = p /\ Live' = {p}
    BY <1>13, <1>t DEF AuditRotation, LonePlace, Live, database, TypeInv, PlaceOfCommand
  <2>2. pc'[p] = "failed" => faults' # faults
    BY <1>13, <1>t DEF AuditRotation, Goto, Fault, TypeInv, TypeOK
  <2>3. QED
    BY <2>1, <2>2
<1>14. CASE Stop(p)
  BY <1>14, <1>t DEF Stop, Goto, TypeInv, TypeOK
<1>15. QED
  BY <1>s, <1>1, <1>2, <1>3, <1>4, <1>5, <1>6, <1>7, <1>8, <1>9, <1>10, <1>11, <1>12,
     <1>13, <1>14 DEF Step

(* A command that runs alone leaves one token, its own, in the file when   *)
(* it says it succeeded, and once begun fails only with a call of its own. *)
THEOREM LoneCommandsWork == Spec => LoneCommandWorks
<1>1. IInv /\ [Next]_vars =>
        [\A p \in Processes : Active(p) /\ alone[p] /\ ~Active(p)' =>
           /\ pc'[p] = "done" /\ Command[p] # "open" => file' = p /\ Live' = {p}
           /\ pc'[p] = "failed" /\ faults' = faults =>
                pc[p] \in {"delete", "remove"} \/ (pc[p] = "count" /\ Live # {})]_vars
  BY LoneStep DEF Succeeds, Excused
<1>2. QED
  BY <1>1, Invariance, PTL DEF Spec, LoneCommandWorks
=============================================================================
