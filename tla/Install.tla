------------------------------- MODULE Install -------------------------------
(***************************************************************************)
(* Commands that open an installation: `init' (main.go, config.Write,      *)
(* auth.Bootstrap), `token rotate' (auth.Rotate) and the ones that only    *)
(* open the store, as `serve' does (openApp, sqlite.Open, migrate). They   *)
(* share a configuration file, the database and data/admin.token, which no *)
(* lock spans: every statement, transaction and file operation is a step,  *)
(* and a process may stop between two of them. The subject is that the     *)
(* installation stays usable; browser sessions are left out.               *)
(***************************************************************************)
EXTENDS Integers, FiniteSets

CONSTANTS Processes,
          Command,     \* what each process runs: "init", "rotate" or "open"
          Latest,      \* the newest migration
          NoToken,
          Workloads    \* bounds: which commands are run, failing calls, crashes

ASSUME InstallAssumption ==
  /\ Latest \in Nat
  /\ Command \in [Processes -> {"init", "rotate", "open"}]
  /\ NoToken \notin Processes

VARIABLES
  pc,
  current,   \* migrate: the version a process has come to
  config,    \* the configuration file: os.WriteFile truncates, then writes
  applied,   \* rows of schema_migrations
  ddl,       \* how often the statements of a migration were executed
  tokens,    \* auth_tokens; a token has the name of the process that made it
  file,      \* whose token data/admin.token holds
  alone,     \* history: no other command ran while this one did
  load, faults, crashes

database == <<applied, ddl, tokens>>
bounds == <<load, faults, crashes>>
vars == <<pc, current, config, database, file, alone, bounds>>

Over == {"done", "failed", "stopped"}
Active(p) == pc[p] \notin {"idle"} \cup Over
Live == {t \in Processes : tokens[t] = "live"}
Usable == file \in Live

Init ==
  /\ pc = [p \in Processes |-> "idle"]
  /\ current = [p \in Processes |-> 0]
  /\ config = "none"
  /\ applied = {}
  /\ ddl = [v \in 1..Latest |-> 0]
  /\ tokens = [t \in Processes |-> "none"]
  /\ file = NoToken
  /\ alone = [p \in Processes |-> TRUE]
  /\ load \in Workloads /\ faults = 0 /\ crashes = 0

Goto(p, stage) == pc' = [pc EXCEPT ![p] = stage]
NoFault == UNCHANGED faults
(* A call fails and the process goes on at `stage'.                        *)
Fault(p, stage) == faults < load.maxFaults /\ faults' = faults + 1 /\ Goto(p, stage)

-----------------------------------------------------------------------------
(* os.Stat by init, which refuses an installation that exists; config.Load *)
(* by the others, which needs one.                                         *)
Begin(p) ==
  /\ pc[p] = "idle" /\ p \in load.run
  /\ Goto(p, CASE Command[p] = "init" /\ config = "none" -> "create"
               [] Command[p] # "init" /\ config = "whole" -> "open"
               [] OTHER -> "failed")
  /\ LET others == {q \in Processes : Active(q)}
     IN  alone' = [q \in Processes |-> IF q = p THEN others = {} ELSE alone[q] /\ q \notin others]
  /\ UNCHANGED <<current, config, database, file, bounds>>

(* config.Write, whose error may come before or after its bytes, then      *)
(* config.Load of what is there by then.                                   *)
WriteConfig(p) ==
  /\ \/ pc[p] = "create" /\ NoFault /\ config' = "partial" /\ Goto(p, "write")
     \/ pc[p] = "create" /\ Fault(p, "failed") /\ UNCHANGED config
     \/ pc[p] = "write" /\ NoFault /\ config' = "whole" /\ Goto(p, "load")
     \/ pc[p] = "write" /\ Fault(p, "failed") /\ config' \in {config, "whole"}
     \/ pc[p] = "load" /\ NoFault /\ UNCHANGED config
        /\ Goto(p, IF config = "whole" THEN "open" ELSE "failed")
     \/ pc[p] = "load" /\ Fault(p, "failed") /\ UNCHANGED config
  /\ UNCHANGED <<current, database, file, alone, load, crashes>>

(* A slip: the version of an empty table is NULL, not 0.                   *)
VersionOrNull == IF applied = {} THEN -1 ELSE CHOOSE v \in applied : \A w \in applied : w <= v

(* migrate reads the version; Open fails on a database of a newer program. *)
Version == CHOOSE v \in applied \cup {0} : \A w \in applied : w <= v
ReadVersion(p) ==
  /\ pc[p] = "open"
  /\ \/ NoFault /\ current' = [current EXCEPT ![p] = Version] /\ Goto(p, "migrate")
     \/ Fault(p, "failed") /\ UNCHANGED current
  /\ UNCHANGED <<config, database, file, alone, load, crashes>>

(* A slip: statements that tolerate what exists, the version row replaced. *)
MigrateAgain(p) ==
  LET v == current[p] + 1
  IN  /\ pc[p] = "migrate" /\ v <= Latest
      /\ NoFault /\ UNCHANGED pc
      /\ ddl' = [ddl EXCEPT ![v] = @ + 1]
      /\ applied' = applied \cup {v}
      /\ current' = [current EXCEPT ![p] = v]
      /\ UNCHANGED <<config, tokens, file, alone, load, crashes>>

(* One migration with its row is a transaction: its statements fail when   *)
(* another process has executed them since.                                *)
Migrate(p) ==
  LET v == current[p] + 1
  IN  /\ pc[p] = "migrate" /\ v <= Latest
      /\ \/ /\ ddl[v] = 0 /\ v \notin applied
            /\ NoFault /\ UNCHANGED pc
            /\ ddl' = [ddl EXCEPT ![v] = @ + 1]
            /\ applied' = applied \cup {v}
            /\ current' = [current EXCEPT ![p] = v]
         \/ /\ Goto(p, "failed") /\ (ddl[v] > 0 \/ v \in applied) /\ NoFault
            /\ UNCHANGED <<ddl, applied, current>>
         \/ Fault(p, "failed") /\ UNCHANGED <<ddl, applied, current>>
      /\ UNCHANGED <<config, tokens, file, alone, load, crashes>>

(* The rest of Open, and of openApp.                                       *)
Opened(p) ==
  /\ pc[p] = "migrate" /\ current[p] >= Latest
  /\ \/ /\ NoFault
        /\ Goto(p, CASE Command[p] = "init" -> "count" [] Command[p] = "rotate" -> "insert"
                     [] OTHER -> "done")
     \/ Fault(p, "failed")
  /\ UNCHANGED <<current, config, database, file, alone, load, crashes>>

-----------------------------------------------------------------------------
(* Bootstrap counts tokens, and adds its own once the file holds it.       *)
CountTokens(p) ==
  /\ pc[p] = "count"
  /\ \/ NoFault /\ Goto(p, IF Live = {} THEN "rename" ELSE "failed")
     \/ Fault(p, "failed")
  /\ UNCHANGED <<current, config, database, file, alone, load, crashes>>

(* A slip: the new token replaces the others at once, in one transaction.  *)
InsertRevoking(p) ==
  /\ pc[p] = "insert" /\ NoFault
  /\ tokens' = [t \in Processes |-> IF t = p THEN "live"
                                    ELSE IF t \in Live THEN "revoked" ELSE tokens[t]]
  /\ Goto(p, "rename")
  /\ UNCHANGED <<current, config, applied, ddl, file, alone, load, crashes>>

(* Rotate begins with the row of the new token, Bootstrap ends with it.    *)
InsertToken(p) ==
  /\ pc[p] = "insert"
  /\ \/ /\ NoFault /\ tokens' = [tokens EXCEPT ![p] = "live"]
        /\ Goto(p, IF Command[p] = "init" THEN "done" ELSE "rename")
     \/ UNCHANGED tokens /\ Fault(p, IF Command[p] = "init" THEN "remove" ELSE "failed")
  /\ UNCHANGED <<current, config, applied, ddl, file, alone, load, crashes>>

(* writeSecret: the temporary file and the rename ...                      *)
SecretFailed(p) == IF Command[p] = "init" THEN "failed" ELSE "delete"
RenameSecret(p) ==
  /\ pc[p] = "rename"
  /\ \/ NoFault /\ file' = p /\ Goto(p, "chmod")
     \/ Fault(p, SecretFailed(p)) /\ UNCHANGED file
  /\ UNCHANGED <<current, config, database, alone, load, crashes>>

(* ... and the chmod, whose error comes after the file was replaced.       *)
ChmodSecret(p) ==
  /\ pc[p] = "chmod"
  /\ \/ NoFault /\ Goto(p, IF Command[p] = "init" THEN "insert" ELSE "revoke")
     \/ Fault(p, SecretFailed(p))
  /\ UNCHANGED <<current, config, database, file, alone, load, crashes>>

(* Rotate takes its row back, Bootstrap whatever file is there.            *)
DeleteToken(p) ==
  /\ pc[p] = "delete"
  /\ \/ NoFault /\ tokens' = [tokens EXCEPT ![p] = "none"] /\ Goto(p, "failed")
     \/ Fault(p, "failed") /\ UNCHANGED tokens
  /\ UNCHANGED <<current, config, applied, ddl, file, alone, load, crashes>>
RemoveSecret(p) ==
  /\ pc[p] = "remove" /\ Goto(p, "failed")
  /\ \/ NoFault /\ file' = NoToken
     \/ Fault(p, "failed") /\ UNCHANGED file
  /\ UNCHANGED <<current, config, database, alone, load, crashes>>

(* A slip: the transaction is never committed.                             *)
RolledBack(p) == {}
Revoked(p) == Live \ {p}

(* The last transaction of Rotate, and its audit row, whose failure is     *)
(* reported though the token was rotated.                                  *)
RevokeOthers(p) ==
  /\ pc[p] = "revoke"
  /\ \/ /\ NoFault /\ Goto(p, "audit")
        /\ tokens' = [t \in Processes |-> IF t \in Revoked(p) THEN "revoked" ELSE tokens[t]]
     \/ Fault(p, "failed") /\ UNCHANGED tokens
  /\ UNCHANGED <<current, config, applied, ddl, file, alone, load, crashes>>
AuditRotation(p) ==
  /\ pc[p] = "audit"
  /\ \/ NoFault /\ Goto(p, "done")
     \/ Fault(p, "failed")
  /\ UNCHANGED <<current, config, database, file, alone, load, crashes>>

Stop(p) ==
  /\ Active(p) /\ crashes < load.maxCrashes /\ crashes' = crashes + 1
  /\ Goto(p, "stopped")
  /\ UNCHANGED <<current, config, database, file, alone, load, faults>>

Step(p) ==
  \/ Begin(p) \/ WriteConfig(p) \/ ReadVersion(p) \/ Migrate(p) \/ Opened(p)
  \/ CountTokens(p) \/ InsertToken(p) \/ RenameSecret(p) \/ ChmodSecret(p)
  \/ DeleteToken(p) \/ RemoveSecret(p) \/ RevokeOthers(p) \/ AuditRotation(p)
Next == \E p \in Processes : Step(p) \/ Stop(p)
Spec == Init /\ [][Next]_vars

-----------------------------------------------------------------------------
(* Every variable has its type.                                            *)
TypeOK ==
  /\ pc \in [Processes -> Over \cup {"idle", "create", "write", "load", "open", "migrate", "count",
                                     "insert", "rename", "chmod", "delete", "remove", "revoke", "audit"}]
  /\ current \in [Processes -> 0..Latest]
  /\ config \in {"none", "partial", "whole"}
  /\ applied \subseteq 1..Latest
  /\ ddl \in [1..Latest -> Nat]
  /\ tokens \in [Processes -> {"none", "live", "revoked"}]
  /\ file \in Processes \cup {NoToken}
  /\ alone \in [Processes -> BOOLEAN]

(* Every migration is executed once, in order and with its version row,    *)
(* however many processes open the database at a time and wherever one     *)
(* stops; and a command that goes on has the newest schema (migrate).      *)
MigratedOnce ==
  /\ \A v \in applied : 1..v \subseteq applied
  /\ \A v \in 1..Latest : ddl[v] = IF v \in applied THEN 1 ELSE 0
  /\ \A p \in Processes :
       pc[p] \in {"count", "insert", "rename", "chmod", "delete", "remove", "revoke", "audit", "done"}
         => applied = 1..Latest

(* The token file opens the installation until a command that overlaps     *)
(* another, or one whose chmod failed after it had replaced the file, puts *)
(* an end to it: a lone rotation never does, wherever it stops (Rotate,    *)
(* Bootstrap, writeSecret).                                                *)
AccessKept ==
  [][Usable => Usable' \/ \E p \in Processes : Active(p) /\ (~alone[p] \/ pc[p] = "delete")]_vars

(* Whatever others left behind, a command that runs alone and says it      *)
(* succeeded has left one token, its own, and the file holds it. Once it   *)
(* has begun it fails only when a call of its own does, except an init     *)
(* that finds a token (initCommand, openApp, tokenCommand).                *)
LoneCommandWorks ==
  [][\A p \in Processes : Active(p) /\ alone[p] /\ ~Active(p)' =>
       /\ pc'[p] = "done" /\ Command[p] # "open" => file' = p /\ Live' = {p}
       /\ pc'[p] = "failed" /\ faults' = faults =>
            pc[p] \in {"delete", "remove"} \/ (pc[p] = "count" /\ Live # {})]_vars
=============================================================================
