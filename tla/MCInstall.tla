------------------------------ MODULE MCInstall ------------------------------
(* An instance of Install: two inits and three rotations, beside a server.  *)
EXTENDS Install, TLC

CONSTANTS i1, i2, r1, r2, r3, server

MCCommand == (i1 :> "init") @@ (i2 :> "init") @@ (r1 :> "rotate") @@ (r2 :> "rotate")
             @@ (r3 :> "rotate") @@ (server :> "open")
Workload(run, maxFaults, maxCrashes) ==
  [run |-> run, maxFaults |-> maxFaults, maxCrashes |-> maxCrashes]
MCWorkloads ==
  {Workload({i1, r1, r2, r3}, 0, 1), Workload({i1, r1, r2}, 2, 0),
   Workload({i1, i2, r1, server}, 1, 1)}
=============================================================================
