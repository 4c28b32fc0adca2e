------------------------------- MODULE MCStores -------------------------------
(***************************************************************************)
(* Instances for TLC of the two durable stores that processes share: the   *)
(* job registry (JobRegistry) and the Session of a run (SessionStore).     *)
(* They share no state here: a behaviour picks one of them.                *)
(***************************************************************************)
EXTENDS JobRegistry, SessionStore, TLC

CONSTANTS j1, t1, r1, r2, p1, p2, w1, w2

VARIABLE part

(* Two registries in two processes. *)
TwoProcesses == (r1 :> p1) @@ (r2 :> p2)

(* Nothing tells the two writers of the Session apart. *)
TwoWriters == Permutations({w1, w2})

allVars == <<part, vars, storeVars>>

AllInit ==
  /\ part \in {"jobs", "session"}
  /\ Init /\ StoreInit
  /\ part = "jobs" => file = 0

AllNext ==
  \/ part = "jobs" /\ Next /\ UNCHANGED <<part, storeVars>>
  \/ part = "session" /\ StoreNext /\ UNCHANGED <<part, vars>>

AllSpec == AllInit /\ [][AllNext]_allVars
=============================================================================
