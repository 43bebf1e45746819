--------------------------- MODULE MCStoragePool ---------------------------
(* Model-checking instance of StoragePool.  A behaviour runs within one of *)
(* two scopes: two workers whose requests race for one disk, or one worker *)
(* that pools two disks of either type.                                    *)
EXTENDS StoragePool, TLC

VARIABLE scope  \* who runs and what there is in this behaviour

Races == [workers : {Workers}, devs : {{d} : d \in Devs}, types : {{"BLK"}},
          gens : {MaxGen}, stuck : {MaxStuck}]
Disks == [workers : {{w} : w \in Workers}, devs : {Devs}, types : {Types},
          gens : {1}, stuck : {0}]

MCInit ==
  /\ scope \in Races \union Disks
  /\ Init
  /\ attached \subseteq scope.devs
  /\ \A d \in Devs \ scope.devs : fs[d] = 0

(* With two disks, disks come between requests, and go at those times and  *)
(* while one is being mounted.                                             *)
ReplugInScope(d) ==
  /\ Replug(d)
  /\ \/ scope.workers = Workers
     \/ \A w \in Workers : pc[w] = "idle"
     \/ d \notin attached' /\ \E w \in Workers : pc[w] \in MountSteps

Acts ==
  \/ \E w \in scope.workers : Step(w) \/ Crash(w)
  \/ \E w \in scope.workers, d \in scope.devs, type \in scope.types : AppendBegin(w, d, type)
  \/ \E w \in scope.workers, r \in rows : RemoveBegin(w, r)
  \/ \E d \in scope.devs : ReplugInScope(d)
  \/ Reboot

MCNext ==
  /\ Acts
  /\ \A d \in Devs : fs'[d] <= scope.gens
  /\ stuck' <= scope.stuck
  /\ UNCHANGED scope

MCSpec == MCInit /\ [][MCNext]_<<vars, scope>>

Symmetry == Permutations(Workers) \union Permutations(Devs)
=============================================================================
