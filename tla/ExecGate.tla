------------------------------ MODULE ExecGate ------------------------------
(***************************************************************************)
(* The in-process gate that serialises the drives of one process instance  *)
(* (service/runtime_exec_gate.go): a table of gate objects keyed by        *)
(* instance id, each a re-entrant lock with a condition variable, and the  *)
(* reclamation of gates nobody uses.                                       *)
(*                                                                         *)
(* A critical section of g.mu holds at most one access to the table, so    *)
(* each section is one action; LoadOrStore happens outside g.mu and is an  *)
(* action of its own.  cond.Wait releases g.mu: the sleeping goroutine is  *)
(* "waiting" until a Broadcast makes it "woken", and then it looks again.  *)
(* Gate objects are reused once nothing refers to them (garbage            *)
(* collection), so the set Gate need not be larger than the references.    *)
(* A definition marked "slip" is what the next one would be with a likely  *)
(* mistake in it; the specification never uses it.                         *)
(***************************************************************************)
EXTENDS Naturals, FiniteSets

CONSTANTS Goroutine,   \* goroutine ids (never 0)
          Instance,    \* process instance ids
          Gate,        \* addresses of execGate objects
          NoOne,       \* owner = 0
          NoGate,      \* the table has no entry / the goroutine has no gate
          NoInstance,  \* the goroutine asks for no gate
          Nest,        \* <<i, j>>: a drive of i may start a drive of j inside it
          MaxDepth     \* bound on the nesting of drives of one instance

ASSUME NoOneAssumption == NoOne \notin Goroutine
ASSUME NoGateAssumption == NoGate \notin Gate
ASSUME NoInstanceAssumption == NoInstance \notin Instance
ASSUME GoroutineAssumption == IsFiniteSet(Goroutine)
ASSUME NestAssumption == /\ Nest \subseteq Instance \X Instance
                         /\ \A i, j \in Instance :
                              (<<i, j>> \in Nest /\ <<j, i>> \in Nest) => i = j
ASSUME MaxDepthAssumption == MaxDepth \in Nat \ {0}

VARIABLES gates,       \* the sync.Map: instance id -> gate
          key,         \* g.key, fixed when the gate is created
          owner,       \* g.owner
          depth,       \* g.depth
          waiters,     \* g.waiters
          pc,          \* where the goroutine is in acquireExecGate
          want,        \* the instance it asks for
          ref,         \* the gate it got from LoadOrStore
          hold         \* release functions it has not called yet, per gate

vars == <<gates, key, owner, depth, waiters, pc, want, ref, hold>>

TypeOK == /\ gates \in [Instance -> Gate \cup {NoGate}]
          /\ key \in [Gate -> Instance]
          /\ owner \in [Gate -> Goroutine \cup {NoOne}]
          /\ depth \in [Gate -> Nat]
          /\ waiters \in [Gate -> Nat]
          /\ pc \in [Goroutine -> {"idle", "load", "loaded", "waiting", "woken"}]
          /\ want \in [Goroutine -> Instance \cup {NoInstance}]
          /\ ref \in [Goroutine -> Gate \cup {NoGate}]
          /\ hold \in [Goroutine -> [Gate -> Nat]]

(* Goroutines asleep in cond.Wait of gate g, or woken and not yet through. *)
Sleepers(g) == {p \in Goroutine : pc[p] \in {"waiting", "woken"} /\ ref[p] = g}

(* Nothing refers to the object: LoadOrStore may return it as a new one. *)
Unused(g) == /\ \A i \in Instance : gates[i] # g
             /\ \A p \in Goroutine : ref[p] # g /\ hold[p][g] = 0

Init == /\ gates = [i \in Instance |-> NoGate]
        /\ key \in [Gate -> Instance]
        /\ owner = [g \in Gate |-> NoOne]
        /\ depth = [g \in Gate |-> 0]
        /\ waiters = [g \in Gate |-> 0]
        /\ pc = [p \in Goroutine |-> "idle"]
        /\ want = [p \in Goroutine |-> NoInstance]
        /\ ref = [p \in Goroutine |-> NoGate]
        /\ hold = [p \in Goroutine |-> [g \in Gate |-> 0]]

-----------------------------------------------------------------------------
(* Which drives the chains start inside the drives they are in: never a    *)
(* child's inside its parent's, a child runs on a goroutine of its own.    *)
MayNestAnyway(p, i) == \A g \in Gate : key[g] = i => hold[p][g] < MaxDepth   \* slip
MayNest(p, i) == \A g \in Gate : hold[p][g] > 0 =>
                    /\ <<key[g], i>> \in Nest
                    /\ key[g] = i => hold[p][g] < MaxDepth

(* A drive of i starts, alone or inside the drives the goroutine has open. *)
Enter(p, i) ==
  /\ pc[p] = "idle"
  /\ MayNest(p, i)
  /\ pc' = [pc EXCEPT ![p] = "load"]
  /\ want' = [want EXCEPT ![p] = i]
  /\ UNCHANGED <<gates, key, owner, depth, waiters, ref, hold>>

(* execGates.LoadOrStore finds the instance's gate. *)
LoadGate(p) ==
  /\ pc[p] = "load"
  /\ gates[want[p]] # NoGate
  /\ ref' = [ref EXCEPT ![p] = gates[want[p]]]
  /\ pc' = [pc EXCEPT ![p] = "loaded"]
  /\ UNCHANGED <<gates, key, owner, depth, waiters, want, hold>>

(* execGates.LoadOrStore stores a new gate. *)
StoreGate(p, g) ==
  /\ pc[p] = "load"
  /\ gates[want[p]] = NoGate
  /\ Unused(g)
  /\ gates' = [gates EXCEPT ![want[p]] = g]
  /\ key' = [key EXCEPT ![g] = want[p]]
  /\ owner' = [owner EXCEPT ![g] = NoOne]
  /\ depth' = [depth EXCEPT ![g] = 0]
  /\ waiters' = [waiters EXCEPT ![g] = 0]
  /\ ref' = [ref EXCEPT ![p] = g]
  /\ pc' = [pc EXCEPT ![p] = "loaded"]
  /\ UNCHANGED <<want, hold>>

(* The gate is free: it may be taken only while the table still maps the   *)
(* instance to it; an orphan is dropped and the goroutine loads again.     *)
IsCurrentAlways(p) == TRUE                                             \* slip
IsCurrent(p) == gates[want[p]] = ref[p]

TakeGateUncounted(p) ==                                                \* slip
  /\ owner' = [owner EXCEPT ![ref[p]] = p]
  /\ UNCHANGED depth
  /\ hold' = [hold EXCEPT ![p][ref[p]] = 1]
  /\ pc' = [pc EXCEPT ![p] = "idle"]
  /\ want' = [want EXCEPT ![p] = NoInstance]
  /\ ref' = [ref EXCEPT ![p] = NoGate]
TakeGate(p) ==
  /\ owner' = [owner EXCEPT ![ref[p]] = p]
  /\ depth' = [depth EXCEPT ![ref[p]] = 1]
  /\ hold' = [hold EXCEPT ![p][ref[p]] = 1]
  /\ pc' = [pc EXCEPT ![p] = "idle"]
  /\ want' = [want EXCEPT ![p] = NoInstance]
  /\ ref' = [ref EXCEPT ![p] = NoGate]

Own(p) ==
  /\ pc[p] = "loaded"
  /\ owner[ref[p]] = NoOne
  /\ IsCurrent(p)
  /\ TakeGate(p)
  /\ UNCHANGED <<gates, key, waiters>>

Retry(p) ==
  /\ pc[p] = "loaded"
  /\ owner[ref[p]] = NoOne
  /\ ~IsCurrent(p)
  /\ pc' = [pc EXCEPT ![p] = "load"]
  /\ ref' = [ref EXCEPT ![p] = NoGate]
  /\ UNCHANGED <<gates, key, owner, depth, waiters, want, hold>>

(* The goroutine already drives the instance. *)
Reenter(p) ==
  /\ pc[p] = "loaded"
  /\ owner[ref[p]] = p
  /\ depth' = [depth EXCEPT ![ref[p]] = depth[ref[p]] + 1]
  /\ hold' = [hold EXCEPT ![p][ref[p]] = hold[p][ref[p]] + 1]
  /\ pc' = [pc EXCEPT ![p] = "idle"]
  /\ ref' = [ref EXCEPT ![p] = NoGate]
  /\ want' = [want EXCEPT ![p] = NoInstance]
  /\ UNCHANGED <<gates, key, owner, waiters>>

(* Another goroutine drives it: count as a waiter and sleep. *)
Wait(p) ==
  /\ pc[p] = "loaded"
  /\ owner[ref[p]] \notin {NoOne, p}
  /\ waiters' = [waiters EXCEPT ![ref[p]] = waiters[ref[p]] + 1]
  /\ pc' = [pc EXCEPT ![p] = "waiting"]
  /\ UNCHANGED <<gates, key, owner, depth, want, ref, hold>>

(* cond.Wait returned: own the gate, or sleep again if it was taken first. *)
WakeOwn(p) ==
  /\ pc[p] = "woken"
  /\ owner[ref[p]] = NoOne
  /\ waiters' = [waiters EXCEPT ![ref[p]] = waiters[ref[p]] - 1]
  /\ TakeGate(p)
  /\ UNCHANGED <<gates, key>>

SleepAgain(p) ==
  /\ pc[p] = "woken"
  /\ owner[ref[p]] # NoOne
  /\ pc' = [pc EXCEPT ![p] = "waiting"]
  /\ UNCHANGED <<gates, key, owner, depth, waiters, want, ref, hold>>

(* cond.Broadcast wakes every goroutine asleep on g. *)
BroadcastLost(g) == pc                                                 \* slip
Broadcast(g) == [p \in Goroutine |-> IF pc[p] = "waiting" /\ ref[p] = g THEN "woken" ELSE pc[p]]

(* The outermost release removes the gate unless somebody waits for it.    *)
ReclaimNever(g) == gates                                               \* slip
ReclaimWaited(g) == IF depth[g] = 1 THEN [gates EXCEPT ![key[g]] = NoGate] ELSE gates \* slip
Reclaim(g) == IF depth[g] = 1 /\ waiters[g] = 0
              THEN [gates EXCEPT ![key[g]] = NoGate] ELSE gates

(* A release function runs; the outermost one frees the gate. *)
Release(p, g) ==
  /\ pc[p] = "idle"
  /\ hold[p][g] > 0
  /\ hold' = [hold EXCEPT ![p][g] = hold[p][g] - 1]
  /\ depth' = [depth EXCEPT ![g] = depth[g] - 1]
  /\ owner' = [owner EXCEPT ![g] = IF depth[g] = 1 THEN NoOne ELSE owner[g]]
  /\ gates' = Reclaim(g)
  /\ pc' = Broadcast(g)
  /\ UNCHANGED <<key, waiters, want, ref>>

-----------------------------------------------------------------------------
(* The steps a goroutine takes once it asked for a gate. *)
Progress(p) == \/ LoadGate(p)
               \/ \E g \in Gate : StoreGate(p, g)
               \/ Own(p)
               \/ Retry(p)
               \/ Reenter(p)
               \/ Wait(p)
               \/ WakeOwn(p)
               \/ SleepAgain(p)
               \/ \E g \in Gate : Release(p, g)

Next == \E p \in Goroutine : Progress(p) \/ \E i \in Instance : Enter(p, i)

Spec == Init /\ [][Next]_vars

(* A goroutine is never descheduled for ever, and a drive that has its     *)
(* gates returns and calls its deferred release functions.                 *)
FairSpec == Spec /\ \A p \in Goroutine : WF_vars(Progress(p))

-----------------------------------------------------------------------------
(* Two goroutines never both drive one instance, whatever gate objects     *)
(* they hold: reclamation must not let a second gate be owned while an     *)
(* older one still is (the orphan check of acquireExecGate).               *)
MutualExclusion ==
  \A p, q \in Goroutine, g, h \in Gate :
    (hold[p][g] > 0 /\ hold[q][h] > 0 /\ key[g] = key[h]) => (p = q /\ g = h)

(* The table keeps no gate that nobody owns and nobody is about to take:   *)
(* it does not grow with the number of instances driven so far.            *)
NoGateLeak ==
  \A i \in Instance :
    (gates[i] # NoGate /\ owner[gates[i]] = NoOne) =>
      \E p \in Goroutine : pc[p] # "idle" /\ ref[p] = gates[i]

(* Goroutines never wait for each other in a circle: a drive of a child    *)
(* may wait for its parent's gate, never the other way round.              *)
Blocks(q, p) == /\ pc[p] \in {"waiting", "woken"}
                /\ owner[ref[p]] = q
NoCrossWait == \A p, q \in Goroutine : ~(Blocks(q, p) /\ Blocks(p, q))

(* No wake-up is lost: a gate that is free while goroutines sleep on it is *)
(* taken by one of them or by a newcomer.                                  *)
HandOff == \A g \in Gate :
             (owner[g] = NoOne /\ Sleepers(g) # {}) ~> (owner[g] # NoOne)

(* The table and the gate objects together are a re-entrant mutex for each *)
(* instance: holder and count of the abstract lock, read off the gate the  *)
(* table currently maps the instance to.                                   *)
Holder == [i \in Instance |-> IF gates[i] = NoGate THEN NoOne ELSE owner[gates[i]]]
Count == [i \in Instance |-> IF gates[i] = NoGate THEN 0 ELSE depth[gates[i]]]

Mutex == INSTANCE InstanceMutex WITH holder <- Holder, count <- Count

ImplementsMutex == Mutex!MSpec
=============================================================================
