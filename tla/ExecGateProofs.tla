--------------------------- MODULE ExecGateProofs ---------------------------
(***************************************************************************)
(* What ExecGate guarantees for every set of goroutines, instances and     *)
(* gate objects: the inductive invariant, the four safety invariants the   *)
(* runs check, and the refinement of the abstract re-entrant mutex.        *)
(***************************************************************************)
EXTENDS ExecGate, FiniteSetTheorems, TLAPS

Asking == {"loaded", "waiting", "woken"}
Sleeping == {"waiting", "woken"}

(* An owned gate is the one the table holds: an orphan is never owned. *)
OwnedIsCurrent ==
  \A g \in Gate : owner[g] # NoOne => gates[key[g]] = g /\ depth[g] > 0
FreeIsZero == \A g \in Gate : owner[g] = NoOne => depth[g] = 0
TableKeyed == \A i \in Instance : gates[i] # NoGate => key[gates[i]] = i

(* The release functions of the owner are the depth of the gate. *)
HoldIsDepth ==
  \A p \in Goroutine, g \in Gate : hold[p][g] = IF owner[g] = p THEN depth[g] ELSE 0

(* What a goroutine inside acquireExecGate refers to. *)
References ==
  \A p \in Goroutine :
    /\ pc[p] # "idle" => want[p] \in Instance
    /\ pc[p] \in {"idle", "load"} => ref[p] = NoGate
    /\ pc[p] \in Asking => ref[p] \in Gate /\ key[ref[p]] = want[p]

(* Nobody sleeps on an orphan, nor on a gate of its own. *)
SleepsOnCurrent ==
  \A p \in Goroutine :
    pc[p] \in Sleeping => gates[want[p]] = ref[p] /\ owner[ref[p]] # p

WaitersCount == \A g \in Gate : waiters[g] = Cardinality(Sleepers(g))

(* What a goroutine that asks for a gate already drives may call back.     *)
CallsBack ==
  \A p \in Goroutine, g \in Gate :
    (pc[p] # "idle" /\ hold[p][g] > 0) => <<key[g], want[p]>> \in Nest

IInv == /\ TypeOK
        /\ OwnedIsCurrent
        /\ FreeIsZero
        /\ TableKeyed
        /\ HoldIsDepth
        /\ References
        /\ SleepsOnCurrent
        /\ WaitersCount
        /\ CallsBack
        /\ NoGateLeak

LEMMA SleepersFinite == \A g \in Gate : IsFiniteSet(Sleepers(g)) /\ Cardinality(Sleepers(g)) \in Nat
BY GoroutineAssumption, FS_Subset, FS_CardinalityType DEF Sleepers

(* Initially the table is empty and every goroutine idle. *)
LEMMA InitIInv == Init => IInv
<1> SUFFICES ASSUME Init PROVE IInv
  OBVIOUS
<1>1. \A g \in Gate : Sleepers(g) = {}
  BY DEF Init, Sleepers
<1>2. WaitersCount
  BY <1>1, FS_EmptySet DEF Init, WaitersCount
<1>3. QED
  BY <1>2, NoOneAssumption, NoGateAssumption
  DEF Init, IInv, TypeOK, OwnedIsCurrent, FreeIsZero, TableKeyed, HoldIsDepth,
      References, SleepsOnCurrent, CallsBack, NoGateLeak, Asking, Sleeping

(* Steps that move a goroutine between two states in which it does not     *)
(* sleep on a gate leave the waiters counted right.                        *)
LEMMA SameSleepers ==
  ASSUME NEW p \in Goroutine, TypeOK, WaitersCount, waiters' = waiters,
         pc[p] \notin Sleeping, pc'[p] \notin Sleeping,
         \A q \in Goroutine \ {p} : pc'[q] = pc[q] /\ ref'[q] = ref[q]
  PROVE  WaitersCount'
<1>1. \A g \in Gate : Sleepers(g)' = Sleepers(g)
  BY DEF Sleepers, Sleeping
<1>2. QED
  BY <1>1 DEF WaitersCount

-----------------------------------------------------------------------------
(* Every action preserves IInv: one lemma each, one step for each part the *)
(* action can disturb.                                                     *)

(* MayNest is what CallsBack asks of the goroutine that enters. *)
LEMMA EnterIInv ==
  ASSUME NEW p \in Goroutine, NEW i \in Instance, IInv, Enter(p, i)
  PROVE  IInv'
<1> USE DEF IInv, Enter, TypeOK
<1>1. TypeOK'
  OBVIOUS
<1>2. OwnedIsCurrent' /\ FreeIsZero' /\ TableKeyed' /\ HoldIsDepth'
  BY DEF OwnedIsCurrent, FreeIsZero, TableKeyed, HoldIsDepth
<1>3. References' /\ SleepsOnCurrent'
  BY DEF References, SleepsOnCurrent, Asking, Sleeping
<1>4. WaitersCount'
  BY SameSleepers DEF Sleeping
<1>5. CallsBack'
  BY DEF CallsBack, MayNest
<1>6. NoGateLeak'
  BY DEF NoGateLeak, References
<1>7. QED
  BY <1>1, <1>2, <1>3, <1>4, <1>5, <1>6

LEMMA LoadGateIInv ==
  ASSUME NEW p \in Goroutine, IInv, LoadGate(p)
  PROVE  IInv'
<1> USE DEF IInv, LoadGate, TypeOK
<1>1. want[p] \in Instance /\ gates[want[p]] \in Gate
  BY DEF References
<1>2. TypeOK'
  BY <1>1
<1>3. OwnedIsCurrent' /\ FreeIsZero' /\ TableKeyed' /\ HoldIsDepth'
  BY DEF OwnedIsCurrent, FreeIsZero, TableKeyed, HoldIsDepth
<1>4. References' /\ SleepsOnCurrent'
  BY <1>1 DEF References, SleepsOnCurrent, TableKeyed, Asking, Sleeping
<1>5. WaitersCount'
  BY SameSleepers DEF Sleeping
<1>6. CallsBack'
  BY DEF CallsBack
<1>7. NoGateLeak'
  BY <1>1, NoGateAssumption DEF NoGateLeak, References
<1>8. QED
  BY <1>2, <1>3, <1>4, <1>5, <1>6, <1>7

(* The object LoadOrStore returns as new had neither owner nor waiters.    *)
LEMMA StoreGateIInv ==
  ASSUME NEW p \in Goroutine, NEW g \in Gate, IInv, StoreGate(p, g)
  PROVE  IInv'
<1> USE DEF IInv, StoreGate, TypeOK
<1>1. want[p] \in Instance
  BY DEF References
<1>2. owner[g] = NoOne /\ depth[g] = 0
  BY DEF Unused, OwnedIsCurrent, FreeIsZero
<1>3. TypeOK'
  BY <1>1
<1>4. OwnedIsCurrent' /\ FreeIsZero' /\ TableKeyed'
  BY <1>1, <1>2, NoGateAssumption DEF OwnedIsCurrent, FreeIsZero, TableKeyed, Unused
<1>5. HoldIsDepth'
  BY <1>2 DEF HoldIsDepth, Unused
<1>6. References' /\ SleepsOnCurrent'
  BY <1>1, <1>2, NoGateAssumption
  DEF References, SleepsOnCurrent, Asking, Sleeping, Unused
<1>7. WaitersCount'
  <2>1. \A h \in Gate : Sleepers(h)' = Sleepers(h)
    BY DEF Sleepers
  <2>2. Sleepers(g) = {}
    BY DEF Sleepers, Unused
  <2>3. Cardinality(Sleepers(g)) = 0
    BY <2>2, FS_EmptySet
  <2>4. QED
    BY <2>1, <2>3 DEF WaitersCount
<1>8. CallsBack'
  BY <1>1, <1>2 DEF CallsBack, Unused
<1>9. NoGateLeak'
  BY <1>1 DEF NoGateLeak, References, Unused
<1>10. QED
  BY <1>3, <1>4, <1>5, <1>6, <1>7, <1>8, <1>9

(* TakeGate on the table's own gate, by a goroutine that no longer sleeps. *)
LEMMA TakeGateParts ==
  ASSUME NEW p \in Goroutine, IInv, pc[p] \in Asking, gates[want[p]] = ref[p],
         owner[ref[p]] = NoOne, TakeGate(p), UNCHANGED <<gates, key>>,
         waiters' \in [Gate -> Nat]
  PROVE  /\ TypeOK' /\ OwnedIsCurrent' /\ FreeIsZero' /\ TableKeyed' /\ HoldIsDepth'
         /\ References' /\ SleepsOnCurrent' /\ CallsBack' /\ NoGateLeak'
<1> USE DEF IInv, TakeGate, TypeOK
<1>1. want[p] \in Instance /\ ref[p] \in Gate /\ key[ref[p]] = want[p]
  BY DEF References, Asking
<1>2. TypeOK'
  BY <1>1
<1>3. OwnedIsCurrent' /\ FreeIsZero' /\ TableKeyed'
  BY <1>1, NoOneAssumption DEF OwnedIsCurrent, FreeIsZero, TableKeyed
<1>4. HoldIsDepth'
  BY <1>1, NoOneAssumption DEF HoldIsDepth, FreeIsZero
<1>5. References' /\ SleepsOnCurrent'
  BY <1>1, NoOneAssumption DEF References, SleepsOnCurrent, Asking, Sleeping
<1>6. CallsBack'
  BY <1>1 DEF CallsBack
<1>7. NoGateLeak'
  BY <1>1, NoOneAssumption DEF NoGateLeak, TableKeyed
<1>8. QED
  BY <1>2, <1>3, <1>4, <1>5, <1>6, <1>7

LEMMA OwnIInv ==
  ASSUME NEW p \in Goroutine, IInv, Own(p)
  PROVE  IInv'
<1>1. /\ TypeOK' /\ OwnedIsCurrent' /\ FreeIsZero' /\ TableKeyed' /\ HoldIsDepth'
      /\ References' /\ SleepsOnCurrent' /\ CallsBack' /\ NoGateLeak'
  BY TakeGateParts DEF Own, IInv, TypeOK, Asking, IsCurrent
<1>2. WaitersCount'
  BY SameSleepers DEF Own, TakeGate, IInv, TypeOK, Sleeping
<1>3. QED
  BY <1>1, <1>2 DEF IInv

(* The orphan that is dropped is not a gate of the table. *)
LEMMA RetryIInv ==
  ASSUME NEW p \in Goroutine, IInv, Retry(p)
  PROVE  IInv'
<1> USE DEF IInv, Retry, TypeOK
<1>1. TypeOK'
  OBVIOUS
<1>2. OwnedIsCurrent' /\ FreeIsZero' /\ TableKeyed' /\ HoldIsDepth'
  BY DEF OwnedIsCurrent, FreeIsZero, TableKeyed, HoldIsDepth
<1>3. References' /\ SleepsOnCurrent'
  BY DEF References, SleepsOnCurrent, Asking, Sleeping
<1>4. WaitersCount'
  BY SameSleepers DEF Sleeping
<1>5. CallsBack'
  BY DEF CallsBack
<1>6. NoGateLeak'
  BY DEF NoGateLeak, TableKeyed, References, IsCurrent, Asking
<1>7. QED
  BY <1>1, <1>2, <1>3, <1>4, <1>5, <1>6

LEMMA ReenterIInv ==
  ASSUME NEW p \in Goroutine, IInv, Reenter(p)
  PROVE  IInv'
<1> USE DEF IInv, Reenter, TypeOK
<1>1. ref[p] \in Gate /\ owner[ref[p]] # NoOne
  BY NoOneAssumption DEF References, Asking
<1>2. TypeOK'
  BY <1>1
<1>3. OwnedIsCurrent' /\ FreeIsZero' /\ TableKeyed' /\ HoldIsDepth'
  BY <1>1 DEF OwnedIsCurrent, FreeIsZero, TableKeyed, HoldIsDepth
<1>4. References' /\ SleepsOnCurrent'
  BY DEF References, SleepsOnCurrent, Asking, Sleeping
<1>5. WaitersCount'
  BY SameSleepers DEF Sleeping
<1>6. CallsBack'
  BY <1>1 DEF CallsBack
<1>7. NoGateLeak'
  BY <1>1 DEF NoGateLeak
<1>8. QED
  BY <1>2, <1>3, <1>4, <1>5, <1>6, <1>7

(* The sleeper joins the count it is counted by. *)
LEMMA WaitIInv ==
  ASSUME NEW p \in Goroutine, IInv, Wait(p)
  PROVE  IInv'
<1> USE DEF IInv, Wait, TypeOK
<1>1. ref[p] \in Gate /\ want[p] \in Instance /\ key[ref[p]] = want[p]
  BY DEF References, Asking
<1>2. TypeOK'
  BY <1>1
<1>3. OwnedIsCurrent' /\ FreeIsZero' /\ TableKeyed' /\ HoldIsDepth'
  BY DEF OwnedIsCurrent, FreeIsZero, TableKeyed, HoldIsDepth
<1>4. References' /\ SleepsOnCurrent'
  BY <1>1 DEF References, SleepsOnCurrent, OwnedIsCurrent, Asking, Sleeping
<1>5. WaitersCount'
  <2>1. \A g \in Gate \ {ref[p]} : Sleepers(g)' = Sleepers(g)
    BY DEF Sleepers
  <2>2. Sleepers(ref[p])' = Sleepers(ref[p]) \cup {p} /\ p \notin Sleepers(ref[p])
    BY DEF Sleepers
  <2>3. Cardinality(Sleepers(ref[p])') = Cardinality(Sleepers(ref[p])) + 1
    BY <1>1, <2>2, SleepersFinite, FS_AddElement
  <2>4. QED
    BY <1>1, <2>1, <2>3 DEF WaitersCount
<1>6. CallsBack'
  BY DEF CallsBack
<1>7. NoGateLeak'
  BY DEF NoGateLeak
<1>8. QED
  BY <1>2, <1>3, <1>4, <1>5, <1>6, <1>7

LEMMA WakeOwnIInv ==
  ASSUME NEW p \in Goroutine, IInv, WakeOwn(p)
  PROVE  IInv'
<1>1. /\ ref[p] \in Gate /\ want[p] \in Instance
      /\ gates[want[p]] = ref[p]
  BY DEF WakeOwn, IInv, TypeOK, References, SleepsOnCurrent, Asking, Sleeping
<1>2. PICK r \in Gate : r = ref[p]
  BY <1>1
<1>3. \A g \in Gate : Sleepers(g)' = Sleepers(g) \ {p}
  BY DEF WakeOwn, TakeGate, IInv, TypeOK, Sleepers
<1>4. \A g \in Gate : p \in Sleepers(g) <=> g = r
  BY <1>2 DEF WakeOwn, Sleepers
<1>5. \A g \in Gate : /\ Cardinality(Sleepers(g)') \in Nat
                      /\ Cardinality(Sleepers(g)') = IF g = r THEN waiters[g] - 1 ELSE waiters[g]
  BY <1>3, <1>4, SleepersFinite, FS_RemoveElement, FS_CardinalityType DEF IInv, WaitersCount
<1>6. waiters' = [waiters EXCEPT ![r] = waiters[r] - 1]
  BY <1>2 DEF WakeOwn
<1>7. waiters' \in [Gate -> Nat] /\ WaitersCount'
  <2>1. \A g \in Gate : waiters'[g] = Cardinality(Sleepers(g)')
    BY <1>5, <1>6 DEF IInv, TypeOK
  <2>2. QED
    BY <1>5, <1>6, <2>1 DEF IInv, TypeOK, WaitersCount
<1>8. /\ TypeOK' /\ OwnedIsCurrent' /\ FreeIsZero' /\ TableKeyed' /\ HoldIsDepth'
      /\ References' /\ SleepsOnCurrent' /\ CallsBack' /\ NoGateLeak'
  BY <1>1, <1>7, TakeGateParts DEF WakeOwn, Asking
<1>9. QED
  BY <1>7, <1>8 DEF IInv

LEMMA SleepAgainIInv ==
  ASSUME NEW p \in Goroutine, IInv, SleepAgain(p)
  PROVE  IInv'
<1> USE DEF IInv, SleepAgain, TypeOK
<1>1. TypeOK'
  OBVIOUS
<1>2. OwnedIsCurrent' /\ FreeIsZero' /\ TableKeyed' /\ HoldIsDepth'
  BY DEF OwnedIsCurrent, FreeIsZero, TableKeyed, HoldIsDepth
<1>3. References' /\ SleepsOnCurrent'
  BY DEF References, SleepsOnCurrent, Asking, Sleeping
<1>4. WaitersCount'
  <2>1. \A g \in Gate : Sleepers(g)' = Sleepers(g)
    BY DEF Sleepers
  <2>2. QED
    BY <2>1 DEF WaitersCount
<1>5. CallsBack'
  BY DEF CallsBack
<1>6. NoGateLeak'
  BY DEF NoGateLeak
<1>7. QED
  BY <1>1, <1>2, <1>3, <1>4, <1>5, <1>6

(* A gate leaves the table only if nobody sleeps on it, and if it stays    *)
(* free in the table a sleeper is there to take it.                        *)
LEMMA ReleaseIInv ==
  ASSUME NEW p \in Goroutine, NEW g \in Gate, IInv, Release(p, g)
  PROVE  IInv'
<1> USE DEF IInv, Release, TypeOK
<1>1. /\ owner[g] = p /\ depth[g] = hold[p][g] /\ depth[g] \in Nat \ {0}
      /\ gates[key[g]] = g /\ key[g] \in Instance /\ p # NoOne
  BY NoOneAssumption DEF HoldIsDepth, OwnedIsCurrent
<1>2. \A i \in Instance : gates[i] = g => i = key[g]
  BY NoGateAssumption DEF TableKeyed
<1>3. /\ gates' \in [Instance -> Gate \cup {NoGate}]
      /\ \A i \in Instance \ {key[g]} : gates'[i] = gates[i]
      /\ gates'[key[g]] = IF depth[g] = 1 /\ waiters[g] = 0 THEN NoGate ELSE g
  BY <1>1 DEF Reclaim
<1>4. /\ pc' \in [Goroutine -> {"idle", "load", "loaded", "waiting", "woken"}]
      /\ \A q \in Goroutine : pc'[q] = pc[q] \/ (pc[q] = "waiting" /\ pc'[q] = "woken")
  BY DEF Broadcast
<1>5. TypeOK'
  <2>1. hold' \in [Goroutine -> [Gate -> Nat]]
    <3>1. [hold[p] EXCEPT ![g] = hold[p][g] - 1] \in [Gate -> Nat]
      BY <1>1
    <3>2. hold' = [hold EXCEPT ![p] = [hold[p] EXCEPT ![g] = hold[p][g] - 1]]
      OBVIOUS
    <3>3. QED
      BY <3>1, <3>2
  <2>2. depth' \in [Gate -> Nat] /\ owner' \in [Gate -> Goroutine \cup {NoOne}]
    BY <1>1
  <2>3. QED
    BY <1>3, <1>4, <2>1, <2>2
<1>6. OwnedIsCurrent' /\ FreeIsZero'
  BY <1>1, <1>2, <1>3 DEF OwnedIsCurrent, FreeIsZero
<1>7. TableKeyed'
  BY <1>1, <1>3 DEF TableKeyed
<1>8. HoldIsDepth'
  BY <1>1 DEF HoldIsDepth
<1>9. References'
  BY <1>4 DEF References, Asking
<1>10. \A h \in Gate : Sleepers(h)' = Sleepers(h)
  BY <1>4 DEF Sleepers
<1>11. WaitersCount'
  BY <1>10 DEF WaitersCount
<1>12. waiters[g] = 0 <=> Sleepers(g) = {}
  BY SleepersFinite, FS_EmptySet DEF WaitersCount
<1>13. SleepsOnCurrent'
  <2> SUFFICES ASSUME NEW q \in Goroutine, pc'[q] \in Sleeping
               PROVE  gates'[want[q]] = ref[q] /\ owner'[ref[q]] # q
    BY DEF SleepsOnCurrent
  <2>1. pc[q] \in Sleeping /\ want[q] \in Instance /\ ref[q] \in Gate
    BY <1>4 DEF Sleeping, References, Asking
  <2>2. gates[want[q]] = ref[q] /\ owner[ref[q]] # q /\ key[ref[q]] = want[q]
    BY <2>1 DEF SleepsOnCurrent, References, Asking, Sleeping
  <2>3. ref[q] = g => q \in Sleepers(g)
    BY <2>1 DEF Sleepers, Sleeping
  <2>4. QED
    BY <1>1, <1>3, <1>12, <2>1, <2>2, <2>3, NoOneAssumption
<1>14. CallsBack'
  BY <1>4 DEF CallsBack
<1>15. NoGateLeak'
  <2> SUFFICES ASSUME NEW i \in Instance, gates'[i] # NoGate, owner'[gates'[i]] = NoOne
               PROVE  \E q \in Goroutine : pc'[q] # "idle" /\ ref[q] = gates'[i]
    BY DEF NoGateLeak
  <2>1. gates'[i] = gates[i] /\ gates[i] \in Gate
    BY <1>1, <1>3
  <2>2. CASE gates[i] # g
    <3>1. owner[gates[i]] = NoOne
      BY <2>1, <2>2
    <3>2. PICK q \in Goroutine : pc[q] # "idle" /\ ref[q] = gates[i]
      BY <2>1, <3>1, NoGateAssumption DEF NoGateLeak
    <3>3. QED
      BY <1>4, <2>1, <3>2
  <2>3. CASE gates[i] = g
    <3>1. Sleepers(g) # {}
      BY <1>1, <1>2, <1>3, <1>12, <2>1, <2>3, NoGateAssumption
    <3>2. QED
      BY <1>4, <2>1, <2>3, <3>1 DEF Sleepers
  <2>4. QED
    BY <2>2, <2>3
<1>16. QED
  BY <1>5, <1>6, <1>7, <1>8, <1>9, <1>11, <1>13, <1>14, <1>15

LEMMA NextIInv == IInv /\ [Next]_vars => IInv'
<1> SUFFICES ASSUME IInv, [Next]_vars PROVE IInv'
  OBVIOUS
<1>1. ASSUME NEW p \in Goroutine, Progress(p) PROVE IInv'
  BY <1>1, LoadGateIInv, StoreGateIInv, OwnIInv, RetryIInv, ReenterIInv, WaitIInv,
     WakeOwnIInv, SleepAgainIInv, ReleaseIInv DEF Progress
<1>2. ASSUME NEW p \in Goroutine, NEW i \in Instance, Enter(p, i) PROVE IInv'
  BY <1>2, EnterIInv
<1>3. CASE UNCHANGED vars
  BY <1>3 DEF vars, IInv, TypeOK, OwnedIsCurrent, FreeIsZero, TableKeyed, HoldIsDepth,
              References, SleepsOnCurrent, WaitersCount, Sleepers, CallsBack, NoGateLeak
<1>4. QED
  BY <1>1, <1>2, <1>3 DEF Next

LEMMA SpecIInv == Spec => []IInv
BY InitIInv, NextIInv, PTL DEF Spec

(* The variables of runtime_exec_gate.go keep their types; above all the   *)
(* depth and the waiters of a gate never go below zero.                    *)
THEOREM TypeCorrect == Spec => []TypeOK
BY SpecIInv, PTL DEF IInv

(* Never do two goroutines drive one instance, however gates are reclaimed *)
(* and created anew around them.                                           *)
THEOREM Exclusion == Spec => []MutualExclusion
<1>1. IInv => MutualExclusion
  BY NoOneAssumption
  DEF IInv, TypeOK, MutualExclusion, HoldIsDepth, OwnedIsCurrent
<1>2. QED
  BY SpecIInv, <1>1, PTL

(* A gate that is free in the table is about to be taken: reclamation      *)
(* leaves nothing behind.                                                  *)
THEOREM Reclamation == Spec => []NoGateLeak
BY SpecIInv, PTL DEF IInv

(* Two goroutines never wait for each other, because the drives of a child *)
(* call into the parent's and never the reverse.                           *)
THEOREM NoDeadlockOfTwo == Spec => []NoCrossWait
<1>1. IInv => NoCrossWait
  <2> SUFFICES ASSUME IInv, NEW p \in Goroutine, NEW q \in Goroutine,
                      Blocks(q, p), Blocks(p, q)
               PROVE  FALSE
    BY DEF NoCrossWait
  <2> USE DEF IInv, TypeOK
  <2>1. /\ ref[p] \in Gate /\ want[p] \in Instance /\ key[ref[p]] = want[p]
        /\ gates[want[p]] = ref[p] /\ owner[ref[p]] = q /\ p # q
    BY DEF Blocks, References, SleepsOnCurrent, Asking, Sleeping
  <2>2. /\ ref[q] \in Gate /\ want[q] \in Instance /\ key[ref[q]] = want[q]
        /\ gates[want[q]] = ref[q] /\ owner[ref[q]] = p
    BY DEF Blocks, References, SleepsOnCurrent, Asking, Sleeping
  <2>3. hold[q][ref[p]] > 0 /\ hold[p][ref[q]] > 0
    BY <2>1, <2>2, NoOneAssumption DEF HoldIsDepth, OwnedIsCurrent
  <2>4. <<want[p], want[q]>> \in Nest /\ <<want[q], want[p]>> \in Nest
    BY <2>1, <2>2, <2>3 DEF CallsBack, Blocks
  <2>5. want[p] = want[q]
    BY <2>1, <2>2, <2>4, NestAssumption
  <2>6. QED
    BY <2>1, <2>2, <2>5
<1>2. QED
  BY SpecIInv, <1>1, PTL

-----------------------------------------------------------------------------
(* The refinement: read through the table, the gates are one re-entrant    *)
(* mutex per instance.                                                     *)

LEMMA InitMutex == Init => Mutex!MInit
BY DEF Init, Mutex!MInit, Holder, Count

(* Steps that change neither the table nor owners and depths are invisible. *)
LEMMA InvisibleSteps ==
  ASSUME NEW p \in Goroutine,
         \/ LoadGate(p) \/ Retry(p) \/ Wait(p) \/ SleepAgain(p)
         \/ \E i \in Instance : Enter(p, i)
  PROVE  UNCHANGED Mutex!mvars
BY DEF LoadGate, Retry, Wait, SleepAgain, Enter, Mutex!mvars, Holder, Count

LEMMA StoreGateInvisible ==
  ASSUME NEW p \in Goroutine, NEW g \in Gate, IInv, StoreGate(p, g)
  PROVE  UNCHANGED Mutex!mvars
<1> USE DEF IInv, TypeOK, StoreGate
<1>1. \A i \in Instance \ {want[p]} : /\ gates'[i] = gates[i]
                                      /\ gates[i] # NoGate => gates[i] \in Gate \ {g}
  BY DEF Unused
<1>2. want[p] \in Instance /\ gates'[want[p]] = g /\ owner'[g] = NoOne /\ depth'[g] = 0
  BY DEF References
<1>3. Holder' = Holder
  BY <1>1, <1>2 DEF Holder
<1>4. Count' = Count
  BY <1>1, <1>2 DEF Count
<1>5. QED
  BY <1>3, <1>4 DEF Mutex!mvars

(* Own and WakeOwn take the gate the table holds for the instance. *)
LEMMA TakeIsAcquire ==
  ASSUME NEW p \in Goroutine, IInv, Own(p) \/ WakeOwn(p)
  PROVE  \E i \in Instance : Mutex!Acquire(p, i)
<1> USE DEF IInv, TypeOK
<1>1. PICK i \in Instance, r \in Gate :
        i = want[p] /\ r = ref[p] /\ gates[i] = r /\ owner[r] = NoOne
  BY DEF Own, WakeOwn, IsCurrent, References, SleepsOnCurrent, Asking, Sleeping
<1>2. /\ owner' = [owner EXCEPT ![r] = p] /\ depth' = [depth EXCEPT ![r] = 1]
      /\ gates' = gates
  BY <1>1 DEF Own, WakeOwn, TakeGate
<1>3. \A j \in Instance \ {i} : gates[j] # r
  BY <1>1, NoGateAssumption DEF TableKeyed
<1>4. Holder[i] = NoOne
  BY <1>1, NoGateAssumption DEF Holder
<1>5. Holder' = [Holder EXCEPT ![i] = p]
  BY <1>1, <1>2, <1>3, NoGateAssumption DEF Holder
<1>6. Count' = [Count EXCEPT ![i] = 1]
  BY <1>1, <1>2, <1>3, NoGateAssumption DEF Count
<1>7. QED
  BY <1>4, <1>5, <1>6 DEF Mutex!Acquire

LEMMA ReenterIsReacquire ==
  ASSUME NEW p \in Goroutine, IInv, Reenter(p)
  PROVE  \E i \in Instance : Mutex!Reacquire(p, i)
<1> USE DEF IInv, TypeOK
<1>1. PICK i \in Instance, r \in Gate :
        i = want[p] /\ r = ref[p] /\ gates[i] = r /\ owner[r] = p
  BY NoOneAssumption DEF Reenter, References, OwnedIsCurrent, Asking
<1>2. /\ depth' = [depth EXCEPT ![r] = depth[r] + 1] /\ gates' = gates /\ owner' = owner
  BY <1>1 DEF Reenter
<1>3. \A j \in Instance \ {i} : gates[j] # r
  BY <1>1, NoGateAssumption DEF TableKeyed
<1>4. Holder[i] = p /\ Holder' = Holder
  BY <1>1, <1>2, NoGateAssumption DEF Holder
<1>5. Count' = [Count EXCEPT ![i] = Count[i] + 1]
  BY <1>1, <1>2, <1>3, NoGateAssumption DEF Count
<1>6. QED
  BY <1>4, <1>5 DEF Mutex!Reacquire

(* Whether or not the outermost release takes the gate out of the table,   *)
(* the instance is free afterwards.                                        *)
LEMMA ReleaseIsGiveBack ==
  ASSUME NEW p \in Goroutine, NEW g \in Gate, IInv, Release(p, g)
  PROVE  \E i \in Instance : Mutex!GiveBack(p, i)
<1> USE DEF IInv, TypeOK
<1>1. PICK i \in Instance : /\ i = key[g] /\ gates[i] = g /\ owner[g] = p
                            /\ depth[g] \in Nat /\ depth[g] > 0
  BY NoOneAssumption DEF Release, HoldIsDepth, OwnedIsCurrent
<1>2. \A j \in Instance \ {i} : gates[j] # g /\ gates'[j] = gates[j]
  BY <1>1, NoGateAssumption DEF Release, Reclaim, TableKeyed
<1>3. gates'[i] = g \/ (gates'[i] = NoGate /\ depth[g] = 1)
  BY <1>1 DEF Release, Reclaim
<1>4. Holder[i] = p /\ Count[i] = depth[g]
  BY <1>1, NoGateAssumption DEF Holder, Count
<1>5. Holder' = [Holder EXCEPT ![i] = IF Count[i] = 1 THEN NoOne ELSE p]
  <2>1. Holder'[i] = IF Count[i] = 1 THEN NoOne ELSE p
    BY <1>1, <1>3, <1>4, NoGateAssumption DEF Release, Holder
  <2>2. \A j \in Instance \ {i} : Holder'[j] = Holder[j]
    BY <1>2 DEF Release, Holder
  <2>3. QED
    BY <2>1, <2>2 DEF Holder
<1>6. Count' = [Count EXCEPT ![i] = Count[i] - 1]
  <2>1. Count'[i] = Count[i] - 1
    BY <1>1, <1>3, <1>4, NoGateAssumption DEF Release, Count
  <2>2. \A j \in Instance \ {i} : Count'[j] = Count[j]
    BY <1>2 DEF Release, Count
  <2>3. QED
    BY <2>1, <2>2 DEF Count
<1>7. QED
  BY <1>1, <1>4, <1>5, <1>6 DEF Mutex!GiveBack

(* What the runtime service relies on: the table of gates implements the   *)
(* re-entrant mutex of module InstanceMutex.                               *)
THEOREM Refinement == Spec => ImplementsMutex
<1>1. IInv /\ [Next]_vars => [Mutex!MNext]_(Mutex!mvars)
  <2> SUFFICES ASSUME IInv, [Next]_vars PROVE [Mutex!MNext]_(Mutex!mvars)
    OBVIOUS
  <2>1. ASSUME NEW p \in Goroutine, Progress(p) PROVE [Mutex!MNext]_(Mutex!mvars)
    BY <2>1, InvisibleSteps, StoreGateInvisible, TakeIsAcquire, ReenterIsReacquire,
       ReleaseIsGiveBack DEF Progress, Mutex!MNext
  <2>2. ASSUME NEW p \in Goroutine, NEW i \in Instance, Enter(p, i)
        PROVE  [Mutex!MNext]_(Mutex!mvars)
    BY <2>2, InvisibleSteps
  <2>3. CASE UNCHANGED vars
    BY <2>3 DEF vars, Mutex!mvars, Holder, Count
  <2>4. QED
    BY <2>1, <2>2, <2>3 DEF Next
<1>2. QED
  BY InitMutex, SpecIInv, <1>1, PTL DEF Spec, ImplementsMutex, Mutex!MSpec
=============================================================================
