-------------------------- MODULE DriveGatesProofs --------------------------
(***************************************************************************)
(* The drive gates of any number of drives, replicas, end executions and   *)
(* keys, of leases of any life: no lease is taken from a client that keeps *)
(* it, and two drives of the instance never run side by side on two leases *)
(* unless the locker failed for a lease's whole life.                      *)
(***************************************************************************)
EXTENDS DriveGates, TLAPS

USE KeyOfAssumption, TtlAssumption, NoLeaseAssumption, DrawnAssumption, MaxFaultsAssumption,
    ClientAssumption, ReplicaAssumption, NoOneAssumption, BoundAssumption

-----------------------------------------------------------------------------
(* Types.                                                                  *)

(* The value an attempt draws is the client's own and new to everybody.    *)
LEMMA FreshDrawn ==
  ASSUME NEW c \in Client, Unused(c) # {}
  PROVE  /\ Fresh(c) \in Unused(c)
         /\ Fresh(c) \in Drawn[c]
         /\ Fresh(c) \in Lease
         /\ Fresh(c) # NoLease
<1>1. Fresh(c) \in Unused(c)
  BY DEF Fresh
<1>2. Fresh(c) \in Drawn[c]
  BY <1>1 DEF Unused
<1>3. Fresh(c) \in Lease
  BY <1>2
<1>. QED BY <1>1, <1>2, <1>3

LEMMA TakeType ==
  ASSUME LockTypeOK, NEW c \in Client, Take(c)
  PROVE  LockTypeOK'
<1>1. Fresh(c) \in Lease /\ KeyOf[c] \in Key /\ Ttl[KeyOf[c]] \in Nat
  BY FreshDrawn DEF Take
<1>. QED BY <1>1 DEF Take, LockTypeOK

LEMMA RefuseType ==
  ASSUME LockTypeOK, NEW c \in Client, Refuse(c)
  PROVE  LockTypeOK'
BY DEF Refuse, LockTypeOK

LEMMA UnlockType ==
  ASSUME LockTypeOK, NEW c \in Client, Unlock(c)
  PROVE  LockTypeOK'
<1>1. CASE Match(c)
  BY <1>1 DEF Unlock, LockTypeOK
<1>2. CASE ~Match(c)
  BY <1>2 DEF Unlock, LockTypeOK
<1>. QED BY <1>1, <1>2

LEMMA LockStepType ==
  ASSUME LockTypeOK, NEW c \in Client, LockStep(c)
  PROVE  LockTypeOK'
<1>1. CASE Store(c)
  BY <1>1, TakeType DEF Store
<1>2. CASE Load(c)
  BY <1>2 DEF Load, LockTypeOK
<1>3. CASE HostRefuse(c)
  BY <1>3, RefuseType DEF HostRefuse
<1>4. CASE Valid(c)
  BY <1>4, RefuseType DEF Valid
<1>5. CASE Expired(c)
  BY <1>5 DEF Expired, LockTypeOK
<1>6. CASE Swap(c)
  BY <1>6, TakeType DEF Swap
<1>7. CASE SwapLost(c)
  BY <1>7, RefuseType DEF SwapLost
<1>8. CASE Fault(c)
  BY <1>8 DEF Fault, LockTypeOK
<1>. QED BY <1>1, <1>2, <1>3, <1>4, <1>5, <1>6, <1>7, <1>8 DEF LockStep

(* Only the client's own place moves: at[c] gets another value of its type.*)
LEMMA MoveType ==
  ASSUME LockTypeOK, NEW c \in Client,
         NEW v \in {"idle", "try", "loaded", "swap", "refused", "failed", "release"},
         at' = [at EXCEPT ![c] = v],
         UNCHANGED <<host, entry, ttl, info, held, sweep, faults>>
  PROVE  LockTypeOK'
BY DEF LockTypeOK

LEMMA WaneType ==
  ASSUME LockTypeOK, NEW k \in Key, Wane(k), faults' \in 0..MaxFaults
  PROVE  LockTypeOK'
<1>1. ttl[k] - 1 \in Nat
  BY DEF Wane, LockTypeOK
<1>. QED BY <1>1 DEF Wane, LockTypeOK

LEMMA TypeInit == Init => TypeOK
<1>. SUFFICES ASSUME Init PROVE TypeOK
  OBVIOUS
<1>1. LockTypeOK
  BY DEF Init, LockInit, LockTypeOK
<1>2. tries \in [Drive -> 0..MaxTries] /\ crashes \in 0..MaxCrashes
  BY DEF Init
<1>. QED BY <1>1, <1>2 DEF Init, TypeOK

LEMMA TypeNext == TypeOK /\ [Next]_vars => TypeOK'
<1>. SUFFICES ASSUME TypeOK, [Next]_vars PROVE TypeOK'
  OBVIOUS
<1>. USE DEF TypeOK
<1>1. CASE \E c \in Client : LockStep(c) /\ UNCHANGED <<gateVars, endVars, crashes>>
  BY <1>1, LockStepType DEF gateVars, endVars
<1>2. ASSUME NEW p \in Drive, NEW r \in Replica, NEW s \in BOOLEAN, Enter(p, r, s)
      PROVE  TypeOK'
  <2>1. LockTypeOK'
    BY <1>2, MoveType DEF Enter
  <2>. QED BY <1>2, <2>1 DEF Enter, endVars
<1>3. ASSUME NEW p \in Drive, Admit(p)
      PROVE  TypeOK'
  <2>1. LockTypeOK'
    BY <1>3 DEF Admit, lockVars, LockTypeOK
  <2>. QED BY <1>3, <2>1 DEF Admit, Proceed, endVars
<1>4. ASSUME NEW p \in Drive, Again(p)
      PROVE  TypeOK'
  <2>1. LockTypeOK'
    BY <1>4, MoveType DEF Again
  <2>2. CountTry(p) \in 0..MaxTries
    BY <1>4 DEF Again, TriesLeft, CountTry
  <2>. QED BY <1>4, <2>1, <2>2 DEF Again, endVars
<1>5. ASSUME NEW p \in Drive, Unlocked(p)
      PROVE  TypeOK'
  <2>1. LockTypeOK'
    BY <1>5, MoveType DEF Unlocked
  <2>. QED BY <1>5, <2>1 DEF Unlocked, Proceed, endVars
<1>6. ASSUME NEW p \in Drive, GiveWay(p)
      PROVE  TypeOK'
  <2>1. LockTypeOK'
    BY <1>6, MoveType DEF GiveWay
  <2>. QED BY <1>6, <2>1 DEF GiveWay, GivenBack, endVars
<1>7. ASSUME NEW p \in Drive, Finish(p)
      PROVE  TypeOK'
  <2>1. LockTypeOK'
    BY <1>7 DEF Finish, lockVars, LockTypeOK
  <2>. QED BY <1>7, <2>1 DEF Finish, endVars
<1>8. ASSUME NEW p \in Drive, Release(p)
      PROVE  TypeOK'
  <2>1. LockTypeOK'
    BY <1>8, UnlockType DEF Release
  <2>. QED BY <1>8, <2>1 DEF Release, gateVars, endVars
<1>9. ASSUME NEW p \in Drive, Leave(p)
      PROVE  TypeOK'
  <2>1. LockTypeOK'
    BY <1>9 DEF Leave, lockVars, LockTypeOK
  <2>. QED BY <1>9, <2>1 DEF Leave, GivenBack, endVars
<1>10. ASSUME NEW e \in EndExec, NEW p \in Drive, EndBefore(e, p)
       PROVE  TypeOK'
  <2>1. LockTypeOK'
    BY <1>10, MoveType DEF EndBefore
  <2>. QED BY <1>10, <2>1 DEF EndBefore, gateVars
<1>11. ASSUME NEW e \in EndExec, EndSuppressed(e)
       PROVE  TypeOK'
  <2>1. LockTypeOK'
    BY <1>11, MoveType DEF EndSuppressed
  <2>. QED BY <1>11, <2>1 DEF EndSuppressed, gateVars
<1>12. ASSUME NEW e \in EndExec, EndAfter(e)
       PROVE  TypeOK'
  <2>1. LockTypeOK'
    BY <1>12, MoveType DEF EndAfter
  <2>. QED BY <1>12, <2>1 DEF EndAfter, gateVars
<1>13. ASSUME NEW e \in EndExec, EndUnlocked(e)
       PROVE  TypeOK'
  <2>1. LockTypeOK'
    BY <1>13, MoveType DEF EndUnlocked
  <2>. QED BY <1>13, <2>1 DEF EndUnlocked, gateVars
<1>14. ASSUME NEW e \in EndExec, EndRelease(e)
       PROVE  TypeOK'
  <2>1. LockTypeOK'
    BY <1>14, UnlockType DEF EndRelease
  <2>. QED BY <1>14, <2>1 DEF EndRelease, gateVars
<1>15. ASSUME NEW k \in Key, Renew(k)
       PROVE  TypeOK'
  <2>1. LockTypeOK'
    BY <1>15 DEF Renew, Extend, LockTypeOK
  <2>. QED BY <1>15, <2>1 DEF Renew, gateVars, endVars
<1>16. ASSUME NEW k \in Key, Pass(k)
       PROVE  TypeOK'
  <2>1. faults' \in 0..MaxFaults
    BY <1>16 DEF Pass, LockTypeOK
  <2>2. LockTypeOK'
    BY <1>16, <2>1, WaneType DEF Pass
  <2>. QED BY <1>16, <2>2 DEF Pass, gateVars, endVars
<1>17. ASSUME NEW k \in Key, SweepFind(k), UNCHANGED <<gateVars, endVars, crashes>>
       PROVE  TypeOK'
  BY <1>17 DEF SweepFind, LockTypeOK, gateVars, endVars
<1>18. ASSUME NEW k \in Key, SweepDelete(k), UNCHANGED <<gateVars, endVars, crashes>>
       PROVE  TypeOK'
  BY <1>18 DEF SweepDelete, LockTypeOK, gateVars, endVars
<1>19. ASSUME NEW r \in Replica, Crash(r)
       PROVE  TypeOK'
  <2>1. LockTypeOK'
    BY <1>19 DEF Crash, Down, LockTypeOK
  <2>. QED BY <1>19, <2>1 DEF Crash, Down
<1>20. CASE UNCHANGED vars
  BY <1>20 DEF vars, lockVars, gateVars, endVars, LockTypeOK
<1>. QED BY <1>1, <1>2, <1>3, <1>4, <1>5, <1>6, <1>7, <1>8, <1>9, <1>10, <1>11, <1>12, <1>13,
            <1>14, <1>15, <1>16, <1>17, <1>18, <1>19, <1>20 DEF Next

(* Every variable of the gates and the lock keeps its type.                *)
THEOREM TypeCorrect == Spec => []TypeOK
BY TypeInit, TypeNext, PTL DEF Spec

-----------------------------------------------------------------------------
(* Leases.                                                                 *)

(* What a client believes it holds, it has drawn: two clients never hold   *)
(* the same value.                                                         *)
OwnValues == \A c \in Client : held[c] # NoLease => held[c] \in Drawn[c]

(* A lease that somebody is about to replace or delete as expired has      *)
(* expired, if it is still in the table; a distributed lock is asked for   *)
(* neither.                                                                *)
SeenLease == \A c \in Client : at[c] \in {"loaded", "swap"} => info[c] # NoLease /\ ~host
SwapExpired == \A c \in Client :
                 at[c] = "swap" /\ entry[KeyOf[c]] = info[c] => ttl[KeyOf[c]] = 0
SweepExpired == \A k \in Key : sweep[k] # NoLease =>
                  ~host /\ (sweep[k] = entry[k] => ttl[k] = 0)
LeaseInv == OwnValues /\ SeenLease /\ SwapExpired /\ SweepExpired

(* A step that leaves the table alone, gives no client a value and puts    *)
(* none before a CompareAndSwap.                                           *)
Quiet == /\ UNCHANGED <<host, entry, ttl, sweep>>
         /\ \A c \in Client :
              /\ held'[c] \in {held[c], NoLease}
              /\ \/ at'[c] = at[c] /\ info'[c] = info[c]
                 \/ at'[c] \notin {"loaded", "swap"}

LEMMA QuietLease ==
  ASSUME LeaseInv, Quiet
  PROVE  LeaseInv'
<1>1. OwnValues'
  BY DEF LeaseInv, OwnValues, Quiet
<1>2. SeenLease'
  BY DEF LeaseInv, SeenLease, Quiet
<1>3. SwapExpired'
  BY DEF LeaseInv, SwapExpired, Quiet
<1>4. SweepExpired'
  BY DEF LeaseInv, SweepExpired, Quiet
<1>. QED BY <1>1, <1>2, <1>3, <1>4 DEF LeaseInv

(* Only one client's place moves, and not to a CompareAndSwap.             *)
LEMMA MoveQuiet ==
  ASSUME LockTypeOK, NEW c \in Client,
         NEW v \in {"idle", "try", "refused", "failed", "release"},
         at' = [at EXCEPT ![c] = v],
         UNCHANGED <<host, entry, ttl, info, held, sweep>>
  PROVE  Quiet
BY DEF LockTypeOK, Quiet

LEMMA RefuseQuiet ==
  ASSUME LockTypeOK, NEW c \in Client, Refuse(c)
  PROVE  Quiet
BY DEF Refuse, LockTypeOK, Quiet

(* What a successful attempt leaves.                                       *)
LEMMA TakeEffect ==
  ASSUME LockTypeOK, NEW c \in Client, Take(c)
  PROVE  /\ Fresh(c) \in Drawn[c] /\ Fresh(c) # NoLease
         /\ \A k \in Key : sweep[k] # Fresh(c) /\ entry[k] # Fresh(c)
         /\ \A d \in Client : info[d] # Fresh(c) /\ held[d] # Fresh(c)
         /\ entry'[KeyOf[c]] = Fresh(c) /\ held'[c] = Fresh(c)
         /\ ttl'[KeyOf[c]] = Ttl[KeyOf[c]]
         /\ \A k \in Key \ {KeyOf[c]} : entry'[k] = entry[k] /\ ttl'[k] = ttl[k]
         /\ \A d \in Client \ {c} : held'[d] = held[d] /\ info'[d] = info[d] /\ at'[d] = at[d]
         /\ at'[c] = "idle"
         /\ UNCHANGED <<host, sweep, faults>>
<1>1. Unused(c) # {} /\ KeyOf[c] \in Key
  BY DEF Take
<1>2. Fresh(c) \in Unused(c) /\ Fresh(c) \in Drawn[c] /\ Fresh(c) # NoLease
  BY <1>1, FreshDrawn
<1>3. /\ \A k \in Key : sweep[k] # Fresh(c) /\ entry[k] # Fresh(c)
      /\ \A d \in Client : info[d] # Fresh(c) /\ held[d] # Fresh(c)
  BY <1>2 DEF Unused
<1>4. /\ entry'[KeyOf[c]] = Fresh(c) /\ held'[c] = Fresh(c)
      /\ ttl'[KeyOf[c]] = Ttl[KeyOf[c]]
      /\ \A k \in Key \ {KeyOf[c]} : entry'[k] = entry[k] /\ ttl'[k] = ttl[k]
  BY <1>1 DEF Take, LockTypeOK
<1>5. /\ \A d \in Client \ {c} : held'[d] = held[d] /\ info'[d] = info[d] /\ at'[d] = at[d]
      /\ at'[c] = "idle"
      /\ UNCHANGED <<host, sweep, faults>>
  BY DEF Take, LockTypeOK
<1>. QED BY <1>2, <1>3, <1>4, <1>5

LEMMA TakeLease ==
  ASSUME LockTypeOK, LeaseInv, NEW c \in Client, Take(c)
  PROVE  LeaseInv'
<1>1. OwnValues'
  BY TakeEffect DEF LeaseInv, OwnValues
<1>2. SeenLease'
  BY TakeEffect DEF LeaseInv, SeenLease
<1>3. SwapExpired'
  <2>. SUFFICES ASSUME NEW d \in Client, at'[d] = "swap", entry'[KeyOf[d]] = info'[d]
                PROVE  ttl'[KeyOf[d]] = 0
    BY DEF SwapExpired
  <2>1. d # c
    BY TakeEffect
  <2>2. at[d] = "swap" /\ info'[d] = info[d]
    BY <2>1, TakeEffect
  <2>3. KeyOf[d] # KeyOf[c]
    BY <2>2, TakeEffect
  <2>4. KeyOf[d] \in Key
    OBVIOUS
  <2>. QED BY <2>2, <2>3, <2>4, TakeEffect DEF LeaseInv, SwapExpired
<1>4. SweepExpired'
  BY TakeEffect DEF LeaseInv, SweepExpired
<1>. QED BY <1>1, <1>2, <1>3, <1>4 DEF LeaseInv

LEMMA UnlockLease ==
  ASSUME LockTypeOK, LeaseInv, NEW c \in Client, Unlock(c)
  PROVE  LeaseInv'
<1>1. CASE ~Match(c)
  <2>1. Quiet
    BY <1>1 DEF Unlock, LockTypeOK, Quiet
  <2>. QED BY <2>1, QuietLease
<1>2. CASE Match(c)
  <2>1. /\ entry'[KeyOf[c]] = NoLease
        /\ \A k \in Key \ {KeyOf[c]} : entry'[k] = entry[k] /\ ttl'[k] = ttl[k]
    BY <1>2 DEF Unlock, LockTypeOK
  <2>2. /\ \A d \in Client : held'[d] \in {held[d], NoLease} /\ at'[d] \in {at[d], "idle"}
        /\ UNCHANGED <<host, info, sweep>>
    BY DEF Unlock, LockTypeOK
  <2>3. OwnValues' /\ SeenLease'
    BY <2>2 DEF LeaseInv, OwnValues, SeenLease
  <2>4. SwapExpired'
    <3>. SUFFICES ASSUME NEW d \in Client, at'[d] = "swap", entry'[KeyOf[d]] = info'[d]
                  PROVE  ttl'[KeyOf[d]] = 0
      BY DEF SwapExpired
    <3>1. at[d] = "swap" /\ info'[d] = info[d] /\ KeyOf[d] \in Key
      BY <2>2
    <3>2. KeyOf[d] # KeyOf[c]
      BY <3>1, <2>1 DEF LeaseInv, SeenLease
    <3>. QED BY <3>1, <3>2, <2>1 DEF LeaseInv, SwapExpired
  <2>5. SweepExpired'
    BY <2>1, <2>2 DEF LeaseInv, SweepExpired
  <2>. QED BY <2>3, <2>4, <2>5 DEF LeaseInv
<1>. QED BY <1>1, <1>2

LEMMA LockStepLease ==
  ASSUME LockTypeOK, LeaseInv, NEW c \in Client, LockStep(c)
  PROVE  LeaseInv'
<1>1. CASE Store(c) \/ Swap(c)
  BY <1>1, TakeLease DEF Store, Swap
<1>2. CASE HostRefuse(c) \/ Valid(c) \/ SwapLost(c)
  BY <1>2, RefuseQuiet, QuietLease DEF HostRefuse, Valid, SwapLost
<1>3. CASE Fault(c)
  BY <1>3, MoveQuiet, QuietLease DEF Fault
<1>4. CASE Load(c)
  <2>1. /\ info'[c] # NoLease /\ at'[c] = "loaded" /\ ~host
        /\ \A d \in Client \ {c} : info'[d] = info[d] /\ at'[d] = at[d]
        /\ UNCHANGED <<host, entry, ttl, held, sweep>>
    BY <1>4 DEF Load, LockTypeOK
  <2>2. OwnValues' /\ SweepExpired'
    BY <2>1 DEF LeaseInv, OwnValues, SweepExpired
  <2>3. SeenLease' /\ SwapExpired'
    BY <2>1 DEF LeaseInv, SeenLease, SwapExpired
  <2>. QED BY <2>2, <2>3 DEF LeaseInv
<1>5. CASE Expired(c)
  <2>1. /\ at[c] = "loaded" /\ at'[c] = "swap"
        /\ entry[KeyOf[c]] = info[c] => ttl[KeyOf[c]] = 0
        /\ \A d \in Client \ {c} : at'[d] = at[d]
        /\ UNCHANGED <<host, entry, ttl, held, info, sweep>>
    BY <1>5 DEF Expired, FoundGone, LockTypeOK
  <2>2. OwnValues' /\ SweepExpired'
    BY <2>1 DEF LeaseInv, OwnValues, SweepExpired
  <2>3. SeenLease'
    BY <2>1 DEF LeaseInv, SeenLease
  <2>4. SwapExpired'
    BY <2>1 DEF LeaseInv, SwapExpired
  <2>. QED BY <2>2, <2>3, <2>4 DEF LeaseInv
<1>. QED BY <1>1, <1>2, <1>3, <1>4, <1>5 DEF LockStep

LEMMA WaneLease ==
  ASSUME LockTypeOK, LeaseInv, NEW k \in Key, Wane(k)
  PROVE  LeaseInv'
<1>1. /\ \A j \in Key \ {k} : entry'[j] = entry[j] /\ ttl'[j] = ttl[j]
      /\ ttl[k] > 0 /\ entry'[k] \in {entry[k], NoLease}
      /\ UNCHANGED <<host, at, info, held, sweep>>
  BY DEF Wane, LockTypeOK
<1>2. OwnValues' /\ SeenLease'
  BY <1>1 DEF LeaseInv, OwnValues, SeenLease
<1>3. SwapExpired'
  <2>. SUFFICES ASSUME NEW d \in Client, at[d] = "swap", entry'[KeyOf[d]] = info[d]
                PROVE  ttl'[KeyOf[d]] = 0
    BY <1>1 DEF SwapExpired
  <2>1. info[d] # NoLease /\ KeyOf[d] \in Key
    BY DEF LeaseInv, SeenLease
  <2>2. entry[KeyOf[d]] = info[d]
    BY <2>1, <1>1
  <2>3. ttl[KeyOf[d]] = 0
    BY <2>2 DEF LeaseInv, SwapExpired
  <2>. QED BY <2>1, <2>3, <1>1
<1>4. SweepExpired'
  <2>. SUFFICES ASSUME NEW j \in Key, sweep[j] # NoLease
                PROVE  ~host /\ (sweep[j] = entry'[j] => ttl'[j] = 0)
    BY <1>1 DEF SweepExpired
  <2>1. ~host /\ (sweep[j] = entry[j] => ttl[j] = 0)
    BY DEF LeaseInv, SweepExpired
  <2>. QED BY <2>1, <1>1
<1>. QED BY <1>2, <1>3, <1>4 DEF LeaseInv

LEMMA LeaseInit == Init => LeaseInv
BY DEF Init, LockInit, LeaseInv, OwnValues, SeenLease, SwapExpired, SweepExpired

LEMMA LeaseNext == TypeOK /\ LeaseInv /\ [Next]_vars => LeaseInv'
<1>. SUFFICES ASSUME TypeOK, LeaseInv, [Next]_vars PROVE LeaseInv'
  OBVIOUS
<1>. LockTypeOK
  BY DEF TypeOK
<1>1. CASE \E c \in Client : LockStep(c) /\ UNCHANGED <<gateVars, endVars, crashes>>
  BY <1>1, LockStepLease
<1>2. ASSUME NEW p \in Drive,
             \/ \E r \in Replica, s \in BOOLEAN : Enter(p, r, s)
             \/ Again(p) \/ Unlocked(p) \/ GiveWay(p)
      PROVE  LeaseInv'
  <2>1. Quiet
    BY <1>2, MoveQuiet DEF Enter, Again, Unlocked, GiveWay
  <2>. QED BY <2>1, QuietLease
<1>3. ASSUME NEW p \in Drive, Admit(p) \/ Finish(p) \/ Leave(p)
      PROVE  LeaseInv'
  <2>1. Quiet
    BY <1>3 DEF Admit, Finish, Leave, lockVars, Quiet
  <2>. QED BY <2>1, QuietLease
<1>4. ASSUME NEW p \in Drive, Release(p)
      PROVE  LeaseInv'
  BY <1>4, UnlockLease DEF Release
<1>5. ASSUME NEW e \in EndExec,
             \/ \E p \in Drive : EndBefore(e, p)
             \/ EndSuppressed(e) \/ EndAfter(e) \/ EndUnlocked(e)
      PROVE  LeaseInv'
  <2>1. Quiet
    BY <1>5, MoveQuiet DEF EndBefore, EndSuppressed, EndAfter, EndUnlocked
  <2>. QED BY <2>1, QuietLease
<1>6. ASSUME NEW e \in EndExec, EndRelease(e)
      PROVE  LeaseInv'
  BY <1>6, UnlockLease DEF EndRelease
<1>7. ASSUME NEW k \in Key, Renew(k)
      PROVE  LeaseInv'
  <2>1. host /\ UNCHANGED <<host, entry, at, info, held, sweep>>
    BY <1>7 DEF Renew, Extend
  <2>. QED BY <2>1 DEF LeaseInv, OwnValues, SeenLease, SwapExpired, SweepExpired
<1>8. ASSUME NEW k \in Key, Pass(k)
      PROVE  LeaseInv'
  BY <1>8, WaneLease DEF Pass
<1>9. ASSUME NEW k \in Key, SweepFind(k)
      PROVE  LeaseInv'
  <2>1. /\ ~host /\ ttl[k] = 0
        /\ \A j \in Key \ {k} : sweep'[j] = sweep[j]
        /\ UNCHANGED <<host, entry, ttl, at, info, held>>
    BY <1>9 DEF SweepFind, LockTypeOK
  <2>. QED BY <2>1 DEF LeaseInv, OwnValues, SeenLease, SwapExpired, SweepExpired
<1>10. ASSUME NEW k \in Key, SweepDelete(k)
       PROVE  LeaseInv'
  <2>1. /\ \A j \in Key : entry'[j] \in {entry[j], NoLease}
        /\ \A j \in Key : sweep'[j] \in {sweep[j], NoLease}
        /\ UNCHANGED <<host, ttl, at, info, held>>
    BY <1>10 DEF SweepDelete, LockTypeOK
  <2>2. OwnValues' /\ SeenLease' /\ SweepExpired'
    BY <2>1 DEF LeaseInv, OwnValues, SeenLease, SweepExpired
  <2>3. SwapExpired'
    BY <2>1 DEF LeaseInv, SeenLease, SwapExpired
  <2>. QED BY <2>2, <2>3 DEF LeaseInv
<1>11. ASSUME NEW r \in Replica, Crash(r)
       PROVE  LeaseInv'
  <2>1. Quiet
    BY <1>11 DEF Crash, Down, LockTypeOK, Quiet
  <2>. QED BY <2>1, QuietLease
<1>12. CASE UNCHANGED vars
  <2>1. Quiet
    BY <1>12 DEF vars, lockVars, Quiet
  <2>. QED BY <2>1, QuietLease
<1>. QED BY <1>1, <1>2, <1>3, <1>4, <1>5, <1>6, <1>7, <1>8, <1>9, <1>10, <1>11, <1>12 DEF Next

(* What a step leaves of a lease that is alive and kept by its holder.     *)
Kept(c) == \/ entry'[KeyOf[c]] = held[c]
           \/ host /\ ttl[KeyOf[c]] = 1 /\ entry'[KeyOf[c]] = NoLease
KeepsLease == \A c \in Client : Live(c) /\ held'[c] = held[c] => Kept(c)

LEMMA UnlockKeeps ==
  ASSUME LockTypeOK, LeaseInv, NEW d \in Client, Unlock(d)
  PROVE  KeepsLease
<1>. SUFFICES ASSUME NEW c \in Client, Live(c), held'[c] = held[c]
              PROVE  entry'[KeyOf[c]] = entry[KeyOf[c]]
  BY DEF KeepsLease, Kept, Live
<1>1. held[c] \in Drawn[c] /\ held[c] # NoLease /\ entry[KeyOf[c]] = held[c] /\ KeyOf[c] \in Key
  BY DEF Live, LeaseInv, OwnValues
<1>2. d # c
  BY <1>1 DEF Unlock, LockTypeOK
<1>3. held[d] # held[c]
  BY <1>1, <1>2 DEF LeaseInv, OwnValues
<1>4. CASE KeyOf[d] = KeyOf[c]
  <2>1. ~Match(d)
    BY <1>1, <1>3, <1>4 DEF Match
  <2>. QED BY <2>1 DEF Unlock
<1>5. CASE KeyOf[d] # KeyOf[c]
  BY <1>5, <1>1 DEF Unlock, LockTypeOK
<1>. QED BY <1>4, <1>5

LEMMA TakeKeeps ==
  ASSUME LockTypeOK, LeaseInv, NEW d \in Client, Store(d) \/ Swap(d)
  PROVE  KeepsLease
<1>. SUFFICES ASSUME NEW c \in Client, Live(c), held'[c] = held[c]
              PROVE  entry'[KeyOf[c]] = entry[KeyOf[c]]
  BY DEF KeepsLease, Kept, Live
<1>1. Take(d) /\ KeyOf[c] \in Key /\ KeyOf[d] \in Key
  BY DEF Store, Swap
<1>2. KeyOf[d] # KeyOf[c]
  <2>1. CASE Store(d)
    BY <2>1 DEF Store, Live
  <2>2. CASE Swap(d)
    <3>1. at[d] = "swap" /\ entry[KeyOf[d]] = info[d]
      BY <2>2 DEF Swap, StillThere
    <3>2. ttl[KeyOf[d]] = 0
      BY <3>1 DEF LeaseInv, SwapExpired
    <3>. QED BY <3>2 DEF Live
  <2>. QED BY <2>1, <2>2
<1>. QED BY <1>1, <1>2, TakeEffect

LEMMA LeaseStep == TypeOK /\ LeaseInv /\ [Next]_vars => KeepsLease
<1>. SUFFICES ASSUME TypeOK, LeaseInv, [Next]_vars PROVE KeepsLease
  OBVIOUS
<1>. LockTypeOK
  BY DEF TypeOK
<1>1. CASE UNCHANGED entry
  BY <1>1 DEF KeepsLease, Kept, Live
<1>2. ASSUME NEW c \in Client, LockStep(c)
      PROVE  KeepsLease
  <2>1. CASE Store(c) \/ Swap(c)
    BY <2>1, TakeKeeps
  <2>2. CASE ~(Store(c) \/ Swap(c))
    <3>1. UNCHANGED entry
      BY <1>2, <2>2 DEF LockStep, Load, HostRefuse, Valid, Expired, SwapLost, Fault, Refuse
    <3>. QED BY <3>1, <1>1
  <2>. QED BY <2>1, <2>2
<1>3. ASSUME NEW p \in Drive, Release(p)
      PROVE  KeepsLease
  BY <1>3, UnlockKeeps DEF Release
<1>4. ASSUME NEW e \in EndExec, EndRelease(e)
      PROVE  KeepsLease
  BY <1>4, UnlockKeeps DEF EndRelease
<1>5. ASSUME NEW k \in Key, Pass(k)
      PROVE  KeepsLease
  <2>1. Wane(k)
    BY <1>5 DEF Pass
  <2>2. /\ \A j \in Key \ {k} : entry'[j] = entry[j]
        /\ entry'[k] = entry[k] \/ (host /\ ttl[k] = 1 /\ entry'[k] = NoLease)
    BY <2>1 DEF Wane, Forgets, LockTypeOK
  <2>. QED BY <2>2 DEF KeepsLease, Kept, Live
<1>6. ASSUME NEW k \in Key, SweepDelete(k)
      PROVE  KeepsLease
  <2>. SUFFICES ASSUME NEW c \in Client, Live(c)
                PROVE  entry'[KeyOf[c]] = entry[KeyOf[c]]
    BY DEF KeepsLease, Kept, Live
  <2>1. KeyOf[c] \in Key /\ ttl[KeyOf[c]] # 0
    BY DEF Live, LockTypeOK
  <2>2. sweep[KeyOf[c]] = entry[KeyOf[c]] => KeyOf[c] # k
    BY <1>6, <2>1 DEF SweepDelete, LeaseInv, SweepExpired
  <2>. QED BY <1>6, <2>1, <2>2 DEF SweepDelete, LockTypeOK
<1>7. ASSUME NEW r \in Replica, Crash(r)
      PROVE  KeepsLease
  BY <1>7, <1>1 DEF Crash
<1>8. CASE \E p \in Drive :
             \/ \E r \in Replica, s \in BOOLEAN : Enter(p, r, s)
             \/ Admit(p) \/ Again(p) \/ Unlocked(p) \/ GiveWay(p) \/ Finish(p) \/ Leave(p)
  BY <1>8, <1>1 DEF Enter, Admit, Again, Unlocked, GiveWay, Finish, Leave, lockVars
<1>9. CASE \E e \in EndExec :
             \/ \E p \in Drive : EndBefore(e, p)
             \/ EndSuppressed(e) \/ EndAfter(e) \/ EndUnlocked(e)
  BY <1>9, <1>1 DEF EndBefore, EndSuppressed, EndAfter, EndUnlocked
<1>10. CASE \E k \in Key : Renew(k) \/ SweepFind(k)
  BY <1>10, <1>1 DEF Renew, Extend, SweepFind
<1>11. CASE UNCHANGED vars
  BY <1>11, <1>1 DEF vars, lockVars
<1>. QED BY <1>2, <1>3, <1>4, <1>5, <1>6, <1>7, <1>8, <1>9, <1>10, <1>11 DEF Next

(* A lease that has not run out is taken from nobody who keeps it: neither *)
(* a CompareAndSwap nor an Unlock nor the clean-up hits another lease than *)
(* the one that was looked at.                                             *)
THEOREM LeaseNeverStolen == Spec => LeaseKept
<1>1. TypeOK /\ LeaseInv /\ [Next]_vars => TypeOK' /\ LeaseInv'
  BY TypeNext, LeaseNext
<1>2. TypeOK /\ LeaseInv /\ [Next]_vars =>
        [\A c \in Client : Live(c) /\ held'[c] = held[c] =>
           \/ entry'[KeyOf[c]] = held[c]
           \/ host /\ ttl[KeyOf[c]] = 1 /\ entry'[KeyOf[c]] = NoLease]_vars
  BY LeaseStep DEF KeepsLease, Kept
<1>. QED BY TypeInit, LeaseInit, <1>1, <1>2, PTL DEF Spec, LeaseKept

-----------------------------------------------------------------------------
(* Drives.                                                                 *)

(* Without a distributed lock the drives share one in-process gate.        *)
AtHome == ~host => \A p \in Drive : pc[p] # "idle" => exec[Home] = p

(* A drive asks for the lease only while it acquires the gates, and has    *)
(* none before.                                                            *)
AsksOnce == \A p \in Drive :
              /\ pc[p] = "idle" => held[p] = NoLease
              /\ pc[p] # "acquire" => at[p] = "idle"
              /\ held[p] # NoLease => at[p] = "idle"

(* The lease of a drive whose watchdog runs is in the table, with as much  *)
(* of its life left as the failed renewals have not used up.               *)
Renewed(p) == \/ faults >= Ttl[KeyOf[p]]
              \/ entry[KeyOf[p]] = held[p] /\ ttl[KeyOf[p]] + faults >= Ttl[KeyOf[p]]
LeaseHeld == host => \A p \in Drive : Watching(p, KeyOf[p]) => Renewed(p)
GateInv == AtHome /\ AsksOnce /\ LeaseHeld

LEMMA GateInit == Init => GateInv
BY DEF Init, LockInit, GateInv, AtHome, AsksOnce, LeaseHeld, Watching

LEMMA GateExclusive == TypeOK /\ LeaseInv /\ GateInv => ExclusiveDrives
<1>. SUFFICES ASSUME TypeOK, LeaseInv, GateInv,
                     NEW p \in Drive, NEW q \in Drive, p # q, Running(p), Running(q)
              PROVE  /\ host
                     /\ \/ held[p] = NoLease \/ held[q] = NoLease
                        \/ faults >= Ttl[KeyOf[p]]
  BY DEF ExclusiveDrives
<1>1. host
  BY DEF GateInv, AtHome, Running
<1>2. CASE held[p] # NoLease /\ held[q] # NoLease
  <2>1. Renewed(p) /\ Renewed(q)
    BY <1>1, <1>2 DEF GateInv, LeaseHeld, Watching, Running
  <2>2. held[p] # held[q]
    BY <1>2 DEF LeaseInv, OwnValues
  <2>3. KeyOf[p] = KeyOf[q]
    BY GateKeyAssumption
  <2>. QED BY <1>1, <2>1, <2>2, <2>3 DEF Renewed
<1>. QED BY <1>1, <1>2

LEMMA LockStepFrame ==
  ASSUME NEW c \in Client, LockStep(c)
  PROVE  at[c] # "idle" /\ UNCHANGED host
<1>1. CASE Store(c) \/ Swap(c)
  BY <1>1 DEF Store, Swap, Take
<1>2. CASE HostRefuse(c) \/ Valid(c) \/ SwapLost(c)
  BY <1>2 DEF HostRefuse, Valid, SwapLost, Refuse
<1>3. CASE Load(c) \/ Expired(c) \/ Fault(c)
  BY <1>3 DEF Load, Expired, Fault
<1>. QED BY <1>1, <1>2, <1>3 DEF LockStep

(* A step of the lock's own client: what the gates see of it.              *)
LEMMA LockStepGate ==
  ASSUME TypeOK, LeaseInv, GateInv, NEW c \in Client, LockStep(c),
         UNCHANGED <<gateVars, endVars, crashes>>
  PROVE  GateInv'
<1>. LockTypeOK
  BY DEF TypeOK
<1>0. UNCHANGED <<exec, pc, host>> /\ (c \in Drive => pc[c] = "acquire" /\ held[c] = NoLease)
  <2>1. UNCHANGED <<exec, pc>>
    BY DEF gateVars
  <2>2. at[c] # "idle" /\ UNCHANGED host
    BY LockStepFrame
  <2>. QED BY <2>1, <2>2 DEF GateInv, AsksOnce
<1>1. AtHome'
  BY <1>0 DEF GateInv, AtHome
<1>2. CASE Store(c) \/ Swap(c)
  <2>1. Take(c)
    BY <1>2 DEF Store, Swap
  <2>2. AsksOnce'
    BY <1>0, <2>1, TakeEffect DEF GateInv, AsksOnce
  <2>3. LeaseHeld'
    <3>. SUFFICES ASSUME host, NEW p \in Drive, Watching(p, KeyOf[p])'
                  PROVE  Renewed(p)'
      BY <1>0 DEF LeaseHeld
    <3>1. Store(c) /\ entry[KeyOf[c]] = NoLease
      BY <1>2 DEF Store, Swap, LeaseInv, SeenLease
    <3>2. /\ KeyOf[p] \in Key /\ KeyOf[c] \in Key /\ Ttl[KeyOf[p]] \in Nat
          /\ faults \in Nat /\ ttl[KeyOf[p]] \in Nat
      BY DEF LockTypeOK
    <3>3. faults' = faults
      BY <2>1 DEF Take
    <3>4. CASE p = c
      <4>1. entry'[KeyOf[p]] = held'[p] /\ ttl'[KeyOf[p]] = Ttl[KeyOf[p]]
        BY <3>4, <2>1, TakeEffect, ZenonT(60)
      <4>. QED BY <3>2, <3>3, <4>1 DEF Renewed
    <3>5. CASE p # c
      <4>1. held'[p] = held[p] /\ Renewed(p) /\ held[p] # NoLease
        BY <3>5, <1>0, <2>1, TakeEffect DEF Watching, GateInv, LeaseHeld
      <4>2. CASE faults >= Ttl[KeyOf[p]]
        BY <4>2, <3>3 DEF Renewed
      <4>3. CASE entry[KeyOf[p]] = held[p] /\ ttl[KeyOf[p]] + faults >= Ttl[KeyOf[p]]
        <5>1. KeyOf[p] # KeyOf[c]
          BY <4>1, <4>3, <3>1
        <5>2. entry'[KeyOf[p]] = entry[KeyOf[p]] /\ ttl'[KeyOf[p]] = ttl[KeyOf[p]]
          <6>1. \A k \in Key \ {KeyOf[c]} : entry'[k] = entry[k] /\ ttl'[k] = ttl[k]
            BY <2>1, TakeEffect
          <6>. QED BY <5>1, <3>2, <6>1
        <5>. QED BY <5>2, <4>1, <4>3, <3>3 DEF Renewed
      <4>. QED BY <4>1, <4>2, <4>3 DEF Renewed
    <3>. QED BY <3>4, <3>5
  <2>. QED BY <1>1, <2>2, <2>3 DEF GateInv
<1>3. CASE ~(Store(c) \/ Swap(c))
  <2>1. /\ UNCHANGED <<entry, ttl, held>> /\ faults' >= faults
        /\ \A d \in Client \ {c} : at'[d] = at[d]
    BY <1>3 DEF LockStep, Load, HostRefuse, Valid, Expired, SwapLost, Fault, Refuse, LockTypeOK
  <2>2. AsksOnce'
    BY <1>0, <2>1 DEF GateInv, AsksOnce
  <2>3. LeaseHeld'
    <3>. SUFFICES ASSUME host, NEW p \in Drive, Watching(p, KeyOf[p])'
                  PROVE  Renewed(p)'
      BY <1>0 DEF LeaseHeld
    <3>1. Renewed(p)
      BY <1>0, <2>1 DEF GateInv, LeaseHeld, Watching
    <3>2. KeyOf[p] \in Key /\ Ttl[KeyOf[p]] \in Nat /\ ttl[KeyOf[p]] \in Nat
          /\ faults \in Nat /\ faults' \in Nat
      BY LockStepType DEF LockTypeOK
    <3>. QED BY <3>1, <3>2, <2>1 DEF Renewed
  <2>. QED BY <1>1, <2>2, <2>3 DEF GateInv
<1>. QED BY <1>2, <1>3

(* The in-process gate of no other drive is given back.                    *)
LEMMA GivenBackOther ==
  ASSUME TypeOK, AtHome, NEW p \in Drive, exec' = GivenBack(p), UNCHANGED host,
         pc' = [pc EXCEPT ![p] = "idle"]
  PROVE  AtHome'
<1>. SUFFICES ASSUME ~host, NEW q \in Drive, pc'[q] # "idle"
              PROVE  exec'[Home] = q
  BY DEF AtHome
<1>1. q # p /\ pc[q] # "idle"
  BY DEF TypeOK
<1>2. exec[Home] = q
  BY <1>1 DEF AtHome
<1>. QED BY <1>1, <1>2 DEF GivenBack

(* A step that leaves the lock alone but for one drive's place in it.      *)
LEMMA GateKept ==
  ASSUME TypeOK, LeaseHeld, UNCHANGED <<host, entry, ttl, held, faults>>,
         \A p \in Drive : Watching(p, KeyOf[p])' => Watching(p, KeyOf[p])
  PROVE  LeaseHeld'
BY DEF LeaseHeld, Renewed

LEMMA GateNext == TypeOK /\ LeaseInv /\ GateInv /\ [Next]_vars => GateInv'
<1>. SUFFICES ASSUME TypeOK, LeaseInv, GateInv, [Next]_vars PROVE GateInv'
  OBVIOUS
<1>. LockTypeOK /\ AtHome /\ AsksOnce /\ LeaseHeld
  BY DEF TypeOK, GateInv
<1>1. CASE \E c \in Client : LockStep(c) /\ UNCHANGED <<gateVars, endVars, crashes>>
  BY <1>1, LockStepGate
<1>2. ASSUME NEW p \in Drive, NEW r \in Replica, NEW s \in BOOLEAN, Enter(p, r, s)
      PROVE  GateInv'
  <2>1. AtHome'
    <3>. SUFFICES ASSUME ~host, NEW q \in Drive, pc'[q] # "idle"
                  PROVE  exec'[Home] = q
      BY <1>2 DEF AtHome, Enter
    <3>1. r = Home /\ exec[Home] = NoOne
      BY <1>2 DEF Enter, GateFree
    <3>2. q = p
      BY <1>2, <3>1 DEF Enter, AtHome, TypeOK
    <3>. QED BY <1>2, <3>1, <3>2 DEF Enter, TypeOK
  <2>2. AsksOnce'
    BY <1>2 DEF Enter, AsksOnce, TypeOK, LockTypeOK
  <2>3. LeaseHeld'
    <3>1. \A q \in Drive : Watching(q, KeyOf[q])' => Watching(q, KeyOf[q])
      BY <1>2 DEF Enter, Watching, AsksOnce, TypeOK
    <3>. QED BY <1>2, <3>1, GateKept DEF Enter
  <2>. QED BY <2>1, <2>2, <2>3 DEF GateInv
<1>3. ASSUME NEW p \in Drive, Admit(p)
      PROVE  GateInv'
  <2>1. AtHome'
    BY <1>3 DEF Admit, Proceed, lockVars, AtHome, TypeOK
  <2>2. AsksOnce'
    BY <1>3 DEF Admit, Proceed, lockVars, AsksOnce, TypeOK
  <2>3. LeaseHeld'
    <3>1. \A q \in Drive : Watching(q, KeyOf[q])' => Watching(q, KeyOf[q])
      BY <1>3 DEF Admit, Proceed, lockVars, Watching, TypeOK
    <3>. QED BY <1>3, <3>1, GateKept DEF Admit, lockVars
  <2>. QED BY <2>1, <2>2, <2>3 DEF GateInv
<1>4. ASSUME NEW p \in Drive, Again(p)
      PROVE  GateInv'
  <2>1. AtHome' /\ LeaseHeld'
    BY <1>4 DEF Again, AtHome, LeaseHeld, Watching, Renewed
  <2>2. AsksOnce'
    BY <1>4 DEF Again, AsksOnce, LockTypeOK
  <2>. QED BY <2>1, <2>2 DEF GateInv
<1>5. ASSUME NEW p \in Drive, Unlocked(p)
      PROVE  GateInv'
  <2>1. AtHome'
    BY <1>5 DEF Unlocked, Proceed, AtHome, TypeOK
  <2>2. AsksOnce'
    BY <1>5 DEF Unlocked, Proceed, AsksOnce, TypeOK, LockTypeOK
  <2>3. LeaseHeld'
    <3>1. \A q \in Drive : Watching(q, KeyOf[q])' => Watching(q, KeyOf[q])
      BY <1>5 DEF Unlocked, Proceed, Watching, TypeOK
    <3>. QED BY <1>5, <3>1, GateKept DEF Unlocked
  <2>. QED BY <2>1, <2>2, <2>3 DEF GateInv
<1>6. ASSUME NEW p \in Drive, GiveWay(p)
      PROVE  GateInv'
  <2>1. AtHome'
    BY <1>6, GivenBackOther DEF GiveWay
  <2>2. AsksOnce'
    BY <1>6 DEF GiveWay, AsksOnce, TypeOK, LockTypeOK
  <2>3. LeaseHeld'
    <3>1. \A q \in Drive : Watching(q, KeyOf[q])' => Watching(q, KeyOf[q])
      BY <1>6 DEF GiveWay, Watching, TypeOK
    <3>. QED BY <1>6, <3>1, GateKept DEF GiveWay
  <2>. QED BY <2>1, <2>2, <2>3 DEF GateInv
<1>7. ASSUME NEW p \in Drive, Finish(p)
      PROVE  GateInv'
  <2>1. AtHome'
    BY <1>7 DEF Finish, lockVars, AtHome, TypeOK
  <2>2. AsksOnce'
    BY <1>7 DEF Finish, lockVars, AsksOnce, TypeOK
  <2>3. LeaseHeld'
    <3>1. \A q \in Drive : Watching(q, KeyOf[q])' => Watching(q, KeyOf[q])
      BY <1>7 DEF Finish, lockVars, Watching, TypeOK
    <3>. QED BY <1>7, <3>1, GateKept DEF Finish, lockVars
  <2>. QED BY <2>1, <2>2, <2>3 DEF GateInv
<1>8. ASSUME NEW p \in Drive, Release(p)
      PROVE  GateInv'
  <2>1. UNCHANGED <<exec, pc, host, faults>> /\ pc[p] = "leaving" /\ held[p] # NoLease
    BY <1>8 DEF Release, Unlock, gateVars
  <2>2. AtHome'
    BY <2>1 DEF AtHome
  <2>3. AsksOnce'
    BY <1>8, <2>1 DEF Release, Unlock, AsksOnce, LockTypeOK
  <2>4. LeaseHeld'
    <3>. SUFFICES ASSUME host, NEW q \in Drive, Watching(q, KeyOf[q])'
                  PROVE  Renewed(q)'
      BY <2>1 DEF LeaseHeld
    <3>1. q # p /\ held'[q] = held[q] /\ Watching(q, KeyOf[q])
      BY <1>8, <2>1 DEF Release, Unlock, LockTypeOK, Watching
    <3>2. held[q] # held[p]
      BY <3>1, <2>1 DEF LeaseInv, OwnValues, Watching
    <3>3. KeyOf[q] = KeyOf[p] /\ KeyOf[q] \in Key /\ Renewed(q)
      BY <3>1, GateKeyAssumption DEF LeaseHeld
    <3>4. CASE Match(p)
      <4>1. faults >= Ttl[KeyOf[q]]
        BY <3>2, <3>3, <3>4 DEF Match, Renewed
      <4>. QED BY <4>1, <2>1 DEF Renewed
    <3>5. CASE ~Match(p)
      <4>1. UNCHANGED <<entry, ttl>>
        BY <1>8, <3>5 DEF Release, Unlock
      <4>. QED BY <4>1, <3>1, <3>3, <2>1 DEF Renewed
    <3>. QED BY <3>4, <3>5
  <2>. QED BY <2>2, <2>3, <2>4 DEF GateInv
<1>9. ASSUME NEW p \in Drive, Leave(p)
      PROVE  GateInv'
  <2>1. AtHome'
    BY <1>9, GivenBackOther DEF Leave, lockVars
  <2>2. AsksOnce'
    BY <1>9 DEF Leave, lockVars, AsksOnce, TypeOK
  <2>3. LeaseHeld'
    <3>1. \A q \in Drive : Watching(q, KeyOf[q])' => Watching(q, KeyOf[q])
      BY <1>9 DEF Leave, lockVars, Watching, TypeOK
    <3>. QED BY <1>9, <3>1, GateKept DEF Leave, lockVars
  <2>. QED BY <2>1, <2>2, <2>3 DEF GateInv
<1>10. ASSUME NEW e \in EndExec,
              \/ \E p \in Drive : EndBefore(e, p)
              \/ EndSuppressed(e) \/ EndAfter(e) \/ EndUnlocked(e)
       PROVE  GateInv'
  <2>1. /\ UNCHANGED <<host, entry, ttl, held, faults, exec, pc>>
        /\ \A p \in Drive : at'[p] = at[p]
    BY <1>10 DEF EndBefore, EndSuppressed, EndAfter, EndUnlocked, gateVars, LockTypeOK
  <2>. QED BY <2>1 DEF GateInv, AtHome, AsksOnce, LeaseHeld, Watching, Renewed
<1>11. ASSUME NEW e \in EndExec, EndRelease(e)
       PROVE  GateInv'
  <2>1. /\ UNCHANGED <<host, faults, exec, pc>>
        /\ \A p \in Drive : at'[p] = at[p] /\ held'[p] = held[p]
    BY <1>11 DEF EndRelease, Unlock, gateVars, LockTypeOK
  <2>2. \A p \in Drive : entry'[KeyOf[p]] = entry[KeyOf[p]] /\ ttl'[KeyOf[p]] = ttl[KeyOf[p]]
    BY <1>11, EndKeyAssumption DEF EndRelease, Unlock, LockTypeOK
  <2>3. AtHome' /\ AsksOnce'
    BY <2>1 DEF AtHome, AsksOnce
  <2>4. LeaseHeld'
    BY <2>1, <2>2 DEF LeaseHeld, Watching, Renewed
  <2>. QED BY <2>3, <2>4 DEF GateInv
<1>12. ASSUME NEW k \in Key, Renew(k)
       PROVE  GateInv'
  <2>1. /\ UNCHANGED <<host, entry, at, held, faults, exec, pc>>
        /\ ttl'[k] = Ttl[k] /\ \A j \in Key \ {k} : ttl'[j] = ttl[j]
    BY <1>12 DEF Renew, Extend, gateVars, LockTypeOK
  <2>2. AtHome' /\ AsksOnce'
    BY <2>1 DEF AtHome, AsksOnce
  <2>3. LeaseHeld'
    <3>. SUFFICES ASSUME host, NEW p \in Drive, Watching(p, KeyOf[p]), Renewed(p)
                  PROVE  Renewed(p)'
      BY <2>1 DEF LeaseHeld, Watching
    <3>1. KeyOf[p] \in Key /\ Ttl[KeyOf[p]] \in Nat /\ faults \in Nat
      BY DEF LockTypeOK
    <3>. QED BY <2>1, <3>1 DEF Renewed
  <2>. QED BY <2>2, <2>3 DEF GateInv
<1>13. ASSUME NEW k \in Key, Pass(k)
       PROVE  GateInv'
  <2>1. /\ UNCHANGED <<host, at, held, exec, pc>>
        /\ \A j \in Key \ {k} : entry'[j] = entry[j] /\ ttl'[j] = ttl[j]
        /\ ttl'[k] = ttl[k] - 1
        /\ entry'[k] = entry[k] \/ (ttl[k] = 1 /\ entry'[k] = NoLease)
    BY <1>13 DEF Pass, Wane, Forgets, gateVars, LockTypeOK
  <2>2. AtHome' /\ AsksOnce'
    BY <2>1 DEF AtHome, AsksOnce
  <2>3. LeaseHeld'
    <3>. SUFFICES ASSUME host, NEW p \in Drive, Watching(p, KeyOf[p]), Renewed(p)
                  PROVE  Renewed(p)'
      BY <2>1 DEF LeaseHeld, Watching
    <3>1. /\ KeyOf[p] \in Key /\ Ttl[KeyOf[p]] \in Nat /\ ttl[KeyOf[p]] \in Nat
          /\ faults \in Nat /\ faults' \in {faults, faults + 1}
      BY <1>13 DEF Pass, LockTypeOK
    <3>2. CASE faults >= Ttl[KeyOf[p]]
      BY <3>1, <3>2 DEF Renewed
    <3>3. CASE /\ entry[KeyOf[p]] = held[p] /\ ttl[KeyOf[p]] + faults >= Ttl[KeyOf[p]]
               /\ KeyOf[p] = k
      <4>1. Watched(k)
        BY <3>3 DEF Watched
      <4>2. faults' = faults + 1
        BY <1>13, <4>1 DEF Pass
      <4>. QED BY <2>1, <3>1, <3>3, <4>2 DEF Renewed
    <3>4. CASE /\ entry[KeyOf[p]] = held[p] /\ ttl[KeyOf[p]] + faults >= Ttl[KeyOf[p]]
               /\ KeyOf[p] # k
      BY <2>1, <3>1, <3>4 DEF Renewed
    <3>. QED BY <3>2, <3>3, <3>4 DEF Renewed
  <2>. QED BY <2>2, <2>3 DEF GateInv
<1>14. ASSUME NEW k \in Key, SweepFind(k) \/ SweepDelete(k), UNCHANGED <<gateVars, endVars, crashes>>
       PROVE  GateInv'
  <2>1. ~host /\ UNCHANGED <<host, at, held, exec, pc>>
    BY <1>14 DEF SweepFind, SweepDelete, gateVars, LeaseInv, SweepExpired
  <2>. QED BY <2>1 DEF GateInv, AtHome, AsksOnce, LeaseHeld
<1>15. ASSUME NEW r \in Replica, Crash(r)
       PROVE  GateInv'
  <2>1. /\ host /\ UNCHANGED <<host, entry, ttl, faults>>
        /\ \A p \in Drive : \/ pc'[p] = pc[p] /\ at'[p] = at[p] /\ held'[p] = held[p]
                            \/ pc'[p] = "idle" /\ at'[p] = "idle" /\ held'[p] = NoLease
    BY <1>15 DEF Crash, Down
  <2>. QED BY <2>1 DEF GateInv, AtHome, AsksOnce, LeaseHeld, Watching, Renewed
<1>16. CASE UNCHANGED vars
  BY <1>16 DEF vars, lockVars, gateVars, GateInv, AtHome, AsksOnce, LeaseHeld, Watching, Renewed
<1>. QED BY <1>1, <1>2, <1>3, <1>4, <1>5, <1>6, <1>7, <1>8, <1>9, <1>10, <1>11, <1>12, <1>13,
            <1>14, <1>15, <1>16 DEF Next

(* Two drives of the instance run side by side only with a distributed     *)
(* lock, and then one of them was let through without a lease or the       *)
(* locker failed for as long as a lease lives.                             *)
THEOREM DrivesExclusive == Spec => []ExclusiveDrives
<1>1. Init => TypeOK /\ LeaseInv /\ GateInv
  BY TypeInit, LeaseInit, GateInit
<1>2. TypeOK /\ LeaseInv /\ GateInv /\ [Next]_vars => TypeOK' /\ LeaseInv' /\ GateInv'
  BY TypeNext, LeaseNext, GateNext
<1>. QED BY <1>1, <1>2, GateExclusive, PTL DEF Spec
=============================================================================
