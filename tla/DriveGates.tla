----------------------------- MODULE DriveGates -----------------------------
(***************************************************************************)
(* Driving one process instance on several replicas                        *)
(* (service/runtime_exec_gate.go: acquireDriveGates, ExecuteNext;          *)
(* service/dist_exec_gate.go) and ending it (the end node in               *)
(* service/create_task_aspect.go).  A drive takes the in-process gate of   *)
(* its replica (InstanceMutex), then a lease on the instance, which a      *)
(* watchdog renews.  An ordinary drive that cannot get the lease goes on   *)
(* without it; a strict one, a rescue, gives way.  Every arrival at the    *)
(* end node is an execution of its own that tries for a second lease.      *)
(***************************************************************************)
EXTENDS KeyLock

CONSTANTS Drive,      \* goroutines that drive the instance
          EndExec,    \* executions of the end node
          Replica, Home,
          NoOne,
          MaxTries,   \* distExecGateRetries
          MaxCrashes  \* bound on crashes of a replica

ASSUME ClientAssumption == Client = Drive \cup EndExec /\ Drive \cap EndExec = {}
ASSUME GateKeyAssumption == \A p, q \in Drive : KeyOf[p] = KeyOf[q]
ASSUME EndKeyAssumption == \A p \in Drive, e \in EndExec : KeyOf[p] # KeyOf[e]
ASSUME ReplicaAssumption == Home \in Replica
ASSUME NoOneAssumption == NoOne \notin Drive
ASSUME BoundAssumption == MaxTries \in Nat /\ MaxCrashes \in Nat

VARIABLES exec,      \* who holds the replica's in-process gate
          pc,        \* where the drive is
          strict,    \* it must have the lease
          tries,     \* refused attempts in LockWithRetry
          endOf,     \* the drive an end execution belongs to
          done,      \* the instance is completed and its row archived
          crashes

gateVars == <<exec, pc, strict, tries>>
endVars == <<endOf, done>>
vars == <<lockVars, gateVars, endVars, crashes>>

TypeOK == /\ LockTypeOK
          /\ exec \in [Replica -> Drive \cup {NoOne}]
          /\ pc \in [Drive -> {"idle", "acquire", "driving", "leaving"}]
          /\ strict \in [Drive -> BOOLEAN]
          /\ tries \in [Drive -> 0..MaxTries]
          /\ endOf \in [EndExec -> Drive \cup {NoOne}]
          /\ done \in BOOLEAN
          /\ crashes \in 0..MaxCrashes

Init == /\ LockInit
        /\ exec = [r \in Replica |-> NoOne]
        /\ pc = [p \in Drive |-> "idle"]
        /\ strict = [p \in Drive |-> FALSE]
        /\ tries = [p \in Drive |-> 0]
        /\ endOf = [e \in EndExec |-> NoOne]
        /\ done = FALSE
        /\ crashes = 0

-----------------------------------------------------------------------------
(* The steps of the lock that a client takes on its own.                   *)
LockStep(c) == \/ Store(c) \/ Load(c) \/ HostRefuse(c) \/ Valid(c) \/ Expired(c)
               \/ Swap(c) \/ SwapLost(c) \/ Fault(c)

(* acquireDriveGates on replica r: the in-process gate, then the lease.    *)
(* Without a distributed lock only one replica runs.                       *)
GateFreeNot(r) == TRUE                                                 \* slip
GateFree(r) == exec[r] = NoOne
Enter(p, r, s) ==
  /\ pc[p] = "idle" /\ ~done
  /\ host \/ r = Home
  /\ GateFree(r)
  /\ exec' = [exec EXCEPT ![r] = p]
  /\ pc' = [pc EXCEPT ![p] = "acquire"]
  /\ strict' = [strict EXCEPT ![p] = s]
  /\ at' = [at EXCEPT ![p] = "try"]
  /\ UNCHANGED <<host, entry, ttl, info, held, sweep, faults, tries, endVars, crashes>>

(* The release function of the in-process gate.                            *)
GivenBack(p) == [r \in Replica |-> IF exec[r] = p THEN NoOne ELSE exec[r]]

(* ExecuteNext looks for the instance again once it has the gates: a drive *)
(* of an instance that ended meanwhile has nothing to do.                  *)
Proceed(p) == /\ pc' = [pc EXCEPT ![p] = IF done THEN "leaving" ELSE "driving"]
              /\ strict' = [strict EXCEPT ![p] = FALSE]
              /\ tries' = [tries EXCEPT ![p] = 0]

(* The lease is granted; the watchdog starts.                              *)
Admit(p) ==
  /\ pc[p] = "acquire" /\ held[p] # NoLease
  /\ Proceed(p)
  /\ UNCHANGED <<lockVars, exec, endVars, crashes>>

(* LockWithRetry: another attempt after a refused one.                     *)
MoreTries(p) == TRUE                                                   \* slip
TriesLeft(p) == tries[p] < MaxTries
CountTryNot(p) == tries[p]                                             \* slip
CountTry(p) == tries[p] + 1
Again(p) ==
  /\ pc[p] = "acquire" /\ at[p] = "refused"
  /\ ~strict[p] /\ TriesLeft(p)
  /\ tries' = [tries EXCEPT ![p] = CountTry(p)]
  /\ at' = [at EXCEPT ![p] = "try"]
  /\ UNCHANGED <<host, entry, ttl, info, held, sweep, faults, exec, pc, strict, endVars, crashes>>

(* acquireDistExecGate: no attempt left, or the locker failed: the drive   *)
(* goes on without a lease.                                                *)
Yields(p) == at[p] = "failed" \/ (at[p] = "refused" /\ ~TriesLeft(p))
GoAhead(p) == ~strict[p] /\ Yields(p)
Unlocked(p) ==
  /\ pc[p] = "acquire" /\ GoAhead(p)
  /\ Proceed(p)
  /\ at' = [at EXCEPT ![p] = "idle"]
  /\ UNCHANGED <<host, entry, ttl, info, held, sweep, faults, exec, endVars, crashes>>

(* tryAcquireDriveGates: a strict drive gives way (ErrExecGateBusy) and    *)
(* gives the in-process gate back.                                         *)
GiveWay(p) ==
  /\ pc[p] = "acquire" /\ strict[p]
  /\ at[p] \in {"failed", "refused"}
  /\ pc' = [pc EXCEPT ![p] = "idle"]
  /\ exec' = GivenBack(p)
  /\ at' = [at EXCEPT ![p] = "idle"]
  /\ strict' = [strict EXCEPT ![p] = FALSE]
  /\ UNCHANGED <<host, entry, ttl, info, held, sweep, faults, tries, endVars, crashes>>

(* The chain has run until every branch waits or has ended.                *)
Finish(p) ==
  /\ pc[p] = "driving"
  /\ \A e \in EndExec : endOf[e] # p
  /\ pc' = [pc EXCEPT ![p] = "leaving"]
  /\ UNCHANGED <<lockVars, exec, strict, tries, endVars, crashes>>

(* The release function: stop the watchdog, unlock, then give the          *)
(* in-process gate back.                                                   *)
Release(p) ==
  /\ pc[p] = "leaving" /\ held[p] # NoLease
  /\ Unlock(p)
  /\ UNCHANGED <<gateVars, endVars, crashes>>

Leave(p) ==
  /\ pc[p] = "leaving" /\ held[p] = NoLease
  /\ pc' = [pc EXCEPT ![p] = "idle"]
  /\ exec' = GivenBack(p)
  /\ UNCHANGED <<lockVars, strict, tries, endVars, crashes>>

-----------------------------------------------------------------------------
(* TaskCreator.Before on the end node: one attempt at the lease.           *)
EndBefore(e, p) ==
  /\ pc[p] = "driving" /\ endOf[e] = NoOne
  /\ endOf' = [endOf EXCEPT ![e] = p]
  /\ at' = [at EXCEPT ![e] = "try"]
  /\ UNCHANGED <<host, entry, ttl, info, held, sweep, faults, gateVars, done, crashes>>

(* A duplicate is suppressed: TaskCreator.After sees no lock value.        *)
EndSuppressed(e) ==
  /\ endOf[e] # NoOne /\ at[e] = "refused"
  /\ endOf' = [endOf EXCEPT ![e] = NoOne]
  /\ at' = [at EXCEPT ![e] = "idle"]
  /\ UNCHANGED <<host, entry, ttl, info, held, sweep, faults, gateVars, done, crashes>>

(* TaskCreator.After: the instance completes, if it has not yet.           *)
EndAfter(e) ==
  /\ endOf[e] # NoOne /\ at[e] = "idle" /\ held[e] # NoLease
  /\ done' = TRUE
  /\ at' = [at EXCEPT ![e] = "release"]
  /\ UNCHANGED <<host, entry, ttl, info, held, sweep, faults, gateVars, endOf, crashes>>

(* A failing locker lets the execution through; the value it has then      *)
(* unlocks nothing.                                                        *)
EndUnlocked(e) ==
  /\ endOf[e] # NoOne /\ at[e] = "failed"
  /\ done' = TRUE
  /\ at' = [at EXCEPT ![e] = "idle"]
  /\ endOf' = [endOf EXCEPT ![e] = NoOne]
  /\ UNCHANGED <<host, entry, ttl, info, held, sweep, faults, gateVars, crashes>>

EndRelease(e) ==
  /\ at[e] = "release"
  /\ Unlock(e)
  /\ endOf' = [endOf EXCEPT ![e] = NoOne]
  /\ UNCHANGED <<gateVars, done, crashes>>

-----------------------------------------------------------------------------
(* The watchdog of the drive that holds the lease of key k: it runs from   *)
(* the grant to the release.                                               *)
Watching(p, k) == KeyOf[p] = k /\ held[p] # NoLease /\ pc[p] \in {"acquire", "driving"}
Watched(k) == host /\ \E p \in Drive : Watching(p, k) /\ held[p] = entry[k]

Renew(k) == Watched(k) /\ Extend(k) /\ UNCHANGED <<gateVars, endVars, crashes>>

(* An interval without a renewal: nobody renews, or Extend fails and the   *)
(* watchdog waits for its next tick.                                       *)
Pass(k) ==
  /\ Wane(k)
  /\ IF Watched(k) THEN faults < MaxFaults /\ faults' = faults + 1
                   ELSE UNCHANGED faults
  /\ UNCHANGED <<gateVars, endVars, crashes>>

(* A replica goes down: its drives, their end executions and, without a    *)
(* distributed lock, the table are lost.  Leases of a distributed lock     *)
(* stay behind.                                                            *)
Down(r) == LET lost == {p \in Drive : exec[r] = p}
               gone == lost \cup {e \in EndExec : endOf[e] \in lost} IN
  /\ exec' = [exec EXCEPT ![r] = NoOne]
  /\ pc' = [p \in Drive |-> IF p \in lost THEN "idle" ELSE pc[p]]
  /\ strict' = [p \in Drive |-> p \notin lost /\ strict[p]]
  /\ tries' = [p \in Drive |-> IF p \in lost THEN 0 ELSE tries[p]]
  /\ endOf' = [e \in EndExec |-> IF e \in gone THEN NoOne ELSE endOf[e]]
  /\ at' = [c \in Client |-> IF c \in gone THEN "idle" ELSE at[c]]
  /\ info' = [c \in Client |-> IF c \in gone THEN NoLease ELSE info[c]]
  /\ held' = [c \in Client |-> IF c \in gone THEN NoLease ELSE held[c]]
Crash(r) ==
  /\ crashes < MaxCrashes
  /\ host
  /\ crashes' = crashes + 1
  /\ Down(r)
  /\ UNCHANGED <<host, entry, ttl, sweep, faults, done>>
-----------------------------------------------------------------------------
Next ==
  \/ \E c \in Client : LockStep(c) /\ UNCHANGED <<gateVars, endVars, crashes>>
  \/ \E p \in Drive :
       \/ \E r \in Replica, s \in BOOLEAN : Enter(p, r, s)
       \/ Admit(p) \/ Again(p) \/ Unlocked(p) \/ GiveWay(p)
       \/ Finish(p) \/ Release(p) \/ Leave(p)
  \/ \E e \in EndExec :
       \/ \E p \in Drive : EndBefore(e, p)
       \/ EndSuppressed(e) \/ EndAfter(e) \/ EndUnlocked(e) \/ EndRelease(e)
  \/ \E k \in Key :
       \/ Renew(k) \/ Pass(k)
       \/ SweepFind(k) /\ UNCHANGED <<gateVars, endVars, crashes>>
       \/ SweepDelete(k) /\ UNCHANGED <<gateVars, endVars, crashes>>
  \/ \E r \in Replica : Crash(r)

(* What a drive that asks for the gates does until it is in or has given   *)
(* way: it runs on its own goroutine.                                      *)
Asking(p) == \/ (Store(p) \/ Load(p) \/ HostRefuse(p) \/ Valid(p) \/ Expired(p)
                  \/ Swap(p) \/ SwapLost(p)) /\ UNCHANGED <<gateVars, endVars, crashes>>
             \/ Admit(p) \/ Again(p) \/ Unlocked(p) \/ GiveWay(p)

Spec == Init /\ [][Next]_vars
FairSpec == /\ Spec
            /\ \A p \in Drive : WF_vars(Asking(p))
            /\ \A k \in Key : WF_vars(Pass(k))

-----------------------------------------------------------------------------
Live(c) == held[c] # NoLease /\ entry[KeyOf[c]] = held[c] /\ ttl[KeyOf[c]] > 0

(* Only one drive of the instance runs, on whatever replica, unless one    *)
(* was let through without a lease, or the locker failed for a lease's     *)
(* whole life.  Without a distributed lock leases do run out under a       *)
(* drive, and the in-process gate alone has to do.                         *)
Running(p) == pc[p] = "driving"
ExclusiveDrives ==
  \A p, q \in Drive : p # q /\ Running(p) /\ Running(q) =>
     /\ host
     /\ \/ held[p] = NoLease \/ held[q] = NoLease
        \/ faults >= Ttl[KeyOf[p]]

(* Nobody takes a lease that has not run out from a client that keeps it:  *)
(* not another client's CompareAndSwap, not its Unlock with a lease it     *)
(* lost, not the clean-up that saw an earlier lease of the key expire.     *)
LeaseKept ==
  [][\A c \in Client : Live(c) /\ held'[c] = held[c] =>
        \/ entry'[KeyOf[c]] = held[c]
        \/ host /\ ttl[KeyOf[c]] = 1 /\ entry'[KeyOf[c]] = NoLease]_vars

(* A drive that asks for the gates gets through or gives way, whoever      *)
(* holds the lease and for how long.                                       *)
Resolves == \A p \in Drive : pc[p] = "acquire" ~> pc[p] # "acquire"

(* The lease a crashed replica leaves behind is gone some day: its         *)
(* instance can be driven, and ended, under mutual exclusion again.        *)
Orphan(k) == host /\ entry[k] # NoLease /\ \A c \in Client : held[c] # entry[k]
OrphanReclaimed == \A k \in Key : Orphan(k) ~> ~Orphan(k)
=============================================================================
