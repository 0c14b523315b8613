------------------------------ MODULE KeyLock ------------------------------
(***************************************************************************)
(* The leased key lock (utils/lock/key_lock.go): LocalLock step by step,   *)
(* and, for host = TRUE, a distributed Locker as its interface comments    *)
(* promise it, whose operations are atomic and whose leases can be         *)
(* renewed.  A lease is a lockInfo: a new value on every attempt, compared *)
(* by identity.  Time is counted in renewal intervals: ttl[k] of them are  *)
(* left to the lease in the table.                                         *)
(* A definition marked "slip" is what the next one would be with a likely  *)
(* mistake in it; the specification never uses it.                         *)
(***************************************************************************)
EXTENDS Naturals, FiniteSets

CONSTANTS Client,     \* callers of the lock
          Key,        \* the keys they lock
          KeyOf,      \* KeyOf[c]: the key that c locks
          Ttl,        \* Ttl[k]: life of a lease of k, in renewal intervals
          Lease,      \* lock values
          NoLease,
          Drawn,      \* Drawn[c]: the values c's attempts draw, 16 random bytes
          MaxFaults   \* bound on failing calls of the locker

ASSUME KeyOfAssumption == KeyOf \in [Client -> Key]
ASSUME TtlAssumption == Ttl \in [Key -> Nat \ {0}]
ASSUME NoLeaseAssumption == NoLease \notin Lease
ASSUME DrawnAssumption ==
         /\ Drawn \in [Client -> SUBSET Lease]
         /\ \A c, d \in Client : c # d => Drawn[c] \cap Drawn[d] = {}
ASSUME MaxFaultsAssumption == MaxFaults \in Nat

VARIABLES host,     \* the host has injected a distributed locker
          entry,    \* the table: key -> lease
          ttl,      \* what is left of the lease in the table
          at,       \* where the client is in TryLock or Unlock
          info,     \* the lease LoadOrStore found
          held,     \* the lease the client believes it holds
          sweep,    \* the leases the clean-up found expired
          faults    \* failing calls so far

lockVars == <<host, entry, ttl, at, info, held, sweep, faults>>

LockTypeOK == /\ host \in BOOLEAN
              /\ entry \in [Key -> Lease \cup {NoLease}]
              /\ ttl \in [Key -> Nat]
              /\ at \in [Client -> {"idle", "try", "loaded", "swap",
                                    "refused", "failed", "release"}]
              /\ info \in [Client -> Lease \cup {NoLease}]
              /\ held \in [Client -> Lease \cup {NoLease}]
              /\ sweep \in [Key -> Lease \cup {NoLease}]
              /\ faults \in 0..MaxFaults

LockInit == /\ host \in BOOLEAN
            /\ entry = [k \in Key |-> NoLease]
            /\ ttl = [k \in Key |-> 0]
            /\ at = [c \in Client |-> "idle"]
            /\ info = [c \in Client |-> NoLease]
            /\ held = [c \in Client |-> NoLease]
            /\ sweep = [k \in Key |-> NoLease]
            /\ faults = 0

(* A value of c's that nobody refers to: random values do not come back.   *)
Unused(c) == {t \in Drawn[c] : /\ \A k \in Key : entry[k] # t /\ sweep[k] # t
                               /\ \A d \in Client : info[d] # t /\ held[d] # t}
Fresh(c) == CHOOSE t \in Unused(c) : TRUE

-----------------------------------------------------------------------------
(* c's lease enters the table and c holds it.                              *)
Take(c) == LET k == KeyOf[c] IN
  /\ Unused(c) # {}
  /\ entry' = [entry EXCEPT ![k] = Fresh(c)]
  /\ ttl' = [ttl EXCEPT ![k] = Ttl[k]]
  /\ held' = [held EXCEPT ![c] = Fresh(c)]
  /\ info' = [info EXCEPT ![c] = NoLease]
  /\ at' = [at EXCEPT ![c] = "idle"]
  /\ UNCHANGED <<host, sweep, faults>>

(* The attempt ends without the lock.                                      *)
Refuse(c) ==
  /\ at' = [at EXCEPT ![c] = "refused"]
  /\ info' = [info EXCEPT ![c] = NoLease]
  /\ UNCHANGED <<host, entry, ttl, held, sweep, faults>>

(* TryLock: LoadOrStore finds the key free (a distributed lock: set if     *)
(* absent).                                                                *)
Store(c) == at[c] = "try" /\ entry[KeyOf[c]] = NoLease /\ Take(c)

(* TryLock: LoadOrStore finds a lease.                                     *)
Load(c) ==
  /\ at[c] = "try" /\ ~host
  /\ entry[KeyOf[c]] # NoLease
  /\ info' = [info EXCEPT ![c] = entry[KeyOf[c]]]
  /\ at' = [at EXCEPT ![c] = "loaded"]
  /\ UNCHANGED <<host, entry, ttl, held, sweep, faults>>

(* A distributed lock refuses a key that is taken.                         *)
HostRefuse(c) ==
  /\ at[c] = "try" /\ host
  /\ entry[KeyOf[c]] # NoLease
  /\ Refuse(c)

(* TryLock reads the expiry of the lease it found.  Of one that has left   *)
(* the table since, nothing is known.                                      *)
FoundGone(c) == entry[KeyOf[c]] # info[c]
Valid(c) == at[c] = "loaded" /\ (ttl[KeyOf[c]] > 0 \/ FoundGone(c)) /\ Refuse(c)
Expired(c) ==
  /\ at[c] = "loaded"
  /\ ttl[KeyOf[c]] = 0 \/ FoundGone(c)
  /\ at' = [at EXCEPT ![c] = "swap"]
  /\ UNCHANGED <<host, entry, ttl, info, held, sweep, faults>>

(* CompareAndSwap replaces the lease found, if it is still there.          *)
StillThere(c) == entry[KeyOf[c]] = info[c]
Swap(c) == at[c] = "swap" /\ StillThere(c) /\ Take(c)
SwapLost(c) == at[c] = "swap" /\ ~StillThere(c) /\ Refuse(c)

(* A call of the distributed locker fails: a broken connection, a          *)
(* cancelled context.  LocalLock fails only for want of random numbers.    *)
Fault(c) ==
  /\ at[c] = "try" /\ host
  /\ faults < MaxFaults
  /\ faults' = faults + 1
  /\ at' = [at EXCEPT ![c] = "failed"]
  /\ UNCHANGED <<host, entry, ttl, info, held, sweep>>

(* Unlock: the value in the table must be the caller's; only then is the   *)
(* entry that was checked deleted.  A value never returns to the table, so *)
(* the check and CompareAndDelete act as one step.                         *)
MatchAny(c) == entry[KeyOf[c]] # NoLease                               \* slip
Match(c) == entry[KeyOf[c]] = held[c]
Unlock(c) ==
  /\ IF Match(c) THEN /\ entry' = [entry EXCEPT ![KeyOf[c]] = NoLease]
                      /\ ttl' = [ttl EXCEPT ![KeyOf[c]] = 0]
                 ELSE UNCHANGED <<entry, ttl>>
  /\ held' = [held EXCEPT ![c] = NoLease]
  /\ at' = [at EXCEPT ![c] = "idle"]
  /\ UNCHANGED <<host, info, sweep, faults>>

-----------------------------------------------------------------------------
(* A renewal interval of key k's lease goes by without a renewal.  A       *)
(* distributed lock forgets a lease that has run out; LocalLock keeps it   *)
(* until somebody looks.                                                   *)
ForgetsNever(k) == FALSE                                               \* slip
Forgets(k) == host /\ ttl[k] = 1
Wane(k) ==
  /\ entry[k] # NoLease /\ ttl[k] > 0
  /\ ttl' = [ttl EXCEPT ![k] = @ - 1]
  /\ entry' = [entry EXCEPT ![k] = IF Forgets(k) THEN NoLease ELSE @]
  /\ UNCHANGED <<host, at, info, held, sweep>>

(* Extend: the lease lives on for its whole time.                          *)
Extend(k) ==
  /\ host
  /\ ttl' = [ttl EXCEPT ![k] = Ttl[k]]
  /\ UNCHANGED <<host, entry, at, info, held, sweep, faults>>

(* cleanupExpiredLocks: finds an expired lease, and deletes the entry if   *)
(* it is still the same one.                                               *)
SweepFind(k) ==
  /\ ~host
  /\ entry[k] # NoLease /\ ttl[k] = 0
  /\ sweep' = [sweep EXCEPT ![k] = entry[k]]
  /\ UNCHANGED <<host, entry, ttl, at, info, held, faults>>

SweepDelete(k) ==
  /\ sweep[k] # NoLease
  /\ entry' = [entry EXCEPT ![k] = IF sweep[k] = entry[k] THEN NoLease ELSE @]
  /\ sweep' = [sweep EXCEPT ![k] = NoLease]
  /\ UNCHANGED <<host, ttl, at, info, held, faults>>
=============================================================================
