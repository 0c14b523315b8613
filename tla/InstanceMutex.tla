--------------------------- MODULE InstanceMutex ---------------------------
(***************************************************************************)
(* What the in-process drive gate promises to the runtime service: for     *)
(* every process instance a mutual exclusion lock that its holder may take *)
(* again.  ExecuteNext and the other entry points that drive a chain rely  *)
(* on nothing else (service/runtime_exec_gate.go, first comment).          *)
(***************************************************************************)
EXTENDS Naturals

CONSTANTS Goroutine,   \* goroutines that drive chains
          Instance,    \* process instance ids
          NoOne        \* "nobody holds it"

VARIABLES holder,      \* who drives the instance
          count        \* how many nested drives the holder has open

mvars == <<holder, count>>

MInit == /\ holder = [i \in Instance |-> NoOne]
         /\ count = [i \in Instance |-> 0]

(* The first drive of an instance nobody is driving. *)
Acquire(p, i) == /\ holder[i] = NoOne
                 /\ holder' = [holder EXCEPT ![i] = p]
                 /\ count' = [count EXCEPT ![i] = 1]

(* A node of the running chain calls back into the same instance. *)
Reacquire(p, i) == /\ holder[i] = p
                   /\ count' = [count EXCEPT ![i] = count[i] + 1]
                   /\ UNCHANGED holder

(* The innermost drive returns; the outermost one frees the instance. *)
GiveBack(p, i) == /\ holder[i] = p
                  /\ count[i] > 0
                  /\ count' = [count EXCEPT ![i] = count[i] - 1]
                  /\ holder' = [holder EXCEPT ![i] = IF count[i] = 1 THEN NoOne ELSE p]

MNext == \E p \in Goroutine, i \in Instance :
           Acquire(p, i) \/ Reacquire(p, i) \/ GiveBack(p, i)

MSpec == MInit /\ [][MNext]_mvars
=============================================================================
