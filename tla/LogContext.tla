------------------------------ MODULE LogContext -----------------------------
(***************************************************************************)
(* The ids in the log lines (LogContext, lpushLogger.cpp).  The cache maps *)
(* the address of a State Threads coroutine to its id; addresses are used  *)
(* again and entries are never removed.  A coroutine's first line follows  *)
(* its first generate_id(); a connection's coroutine calls it twice.       *)
(***************************************************************************)
EXTENDS Integers, FiniteSets

CONSTANTS
    Addrs,         \* addresses of coroutines
    MaxBorn,       \* bound on the coroutines ever created
    MaxIds         \* bound on the calls of generate_id()

BornAssumption == MaxBorn \in Nat /\ MaxIds \in Nat

VARIABLES
    self,          \* the coroutine at an address: a number, or 0
    known,         \* it has called generate_id()
    cache, id,     \* LogContext::cache, with 0 for a missing entry; the counter
    born, lines    \* coroutines so far; the pairs id, coroutine in the log

vars == <<self, known, cache, id, born, lines>>

Init ==
    /\ self = [a \in Addrs |-> 0] /\ known = [a \in Addrs |-> FALSE]
    /\ cache = [a \in Addrs |-> 0] /\ id = 1 /\ born = 0 /\ lines = {}

Create(a) ==
    /\ self[a] = 0 /\ born < MaxBorn
    /\ born' = born + 1 /\ self' = [self EXCEPT ![a] = born + 1]
    /\ known' = [known EXCEPT ![a] = FALSE]
    /\ UNCHANGED <<cache, id, lines>>

GenerateOnce(a) ==       \* variant: a cached address keeps its id
    /\ self[a] # 0 /\ known' = [known EXCEPT ![a] = TRUE]
    /\ IF cache[a] = 0
       THEN cache' = [cache EXCEPT ![a] = id] /\ id' = id + 1
       ELSE UNCHANGED <<cache, id>>
    /\ UNCHANGED <<self, born, lines>>

GenerateId(a) ==
    /\ self[a] # 0 /\ id <= MaxIds
    /\ known' = [known EXCEPT ![a] = TRUE]
    /\ cache' = [cache EXCEPT ![a] = id] /\ id' = id + 1
    /\ UNCHANGED <<self, born, lines>>

Log(a) ==
    /\ self[a] # 0 /\ known[a]
    /\ lines' = lines \cup {<<cache[a], self[a]>>}
    /\ UNCHANGED <<self, known, cache, id, born>>

Exit(a) ==
    /\ self[a] # 0 /\ known[a] /\ self' = [self EXCEPT ![a] = 0]
    /\ UNCHANGED <<known, cache, id, born, lines>>

Next == \E a \in Addrs : Create(a) \/ GenerateId(a) \/ Log(a) \/ Exit(a)
Spec == Init /\ [][Next]_vars
-----------------------------------------------------------------------------
(* An id in the log stands for one coroutine, also after its address went  *)
(* to another one whose entry in the cache was still there.                *)
IdNamesOne == \A x, y \in lines : x[1] = y[1] => x[2] = y[2]
=============================================================================
