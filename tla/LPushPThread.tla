----------------------------- MODULE LPushPThread ----------------------------
(***************************************************************************)
(* LPushPThread (lpushPThread.cpp): the thread wrapper over POSIX threads. *)
(* Owner and thread run at the same time and share three plain booleans;   *)
(* the build is not optimised, so every read and write of one is a step.   *)
(* The owner starts a thread only after it has stopped the one before; the *)
(* handler may call stop_loop() itself.  The server does not use this      *)
(* class: the module is about what an owner can rely on.                   *)
(***************************************************************************)
EXTENDS Naturals, FiniteSets

CONSTANT MaxThreads      \* bound on the threads ever created

ThreadsAssumption == MaxThreads \in Nat \ {0}

VARIABLES
    loop, canRun, disposed,
    pid,                 \* the newest thread, 0 before the first
    thread,              \* where each thread is
    owner,               \* the next statement of the owner, or "idle"
    started              \* start() succeeded and no stop() came after it

flags == <<loop, canRun, disposed>>
vars  == <<flags, pid, thread, owner, started>>

Threads == 1 .. MaxThreads
InLoop  == {"gate", "test", "cycle"}

Init ==
    /\ loop = FALSE /\ canRun = FALSE /\ disposed = TRUE
    /\ pid = 0 /\ thread = [t \in Threads |-> "none"]
    /\ owner = "idle" /\ started = FALSE
-----------------------------------------------------------------------------
(* start(): loop, pthread_create(), disposed, can_run.                     *)
Start ==
    /\ owner = "idle" /\ ~started /\ pid < MaxThreads
    /\ loop' = TRUE /\ owner' = "create"
    /\ UNCHANGED <<canRun, disposed, pid, thread, started>>

Create ==
    /\ owner = "create"
    /\ \/ owner' = "idle" /\ UNCHANGED <<pid, thread>>        \* ERROR_PTHREAD_CREATE
       \/ /\ pid' = pid + 1 /\ thread' = [thread EXCEPT ![pid'] = "gate"]
          /\ owner' = "created"
    /\ UNCHANGED <<flags, started>>

CreatedForgets ==        \* variant: disposed keeps its value
    /\ owner = "created" /\ owner' = "running"
    /\ UNCHANGED <<flags, pid, thread, started>>

Created ==
    /\ owner = "created" /\ disposed' = FALSE /\ owner' = "running"
    /\ UNCHANGED <<loop, canRun, pid, thread, started>>

CanRun ==
    /\ owner = "running" /\ canRun' = TRUE /\ owner' = "idle" /\ started' = TRUE
    /\ UNCHANGED <<loop, disposed, pid, thread>>

(* stop(): loop, dispose(), can_run.  dispose() joins the thread unless it *)
(* finds disposed set.                                                     *)
StopKeepsLoop ==         \* variant: the flag of the loop is not cleared
    /\ owner = "idle" /\ started
    /\ owner' = "dispose"
    /\ UNCHANGED <<flags, pid, thread, started>>

Stop ==
    /\ owner = "idle" /\ started
    /\ loop' = FALSE /\ owner' = "dispose"
    /\ UNCHANGED <<canRun, disposed, pid, thread, started>>

Dispose ==
    /\ owner = "dispose" /\ owner' = IF disposed THEN "stopped" ELSE "join"
    /\ UNCHANGED <<flags, pid, thread, started>>

Join ==
    /\ owner = "join" /\ thread[pid] = "exited"
    /\ thread' = [thread EXCEPT ![pid] = "joined"]
    /\ disposed' = TRUE /\ owner' = "stopped"
    /\ UNCHANGED <<loop, canRun, pid, started>>

StoppedKeepsGate ==      \* variant: can_run stays set
    /\ owner = "stopped" /\ owner' = "idle" /\ started' = FALSE
    /\ UNCHANGED <<flags, pid, thread>>

Stopped ==
    /\ owner = "stopped" /\ canRun' = FALSE /\ owner' = "idle" /\ started' = FALSE
    /\ UNCHANGED <<loop, disposed, pid, thread>>
-----------------------------------------------------------------------------
(* thread_cycle(): the gate, the loop and the end.                         *)
Moves(t, from, to) == thread[t] = from /\ thread' = [thread EXCEPT ![t] = to]

Gate(t) == /\ Moves(t, "gate", "test") /\ (canRun \/ ~loop)
           /\ UNCHANGED <<flags, pid, owner, started>>

LoopTest(t) == /\ Moves(t, "test", IF loop THEN "cycle" ELSE "end")
               /\ UNCHANGED <<flags, pid, owner, started>>

(* _handle->cycle() returns; its result changes nothing.                   *)
CycleReturns(t) == Moves(t, "cycle", "test") /\ UNCHANGED <<flags, pid, owner, started>>

StopLoop(t) == /\ thread[t] = "cycle" /\ loop' = FALSE
               /\ UNCHANGED <<canRun, disposed, pid, thread, owner, started>>

End(t) == Moves(t, "end", "exited") /\ disposed' = TRUE
          /\ UNCHANGED <<loop, canRun, pid, owner, started>>

ThreadStep(t) == Gate(t) \/ LoopTest(t) \/ CycleReturns(t) \/ End(t)

Owner == Start \/ Create \/ Created \/ CanRun \/ Stop \/ Dispose \/ Join \/ Stopped

Next == Owner \/ \E t \in Threads : ThreadStep(t) \/ StopLoop(t)

(* Both threads run on; a cycle() returns.                                 *)
Fairness ==
    /\ WF_vars(Create) /\ WF_vars(Created) /\ WF_vars(CanRun)
    /\ WF_vars(Dispose) /\ WF_vars(Join) /\ WF_vars(Stopped)
    /\ \A t \in Threads : WF_vars(ThreadStep(t))

Spec == Init /\ [][Next]_vars /\ Fairness
-----------------------------------------------------------------------------
TypeOK ==
    /\ loop \in BOOLEAN /\ canRun \in BOOLEAN /\ disposed \in BOOLEAN
    /\ started \in BOOLEAN /\ pid \in 0 .. MaxThreads
    /\ thread \in [Threads -> InLoop \cup {"none", "end", "exited", "joined"}]
    /\ owner \in {"idle", "create", "created", "running", "dispose", "join", "stopped"}

(* When stop() has returned, no thread is in the handler or may enter it   *)
(* again, so that the owner may free the handler - also when dispose()     *)
(* found disposed set and did not join (lpushPThread.cpp:82).              *)
StopWaits ==
    owner = "idle" /\ ~started => \A t \in Threads : thread[t] \notin InLoop

(* The handler does not run while the owner is inside start(), on the      *)
(* second and later runs either (the gate, lpushPThread.cpp:100).          *)
NoCycleInsideStart ==
    owner \in {"create", "created", "running"} =>
        \A t \in Threads : thread[t] \notin {"test", "cycle"}

(* A handler runs only between a start() that returned and the stop() that *)
(* forgets its thread, on every run of a wrapper that is used again.       *)
CycleInsideRun == StopWaits /\ NoCycleInsideStart

(* stop() returns whenever it is called, and then its thread has left the  *)
(* loop, whoever of the two cleared the flag first.                        *)
StopReturns == owner = "dispose" ~> owner = "idle"
=============================================================================
