---------------------------- MODULE LPushThread ----------------------------
(***************************************************************************)
(* LPushThread and its wrappers LPushReusableThread and LPushEndlessThread *)
(* (src/src/app/lpushThread.cpp): each thread has one owner coroutine that *)
(* starts and stops it, again and again, and a handler whose cycle() may   *)
(* block, return with or without an error, or call interrupt() itself.     *)
(***************************************************************************)
EXTENDS ThreadOps

CONSTANTS Thread,      \* the thread objects
          Joinable     \* those created with joinable = true

ASSUME JoinableAssumption == Joinable \subseteq Thread

VARIABLES th,          \* th[t]: the flags and the coroutine of t
          owner        \* owner[t]: what the owner of t is blocked in

vars == <<th, owner>>

OwnerState == {"idle", "starting", "stopping"}

Init == /\ th = [t \in Thread |-> Constructed(t \in Joinable)]
        /\ owner = [t \in Thread |-> "idle"]
-----------------------------------------------------------------------------
(* The owner.  start() on a running thread and stop() on one never started  *)
(* return at once and change nothing.                                       *)
Start(t) == /\ owner[t] = "idle"
            /\ ~th[t].tid
            /\ th' = [th EXCEPT ![t] = StartCall(@)]
            /\ owner' = [owner EXCEPT ![t] = "starting"]

Started(t) == /\ owner[t] = "starting"
              /\ StartReady(th[t])
              /\ th' = [th EXCEPT ![t] = StartReturn(@)]
              /\ owner' = [owner EXCEPT ![t] = "idle"]

Stop(t) == /\ owner[t] = "idle"
           /\ th[t].tid
           /\ th' = [th EXCEPT ![t] = StopCall(@)]
           /\ owner' = [owner EXCEPT ![t] = "stopping"]

Stopped(t) == /\ owner[t] = "stopping"
              /\ StopReady(th[t])
              /\ th' = [th EXCEPT ![t] = StopReturn(@)]
              /\ owner' = [owner EXCEPT ![t] = "idle"]
-----------------------------------------------------------------------------
(* The coroutine of the thread and the handler it runs.                     *)
Schedule(t) == /\ th[t].at = "new"
               /\ th' = [th EXCEPT ![t] = Enter(@)]
               /\ UNCHANGED owner

PassGate(t) == /\ th[t].at = "gate"
               /\ th' = [th EXCEPT ![t] = Gate(@)]
               /\ UNCHANGED owner

(* A blocking call of cycle() fails with EINTR and cycle() goes on.         *)
BlockingCallFails(t) == /\ th[t].at = "cycle"
                        /\ th[t].intr
                        /\ th' = [th EXCEPT ![t].intr = FALSE]
                        /\ UNCHANGED owner

HandlerInterrupts(t) == /\ th[t].at = "cycle"
                        /\ th' = [th EXCEPT ![t] = StopLoop(@)]
                        /\ UNCHANGED owner

HandlerReturns(t) == /\ th[t].at = "cycle"
                     /\ th' = [th EXCEPT ![t] = CycleReturn(@)]
                     /\ UNCHANGED owner

WakeFromPause(t) == /\ th[t].at = "pause"
                    /\ th' = [th EXCEPT ![t] = Unpause(@)]
                    /\ UNCHANGED owner

OwnerStep(t) == Start(t) \/ Started(t) \/ Stop(t) \/ Stopped(t)

ThreadStep(t) == \/ Schedule(t) \/ PassGate(t) \/ BlockingCallFails(t)
                 \/ HandlerInterrupts(t) \/ HandlerReturns(t) \/ WakeFromPause(t)

Next == \E t \in Thread : OwnerStep(t) \/ ThreadStep(t)

Spec == Init /\ [][Next]_vars

(* The scheduler runs every coroutine that is ready, timers fire, and a     *)
(* handler's cycle() eventually returns.                                    *)
Fairness == \A t \in Thread :
                /\ WF_vars(Started(t)) /\ WF_vars(Stopped(t))
                /\ WF_vars(Schedule(t)) /\ WF_vars(PassGate(t))
                /\ WF_vars(HandlerReturns(t)) /\ WF_vars(WakeFromPause(t))

LiveSpec == Spec /\ Fairness
-----------------------------------------------------------------------------
TypeOK == /\ th \in [Thread -> ThreadRecord]
          /\ owner \in [Thread -> OwnerState]

(* The handler does not run while the owner is still inside start(): the    *)
(* hazard described in the constructor ("the thread cycle method maybe stop *)
(* and remove the thread itself, and the thread start() is waiting for the  *)
(* _cid, and segment fault then").                                          *)
NoCycleInsideStart ==
    \A t \in Thread : owner[t] = "starting" => th[t].at \notin {"cycle", "pause"}

(* stop() forgets the coroutine only once it has ended, so that the owner   *)
(* may free the handler: "stop the thread, wait for the thread to           *)
(* terminate" (lpushThread.h:124), also on the second and later runs.       *)
StopWaits ==
    [][\A t \in Thread : th[t].tid /\ ~th'[t].tid => th'[t].at \notin Running]_vars

(* A coroutine never outlives its LPushThread's knowledge of it: without a  *)
(* tid there is no running coroutine, so a second start() never makes two.  *)
OneCoroutine == \A t \in Thread : th[t].at \in Running => th[t].tid

(* start() returns: the coroutine always publishes its _cid.                *)
StartTerminates == \A t \in Thread : owner[t] = "starting" ~> owner[t] = "idle"

(* stop() returns, when cycle() does.                                       *)
StopTerminates == \A t \in Thread : owner[t] = "stopping" ~> owner[t] = "idle"

(* "user can create thread and stop then start again and again": every      *)
(* start() reaches the handler's cycle() unless stop() comes first.         *)
StartReachesCycle ==
    \A t \in Thread : owner[t] = "starting"
                          ~> th[t].at = "cycle" \/ owner[t] = "stopping"

(* The handler runs only between a start() that returned and the stop()    *)
(* that forgets the coroutine, on every run of a reused thread.            *)
CycleInsideRun == NoCycleInsideStart /\ OneCoroutine

(* Neither side waits on the other for ever: start() and stop() return,    *)
(* and what was started runs unless it is stopped.                         *)
OwnerProceeds == StartTerminates /\ StopTerminates /\ StartReachesCycle
=============================================================================
