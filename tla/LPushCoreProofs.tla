-------------------------- MODULE LPushCoreProofs --------------------------
(***************************************************************************)
(* Proofs about the classes that MCLPushCore puts together: the two thread *)
(* wrappers, the Redis client and the logger, each for all values of its   *)
(* constants.                                                              *)
(***************************************************************************)
EXTENDS MCLPushCore, LPushLemmas, Sequences

(* While the owner is inside start(), the coroutine is held at its gate by *)
(* can_run, which every stop() has to clear for the next start().          *)
Held(t) ==
    /\ owner[t] = "starting" => th[t].tid /\ th[t].at \in {"new", "gate"}
                                          /\ ~th[t].can_run /\ th[t].loop
    /\ owner[t] # "starting" => th[t].at # "new"
    /\ owner[t] = "idle" /\ ~th[t].tid => ~th[t].can_run
    /\ owner[t] = "stopping" => th[t].tid

ThreadInv == TypeOK /\ \A t \in Thread : Truthful(th[t]) /\ Held(t)

(* stop() only returns when the coroutine has ended: either the thread was *)
(* already disposed, or it was joined, or its flag tells it terminated.    *)
LEMMA StopReadyMeansEnded ==
    ASSUME ThreadInv, NEW t \in Thread, owner[t] = "stopping", StopReady(th[t])
    PROVE  th[t].at \notin Running
BY DEF ThreadInv, TypeOK, ThreadRecord, Truthful, Held, StopReady, Running

(* One operation on one thread, whose owner goes to o.                     *)
LEMMA OneThread ==
    ASSUME ThreadInv, NEW t \in Thread, NEW r \in ThreadRecord, NEW o \in OwnerState,
           th' = [th EXCEPT ![t] = r], owner' = [owner EXCEPT ![t] = o],
           Truthful(r),
           o = "starting" => r.tid /\ r.at \in {"new", "gate"} /\ ~r.can_run /\ r.loop,
           o # "starting" => r.at # "new",
           o = "idle" /\ ~r.tid => ~r.can_run,
           o = "stopping" => r.tid
    PROVE  ThreadInv'
<1>1. TypeOK'
  BY DEF ThreadInv, TypeOK
<1>2. ASSUME NEW u \in Thread PROVE Truthful(th'[u]) /\ Held(u)'
  <2>1. CASE u = t
    <3>1. th'[u] = r /\ owner'[u] = o
      BY <2>1 DEF ThreadInv, TypeOK
    <3> QED BY <3>1 DEF Held
  <2>2. CASE u # t
    <3>1. th'[u] = th[u] /\ owner'[u] = owner[u]
      BY <2>2 DEF ThreadInv, TypeOK
    <3> QED BY <3>1 DEF Held, ThreadInv
  <2> QED BY <2>1, <2>2
<1> QED BY <1>1, <1>2 DEF ThreadInv

LEMMA ThreadInit == Init => ThreadInv
<1> SUFFICES ASSUME Init PROVE ThreadInv
  OBVIOUS
<1>1. ASSUME NEW t \in Thread
      PROVE  /\ th[t] \in ThreadRecord /\ Truthful(th[t]) /\ Held(t)
             /\ owner[t] = "idle"
  <2> DEFINE j == t \in Joinable
  <2>1. th[t] = Constructed(j) /\ owner[t] = "idle"
    BY DEF Init
  <2>2. j \in BOOLEAN
    OBVIOUS
  <2> HIDE DEF j
  <2>3. Constructed(j) \in ThreadRecord /\ Truthful(Constructed(j))
    BY <2>2, ConstructedOK
  <2>4. /\ Constructed(j).at = "none" /\ ~Constructed(j).tid
        /\ ~Constructed(j).can_run
    BY DEF Constructed
  <2> QED BY <2>1, <2>3, <2>4 DEF Held
<1>2. th = [t \in Thread |-> th[t]] /\ owner = [t \in Thread |-> owner[t]]
  BY DEF Init
<1>3. TypeOK
  BY <1>1, <1>2 DEF TypeOK, OwnerState
<1> QED BY <1>1, <1>3 DEF ThreadInv

LEMMA ThreadNext == ThreadInv /\ [Next]_vars => ThreadInv'
<1> SUFFICES ASSUME ThreadInv, [Next]_vars PROVE ThreadInv'
  OBVIOUS
<1>1. CASE UNCHANGED vars
  BY <1>1 DEF vars, ThreadInv, TypeOK, Held
<1>2. ASSUME NEW t \in Thread, OwnerStep(t) \/ ThreadStep(t) PROVE ThreadInv'
  <2> DEFINE r == th[t]
  <2>0. r \in ThreadRecord /\ Truthful(r) /\ Held(t) /\ owner[t] \in OwnerState
    BY DEF ThreadInv, TypeOK
  <2>0a. owner = [owner EXCEPT ![t] = owner[t]]
    BY DEF ThreadInv, TypeOK
  <2>1. CASE Start(t)
    <3>1. StartCall(r) \in ThreadRecord /\ Truthful(StartCall(r))
      BY <2>0, StartCallOK
    <3>2. /\ StartCall(r).tid /\ StartCall(r).at = "new" /\ StartCall(r).loop
          /\ ~StartCall(r).can_run
      BY <2>0, <2>1 DEF Start, StartCall, Held, ThreadRecord
    <3> QED BY <2>1, <3>1, <3>2, OneThread DEF Start, OwnerState
  <2>2. CASE Started(t)
    <3>1. /\ StartReturn(r) \in ThreadRecord /\ Truthful(StartReturn(r))
          /\ StartReturn(r).at = r.at
      BY <2>0, StartReturnOK
    <3>2. StartReturn(r).tid /\ r.at # "new"
      BY <2>0, <2>2 DEF Started, StartReady, StartReturn, Held, Truthful, ThreadRecord
    <3> QED BY <2>2, <3>1, <3>2, OneThread DEF Started, OwnerState
  <2>3. CASE Stop(t)
    <3>1. /\ StopCall(r) \in ThreadRecord /\ Truthful(StopCall(r))
          /\ StopCall(r).at = r.at /\ StopCall(r).tid = r.tid
      BY <2>0, StopCallOK
    <3> QED BY <2>0, <2>3, <3>1, OneThread DEF Stop, OwnerState, Held
  <2>4. CASE Stopped(t)
    <3>1. r.at \notin Running
      BY <2>4, StopReadyMeansEnded DEF Stopped
    <3>2. /\ StopReturn(r) \in ThreadRecord /\ Truthful(StopReturn(r))
          /\ StopReturn(r).at = r.at
      BY <2>0, <3>1, StopReturnOK
    <3>3. ~StopReturn(r).can_run /\ r.at # "new"
      BY <2>0, <2>4, <3>1 DEF Stopped, StopReturn, Held, ThreadRecord, Running
    <3> QED BY <2>4, <3>2, <3>3, OneThread DEF Stopped, OwnerState
  <2>5. CASE Schedule(t)
    <3>1. /\ Enter(r) \in ThreadRecord /\ Truthful(Enter(r)) /\ Enter(r).at # "new"
          /\ Enter(r).can_run = r.can_run /\ Enter(r).tid = r.tid
          /\ Enter(r).loop = r.loop
          /\ ~r.can_run /\ r.loop => Enter(r).at = "gate"
      BY <2>0, <2>5, EnterOK DEF Schedule
    <3> QED BY <2>0, <2>0a, <2>5, <3>1, OneThread DEF Schedule, Held
  <2>6. CASE PassGate(t)
    <3>1. /\ Gate(r) \in ThreadRecord /\ Truthful(Gate(r)) /\ Gate(r).at # "new"
          /\ Gate(r).can_run = r.can_run /\ Gate(r).tid = r.tid
          /\ Gate(r).loop = r.loop
          /\ ~r.can_run /\ r.loop => Gate(r).at = "gate"
      BY <2>0, <2>6, GateOK DEF PassGate
    <3> QED BY <2>0, <2>0a, <2>6, <3>1, OneThread DEF PassGate, Held
  <2>7. CASE BlockingCallFails(t)
    <3> DEFINE q == [r EXCEPT !.intr = FALSE]
    <3>1. q \in ThreadRecord /\ Truthful(q) /\ q.at = r.at
      BY <2>0, InterruptSeenOK
    <3>2. q.tid = r.tid /\ q.can_run = r.can_run
      BY <2>0 DEF ThreadRecord
    <3>3. th' = [th EXCEPT ![t] = q]
      BY <2>7 DEF BlockingCallFails
    <3> HIDE DEF q
    <3> QED BY <2>0, <2>0a, <2>7, <3>1, <3>2, <3>3, OneThread
            DEF BlockingCallFails, Held
  <2>8. CASE HandlerInterrupts(t)
    <3>1. /\ StopLoop(r) \in ThreadRecord /\ Truthful(StopLoop(r))
          /\ StopLoop(r).at = r.at
      BY <2>0, StopLoopOK
    <3>2. StopLoop(r).tid = r.tid /\ StopLoop(r).can_run = r.can_run
      BY <2>0 DEF StopLoop, ThreadRecord
    <3> QED BY <2>0, <2>0a, <2>8, <3>1, <3>2, OneThread DEF HandlerInterrupts, Held
  <2>9. CASE HandlerReturns(t)
    <3>1. /\ CycleReturn(r) \in ThreadRecord /\ Truthful(CycleReturn(r))
          /\ CycleReturn(r).at # "new" /\ CycleReturn(r).tid = r.tid
          /\ CycleReturn(r).can_run = r.can_run
      BY <2>0, <2>9, CycleReturnOK DEF HandlerReturns
    <3> QED BY <2>0, <2>0a, <2>9, <3>1, OneThread DEF HandlerReturns, Held
  <2>10. CASE WakeFromPause(t)
    <3>1. /\ Unpause(r) \in ThreadRecord /\ Truthful(Unpause(r))
          /\ Unpause(r).at # "new" /\ Unpause(r).tid = r.tid
          /\ Unpause(r).can_run = r.can_run
      BY <2>0, <2>10, UnpauseOK DEF WakeFromPause
    <3> QED BY <2>0, <2>0a, <2>10, <3>1, OneThread DEF WakeFromPause, Held
  <2> QED BY <1>2, <2>1, <2>2, <2>3, <2>4, <2>5, <2>6, <2>7, <2>8, <2>9, <2>10
          DEF OwnerStep, ThreadStep
<1> QED BY <1>1, <1>2 DEF Next

(* The strengthened invariant holds of every reachable state.             *)
THEOREM ThreadInductive == Spec => []ThreadInv
BY ThreadInit, ThreadNext, PTL DEF Spec

(* LPushThread's flags have their types.                                   *)
THEOREM TypeCorrect == Spec => []TypeOK
<1>1. ThreadInv => TypeOK
  BY DEF ThreadInv
<1> QED BY <1>1, ThreadInductive, PTL

(* The handler never runs while start() is in progress (lpushThread.cpp,   *)
(* the can_run gate of lines 50-54 and 176-178).                           *)
THEOREM HandlerGated == Spec => []NoCycleInsideStart
<1>1. ThreadInv => NoCycleInsideStart
  BY DEF ThreadInv, Held, NoCycleInsideStart
<1> QED BY <1>1, ThreadInductive, PTL

(* A running coroutine always belongs to the tid its thread object holds.  *)
THEOREM SingleCoroutine == Spec => []OneCoroutine
<1>1. ThreadInv => OneCoroutine
  BY DEF ThreadInv, Truthful, OneCoroutine
<1> QED BY <1>1, ThreadInductive, PTL

(* stop() returns only after the coroutine has ended, on every run of a    *)
(* reused thread: the owner may free the handler then.                     *)
THEOREM StopWaitsForExit == Spec => StopWaits
<1>1. ThreadInv /\ [Next]_vars =>
         [\A t \in Thread : th[t].tid /\ ~th'[t].tid => th'[t].at \notin Running]_vars
  <2> SUFFICES ASSUME ThreadInv, Next, ThreadInv', NEW t \in Thread
               PROVE  th[t].tid /\ ~th'[t].tid => th'[t].at \notin Running
    BY ThreadNext DEF vars
  <2> QED BY DEF ThreadInv, Truthful
<1> QED BY <1>1, ThreadInductive, PTL DEF Spec, StopWaits

(* The handler runs only inside a run that its owner knows of.             *)
THEOREM HandlerInsideRun == Spec => []CycleInsideRun
<1>1. NoCycleInsideStart /\ OneCoroutine => CycleInsideRun
  BY DEF CycleInsideRun
<1> QED BY <1>1, HandlerGated, SingleCoroutine, PTL
-----------------------------------------------------------------------------
(* LPushPThread.  A thread that has not yet set disposed on its way out.   *)
Live == Posix!InLoop \cup {"end"}

(* Only the newest thread may be active; disposed says that it is not,     *)
(* except between pthread_create() and the statement after it.             *)
OnlyNewest    == \A t \in Posix!Threads : t # pid => thread[t] \notin Live
DisposedIsOut == disposed /\ boss # "created" => \A t \in Posix!Threads : thread[t] \notin Live
AtGate        == /\ boss \in {"create", "created", "running"} => loop /\ ~canRun
                 /\ boss \in {"created", "running"} => thread[pid] = "gate"
Idle          == (boss = "idle" /\ ~started) \/ boss = "create" => disposed /\ ~canRun
Disposed      == boss = "stopped" => disposed
Room          == /\ boss = "create" => pid < MaxThreads
                 /\ boss \in {"created", "running"} => pid \in Posix!Threads

PosixInv == Posix!TypeOK /\ OnlyNewest /\ DisposedIsOut /\ AtGate /\ Idle /\ Disposed /\ Room

LEMMA PosixNext == PosixInv /\ [Posix!Next]_(Posix!vars) => PosixInv'
<1> USE PosixAssumption
<1> SUFFICES ASSUME PosixInv, [Posix!Next]_(Posix!vars) PROVE PosixInv'
    OBVIOUS
<1> USE DEF Posix!ThreadsAssumption, PosixInv, Posix!TypeOK, OnlyNewest, DisposedIsOut,
            AtGate, Idle, Disposed, Room, Live, Posix!InLoop, Posix!Threads, Posix!flags
<1>1. CASE Posix!Start BY <1>1 DEF Posix!Start
<1>2. CASE Posix!Create
    <2>1. CASE boss' = "idle" /\ UNCHANGED <<pid, thread>>
        BY <2>1, <1>2 DEF Posix!Create
    <2>2. CASE pid' = pid + 1 /\ thread' = [thread EXCEPT ![pid'] = "gate"] /\ boss' = "created"
        <3>1. pid' \in Posix!Threads
            BY <2>2, <1>2 DEF Posix!Create
        <3>2. /\ boss = "create" /\ UNCHANGED <<Posix!flags, started>>
              /\ \A t \in Posix!Threads : thread[t] \notin Live
            BY <1>2 DEF Posix!Create
        <3>3. /\ \A t \in Posix!Threads : thread'[t] = IF t = pid' THEN "gate" ELSE thread[t]
              /\ thread' \in [Posix!Threads -> Posix!InLoop \cup {"none", "end", "exited", "joined"}]
            BY <3>1, <2>2
        <3> QED BY <3>1, <3>2, <3>3, <2>2
    <2> QED BY <2>1, <2>2, <1>2 DEF Posix!Create
<1>3. CASE Posix!Created BY <1>3 DEF Posix!Created
<1>4. CASE Posix!CanRun BY <1>4 DEF Posix!CanRun
<1>5. CASE Posix!Stop BY <1>5 DEF Posix!Stop
<1>6. CASE Posix!Dispose BY <1>6 DEF Posix!Dispose
<1>7. CASE Posix!Join BY <1>7 DEF Posix!Join
<1>8. CASE Posix!Stopped BY <1>8 DEF Posix!Stopped
<1>9. ASSUME NEW t \in Posix!Threads, Posix!Gate(t) PROVE PosixInv'
    BY <1>9 DEF Posix!Gate, Posix!Moves
<1>10. ASSUME NEW t \in Posix!Threads, Posix!LoopTest(t) PROVE PosixInv'
    BY <1>10 DEF Posix!LoopTest, Posix!Moves
<1>11. ASSUME NEW t \in Posix!Threads, Posix!CycleReturns(t) PROVE PosixInv'
    BY <1>11 DEF Posix!CycleReturns, Posix!Moves
<1>12. ASSUME NEW t \in Posix!Threads, Posix!StopLoop(t) PROVE PosixInv'
    BY <1>12 DEF Posix!StopLoop
<1>13. ASSUME NEW t \in Posix!Threads, Posix!End(t) PROVE PosixInv'
    BY <1>13 DEF Posix!End, Posix!Moves
<1>14. CASE UNCHANGED Posix!vars BY <1>14 DEF Posix!vars
<1> QED BY <1>1, <1>2, <1>3, <1>4, <1>5, <1>6, <1>7, <1>8, <1>9, <1>10, <1>11, <1>12, <1>13,
           <1>14 DEF Posix!Next, Posix!Owner, Posix!ThreadStep

LEMMA PosixInductive == Posix!Spec => []PosixInv
<1>1. ASSUME Posix!Init PROVE PosixInv
    <2>1. Posix!TypeOK
        <3>1. pid \in 0 .. MaxThreads
            BY <1>1, PosixAssumption DEF Posix!Init, Posix!ThreadsAssumption
        <3>2. thread \in [Posix!Threads -> Posix!InLoop \cup {"none", "end", "exited", "joined"}]
            BY <1>1 DEF Posix!Init
        <3>3. boss = "idle" /\ loop = FALSE /\ canRun = FALSE /\ disposed = TRUE
              /\ started = FALSE
            BY <1>1 DEF Posix!Init
        <3> QED BY <3>1, <3>2, <3>3 DEF Posix!TypeOK
    <2>2. \A t \in Posix!Threads : thread[t] \notin Live
        BY <1>1 DEF Posix!Init, Live, Posix!InLoop
    <2>3. OnlyNewest /\ DisposedIsOut /\ AtGate /\ Idle /\ Disposed /\ Room
        BY <1>1, <2>2 DEF Posix!Init, OnlyNewest, DisposedIsOut, AtGate, Idle, Disposed, Room
    <2> QED BY <2>1, <2>2, <2>3 DEF PosixInv
<1>2. PosixInv /\ [Posix!Next]_(Posix!vars) => PosixInv'
    BY PosixNext
<1> QED BY <1>1, <1>2, PTL DEF Posix!Spec

(* stop() leaves no thread in the handler, whether it joined or not.       *)
THEOREM StopIsEnough == Posix!Spec => []Posix!StopWaits
<1>1. PosixInv => Posix!StopWaits
    BY DEF PosixInv, DisposedIsOut, Idle, Live, Posix!StopWaits
<1>2. Posix!Spec => []PosixInv
    BY PosixInductive
<1> QED BY <1>1, <1>2, PTL

(* The gate holds the handler until start() returns, on every run.         *)
THEOREM GateHolds == Posix!Spec => []Posix!NoCycleInsideStart
<1>1. PosixInv => Posix!NoCycleInsideStart
    BY DEF PosixInv, OnlyNewest, DisposedIsOut, AtGate, Idle, Live, Posix!InLoop,
       Posix!NoCycleInsideStart
<1>2. Posix!Spec => []PosixInv
    BY PosixInductive
<1> QED BY <1>1, <1>2, PTL

(* Both together, as the runs check them.                                  *)
THEOREM PosixHandlerInsideRun == Posix!Spec => []PosixInsideRun
<1>1. Posix!Spec => []Posix!StopWaits /\ []Posix!NoCycleInsideStart
    BY StopIsEnough, GateHolds
<1> QED BY <1>1, PTL DEF PosixInsideRun, Posix!CycleInsideRun
-----------------------------------------------------------------------------
(* LPushRedisClient.  A process beyond AUTH has a context, and to believe  *)
(* wrongly it takes a broken connection or a refused password.             *)
RedisInv ==
    /\ authentic \in BOOLEAN
    /\ authentic => context \in {"good", "bad"}
    /\ proc = "connect" => context = "none"
    /\ proc = "auth" => context \in {"good", "freed"}
    /\ proc \in {"connect", "auth"} => ~authentic /\ believed = stored
    /\ ConnectionDecides

LEMMA RedisInit == Redis!Init => RedisInv
BY DEF Redis!Init, RedisInv, ConnectionDecides, Redis!ConnectionDecides,
   Redis!RunsConnected, Redis!DiesDisconnected, Redis!BelievesTruth

LEMMA RedisNext == RedisInv /\ [Redis!Next]_(Redis!vars) => RedisInv'
<1> SUFFICES ASSUME RedisInv, [Redis!Next]_(Redis!vars) PROVE RedisInv'
  OBVIOUS
<1> USE DEF RedisInv, ConnectionDecides, Redis!ConnectionDecides,
            Redis!RunsConnected, Redis!DiesDisconnected, Redis!BelievesTruth
<1>1. CASE UNCHANGED Redis!vars
  BY <1>1 DEF Redis!vars
<1>2. CASE Redis!Connect \/ Redis!Select \/ Redis!Hangs
  BY <1>2 DEF Redis!Connect, Redis!Select, Redis!Hangs
<1>2a. CASE Redis!Auth
  <2>1. /\ proc' = (IF context = "good" THEN "select" ELSE "dead")
        /\ authentic' = FALSE \/ authentic' = (context = "good")
        /\ UNCHANGED <<context, stored, believed>>
        /\ context \in {"good", "freed"} /\ ~authentic /\ believed = stored
    BY <1>2a DEF Redis!Auth
  <2>2. CASE context = "good"
    BY <2>1, <2>2
  <2>3. CASE context = "freed"
    BY <2>1, <2>3
  <2> QED BY <2>1, <2>2, <2>3
<1>3. ASSUME NEW m \in Server, NEW f \in Fields, Redis!Step(m, f) PROVE RedisInv'
  <2>1. Redis!HasText(m, f)
    BY <1>3 DEF Redis!HasText, Server
  <2>2. CASE Redis!Call(m, f)
    BY <2>1, <2>2 DEF Redis!Call, Redis!Returns
  <2>3. CASE Redis!Breaks(m, f)
    BY <2>3 DEF Redis!Breaks, Redis!Returns
  <2>4. CASE Redis!CallBroken(m, f)
    BY <2>4 DEF Redis!CallBroken, Redis!Returns
  <2> QED BY <1>3, <2>2, <2>3, <2>4 DEF Redis!Step
<1> QED BY <1>1, <1>2, <1>2a, <1>3 DEF Redis!Next

(* A server never runs that was not connected once, no command ends it     *)
(* while the connection holds, and it believes what Redis holds until the  *)
(* connection breaks, for any fields and in any state of Redis.            *)
THEOREM RedisConnectionDecides == Redis!Spec => []ConnectionDecides
<1>1. RedisInv => ConnectionDecides
  BY DEF RedisInv
<1> QED BY <1>1, RedisInit, RedisNext, PTL DEF Redis!Spec
-----------------------------------------------------------------------------
(* LPushFastLog.  No line is numbered 0 but the one of an old file, and    *)
(* while that one is there no process has the file open at an offset of    *)
(* its own or is about to create it.                                       *)
LineRecord == [no : Nat \ {0}, size : Nat, text : Nat, end : Nat, written : Nat]
LineOK(r)  == /\ r.written = Log!Written(r.size)
              /\ r.end > LogMax => r.text > 0 /\ r.size - r.text > LogMax
HasOld     == file # None /\ \E k \in DOMAIN file : file[k] = 0

LogTypes ==
    /\ next \in Nat \ {0}
    /\ file \in Seq(Nat) \cup {None}
    /\ line \in [Procs -> LineRecord \cup {None}]
    /\ fd \in [Procs -> [kind : {"gone", "closed", "absent", "append", "own"}, at : Nat]]

LogInv ==
    /\ LogTypes
    /\ \A p \in Procs : line[p] # None => LineOK(line[p])
    /\ \A p \in Procs : fd[p].kind \in {"append", "own"} => file # None
    /\ HasOld => \A p \in Procs : fd[p].kind \in {"gone", "closed", "append"}

LEMMA WrittenBounded ==
    ASSUME NEW n \in Nat
    PROVE  /\ Log!Written(n) \in Nat /\ Log!Written(n) <= LogMax - 1
           /\ n <= LogMax - 2 => Log!Written(n) = n + 1
BY LogAssumption DEF Log!Written, Log!Lesser, Log!SizeAssumption

(* Only the text of errno can be put behind the buffer: the header was cut *)
(* to what there is, and the message is bounded by what it left.           *)
LEMMA LineFormatted ==
    ASSUME NEW level, NEW h \in Headers, NEW m \in Messages, NEW e \in Errors
    PROVE  /\ Log!Size(level, h, m, e) \in Nat /\ Log!Text(level, e) \in Nat
           /\ Log!End(level, h, m, e) \in Nat
           /\ Log!End(level, h, m, e) > LogMax =>
                  /\ Log!Text(level, e) > 0
                  /\ Log!Size(level, h, m, e) - Log!Text(level, e) > LogMax
<1>1. h \in Nat /\ m \in Nat /\ e \in Nat /\ LogMax \in Nat /\ LogMax > 2
  BY LogAssumption DEF Log!SizeAssumption
<1>2. Log!HeaderSize(h) \in Nat /\ Log!HeaderSize(h) <= LogMax - 1
  BY <1>1 DEF Log!HeaderSize, Log!Lesser
<1>3. Log!Text(level, e) \in {0, e}
  BY DEF Log!Text
<1> QED BY <1>1, <1>2, <1>3 DEF Log!Size, Log!End, Log!Extent, Log!Lesser

LEMMA LogInit == Log!Init => LogInv
<1> SUFFICES ASSUME Log!Init PROVE LogInv
  OBVIOUS
<1>1. /\ next = 1 /\ file \in {None, <<0>>} /\ line = [p \in Procs |-> None]
      /\ fd = [p \in Procs |-> [kind |-> "gone", at |-> 0]]
  BY DEF Log!Init, Log!Gone
<1>2. file \in Seq(Nat) \cup {None}
  <2>1. <<0>> \in Seq(Nat)
    OBVIOUS
  <2> QED BY <1>1, <2>1
<1>3. fd \in [Procs -> [kind : {"gone", "closed", "absent", "append", "own"}, at : Nat]]
  BY <1>1
<1>4. LogTypes
  BY <1>1, <1>2, <1>3 DEF LogTypes
<1> QED BY <1>1, <1>4 DEF LogInv

(* What write_log() does to the file, at the end or at an own offset.      *)
LEMMA FileGrows ==
    ASSUME file \in Seq(Nat), NEW n \in Nat \ {0}
    PROVE  /\ Append(file, n) \in Seq(Nat)
           /\ \A k \in DOMAIN Append(file, n) : Append(file, n)[k] = 0 =>
                  k \in DOMAIN file /\ file[k] = 0
           /\ Log!IsPrefix(file, Append(file, n))
BY DEF Log!IsPrefix

LEMMA FileWritten ==
    ASSUME file \in Seq(Nat), NEW n \in Nat \ {0}, NEW i \in Nat, i < Len(file)
    PROVE  /\ [file EXCEPT ![i + 1] = n] \in Seq(Nat)
           /\ \A k \in DOMAIN [file EXCEPT ![i + 1] = n] :
                  [file EXCEPT ![i + 1] = n][k] = 0 => k \in DOMAIN file /\ file[k] = 0
OBVIOUS

(* One process writes, opens or closes; the others keep their descriptors. *)
LEMMA LogStep ==
    ASSUME LogInv, NEW p \in Procs,
           \/ Log!Initialize(p) \/ Log!Destroy(p) \/ Log!OpenLogFile(p)
           \/ Log!OpenFails(p) \/ Log!Overruns(p)
    PROVE  LogInv'
<1>1. /\ UNCHANGED <<file, next>>
      /\ line' \in {line, [line EXCEPT ![p] = None]}
      /\ \E k \in {"gone", "closed", "absent", "append"} :
             /\ fd' = [fd EXCEPT ![p] = [kind |-> k, at |-> 0]]
             /\ k = "absent" => file = None
             /\ k = "append" => file # None
  BY DEF Log!Initialize, Log!Destroy, Log!OpenLogFile, Log!OpenFails,
     Log!Overruns, Log!Gone, Log!Closed, Log!Absent
<1>2. LogTypes'
  BY <1>1 DEF LogInv, LogTypes
<1>3. HasOld' = HasOld
  BY <1>1 DEF HasOld
<1> QED BY <1>1, <1>2, <1>3 DEF LogInv, LogTypes, HasOld

LEMMA SaysStep ==
    ASSUME LogInv, NEW p \in Procs, NEW level, NEW h \in Headers,
           NEW m \in Messages, NEW e \in Errors, Log!Says(p, level, h, m, e)
    PROVE  LogInv'
<1> DEFINE n == Log!Size(level, h, m, e)
           t == Log!Text(level, e)
           z == Log!End(level, h, m, e)
           w == Log!Written(n)
           r == [no |-> next, size |-> n, text |-> t, end |-> z, written |-> w]
<1>1. /\ n \in Nat /\ t \in Nat /\ z \in Nat /\ w \in Nat /\ w = Log!Written(n)
      /\ z > LogMax => t > 0 /\ n - t > LogMax
  BY LineFormatted, WrittenBounded
<1>2. /\ UNCHANGED <<file, fd>> /\ next' = next + 1 /\ line' = [line EXCEPT ![p] = r]
  BY DEF Log!Says
<1> HIDE DEF n, t, z, w
<1>3. next \in Nat \ {0}
  BY DEF LogInv, LogTypes
<1>4. r \in LineRecord /\ LineOK(r)
  BY <1>1, <1>3 DEF LineRecord, LineOK
<1> HIDE DEF r
<1>5. LogTypes'
  BY <1>2, <1>3, <1>4 DEF LogInv, LogTypes
<1>6. HasOld' = HasOld
  BY <1>2 DEF HasOld
<1>7. \A q \in Procs : line'[q] # None => LineOK(line'[q])
  BY <1>2, <1>4 DEF LogInv, LogTypes
<1> QED BY <1>2, <1>5, <1>6, <1>7 DEF LogInv, LogTypes

LEMMA CreateStep ==
    ASSUME LogInv, NEW p \in Procs, Log!CreateLogFile(p)
    PROVE  LogInv' /\ ~HasOld
<1>1. /\ fd[p].kind = "absent" /\ file' = << >> /\ UNCHANGED <<line, next>>
      /\ fd' = [fd EXCEPT ![p] = [kind |-> "own", at |-> 0]]
  BY DEF Log!CreateLogFile, Log!Absent
<1>2. ~HasOld
  BY <1>1 DEF LogInv
<1>3. file' \in Seq(Nat) /\ file' # None /\ DOMAIN file' = {}
  <2>1. << >> \in Seq(Nat) /\ DOMAIN << >> = {}
    OBVIOUS
  <2> QED BY <1>1, <2>1, LogAssumption DEF Log!SizeAssumption
<1>4. fd' \in [Procs -> [kind : {"gone", "closed", "absent", "append", "own"}, at : Nat]]
  BY <1>1 DEF LogInv, LogTypes
<1>5. LogTypes' /\ ~HasOld'
  BY <1>1, <1>3, <1>4 DEF LogInv, LogTypes, HasOld
<1> QED BY <1>1, <1>2, <1>3, <1>5 DEF LogInv, LogTypes

LEMMA WriteStep ==
    ASSUME LogInv, NEW p \in Procs, Log!WriteLog(p)
    PROVE  LogInv' /\ (HasOld => Log!IsPrefix(file, file'))
<1> DEFINE n == line[p].no
<1>1. /\ n \in Nat \ {0} /\ fd[p].at \in Nat /\ fd[p].kind \in {"append", "own"}
      /\ line' = [line EXCEPT ![p] = None] /\ UNCHANGED next
  BY DEF Log!WriteLog, LogInv, LogTypes, LineRecord
<1>2. file \in Seq(Nat)
  BY <1>1 DEF LogInv, LogTypes
<1>3. \/ fd[p].kind = "append" /\ file' = Append(file, n) /\ UNCHANGED fd
      \/ /\ fd[p].kind = "own" /\ fd' = [fd EXCEPT ![p].at = @ + 1]
         /\ \/ fd[p].at < Len(file) /\ file' = [file EXCEPT ![fd[p].at + 1] = n]
            \/ file' = Append(file, n)
  BY DEF Log!WriteLog
<1> HIDE DEF n
<1>4. /\ file' \in Seq(Nat)
      /\ \A k \in DOMAIN file' : file'[k] = 0 => k \in DOMAIN file /\ file[k] = 0
  BY <1>1, <1>2, <1>3, FileGrows, FileWritten
<1>5. file' # None /\ file # None
  BY <1>2, <1>4, LogAssumption DEF Log!SizeAssumption
<1>6. HasOld' => HasOld
  BY <1>4, <1>5 DEF HasOld
<1>7. /\ fd' \in [Procs -> [kind : {"gone", "closed", "absent", "append", "own"}, at : Nat]]
      /\ \A q \in Procs : fd'[q].kind = fd[q].kind
  <2> DEFINE K == {"gone", "closed", "absent", "append", "own"}
  <2>1. fd \in [Procs -> [kind : K, at : Nat]]
    BY DEF LogInv, LogTypes
  <2>2. CASE UNCHANGED fd
    BY <2>1, <2>2
  <2>3. CASE fd' = [fd EXCEPT ![p].at = @ + 1]
    <3> DEFINE r == [fd[p] EXCEPT !.at = @ + 1]
    <3>1. fd[p] \in [kind : K, at : Nat]
      BY <2>1
    <3> HIDE DEF K
    <3>2. r \in [kind : K, at : Nat] /\ r.kind = fd[p].kind
      BY <1>1, <3>1
    <3>3. fd' = [fd EXCEPT ![p] = r]
      BY <2>3
    <3> HIDE DEF r
    <3>4. fd' \in [Procs -> [kind : K, at : Nat]] /\ \A q \in Procs : fd'[q].kind = fd[q].kind
      BY <2>1, <3>2, <3>3
    <3> QED BY <3>4 DEF K
  <2> QED BY <1>3, <2>2, <2>3
<1>8. LogTypes'
  BY <1>1, <1>4, <1>7 DEF LogInv, LogTypes
<1>9. HasOld => Log!IsPrefix(file, file')
  <2> SUFFICES ASSUME HasOld PROVE Log!IsPrefix(file, file')
    OBVIOUS
  <2>1. fd[p].kind # "own"
    BY DEF LogInv
  <2> QED BY <1>1, <1>2, <1>3, <2>1, FileGrows
<1> QED BY <1>1, <1>5, <1>6, <1>7, <1>8, <1>9 DEF LogInv, LogTypes

LEMMA LogNext == LogInv /\ [Log!Next]_(Log!vars) => LogInv'
<1>1. LogInv /\ UNCHANGED Log!vars => LogInv'
  BY DEF Log!vars, LogInv, LogTypes, HasOld
<1> QED BY <1>1, LogStep, SaysStep, CreateStep, WriteStep DEF Log!Next

(* For any sizes of header, message and errno text: what write() gets is   *)
(* within the buffer, a line that fits is written whole, and formatting    *)
(* writes behind the buffer only when errno's text follows what did not    *)
(* fit.                                                                    *)
THEOREM LogLineBounded == Log!Spec => []LineBounded
<1>1. LogInv => LineBounded
  BY WrittenBounded DEF LogInv, LogTypes, LineRecord, LineOK, LineBounded, Log!LineBounded
<1> QED BY <1>1, LogInit, LogNext, PTL DEF Log!Spec

(* A log that was there before the processes is only extended.             *)
THEOREM OldLogExtended == Log!Spec => OnlyExtended
<1> DEFINE Extended == file # None /\ (\E k \in DOMAIN file : file[k] = 0) =>
                           Log!IsPrefix(file, file')
<1>1. LogInv /\ [Log!Next]_(Log!vars) => [Extended]_(Log!vars)
  <2> SUFFICES ASSUME LogInv, Log!Next, HasOld PROVE Log!IsPrefix(file, file')
    BY DEF HasOld
  <2>1. PICK p \in Procs :
            \/ Log!CreateLogFile(p) \/ Log!WriteLog(p) \/ UNCHANGED file
    BY DEF Log!Next, Log!Initialize, Log!Destroy, Log!OpenLogFile, Log!OpenFails,
           Log!Overruns, Log!Says
  <2>2. CASE UNCHANGED file
    BY <2>2 DEF Log!IsPrefix
  <2> QED BY <2>1, <2>2, CreateStep, WriteStep
<1> QED BY <1>1, LogInit, LogNext, PTL DEF Log!Spec, OnlyExtended, Log!OnlyExtended
-----------------------------------------------------------------------------
(* LogContext.  Ids are never given twice; an address whose coroutine has  *)
(* generated one holds it alone, and lines with it are of that coroutine.  *)
IdsTypes ==
    /\ self \in [Addrs -> Nat] /\ known \in [Addrs -> BOOLEAN]
    /\ cache \in [Addrs -> Nat] /\ id \in Nat \ {0} /\ born \in Nat
    /\ lines \subseteq Nat \X Nat

IdsInv ==
    /\ IdsTypes
    /\ \A a \in Addrs : cache[a] < id /\ (known[a] => cache[a] # 0)
    /\ \A a, b \in Addrs : cache[a] = cache[b] /\ cache[a] # 0 => a = b
    /\ \A x \in lines : x[1] < id
    /\ \A x \in lines, a \in Addrs :
           self[a] # 0 /\ known[a] /\ cache[a] = x[1] => self[a] = x[2]
    /\ IdNamesOne

LEMMA IdsInit == Ids!Init => IdsInv
BY DEF Ids!Init, IdsInv, IdsTypes, IdNamesOne, Ids!IdNamesOne

LEMMA IdsNext == IdsInv /\ [Ids!Next]_(Ids!vars) => IdsInv'
<1> SUFFICES ASSUME IdsInv, [Ids!Next]_(Ids!vars) PROVE IdsInv'
  OBVIOUS
<1>1. CASE UNCHANGED Ids!vars
  BY <1>1 DEF Ids!vars, IdsInv, IdsTypes, IdNamesOne, Ids!IdNamesOne
<1>2. ASSUME NEW a \in Addrs, Ids!Create(a) \/ Ids!Exit(a) PROVE IdsInv'
  <2>1. IdsTypes'
    <3>1. CASE Ids!Create(a)
      BY <3>1 DEF Ids!Create, IdsInv, IdsTypes
    <3>2. CASE Ids!Exit(a)
      BY <3>2 DEF Ids!Exit, IdsInv, IdsTypes
    <3> QED BY <1>2, <3>1, <3>2
  <2>2. /\ UNCHANGED <<cache, id, lines>>
        /\ \A b \in Addrs : b # a => self'[b] = self[b] /\ known'[b] = known[b]
        /\ self'[a] = 0 \/ ~known'[a]
        /\ known'[a] => known[a]
    BY <1>2 DEF Ids!Create, Ids!Exit, IdsInv, IdsTypes
  <2> QED BY <2>1, <2>2 DEF IdsInv, IdNamesOne, Ids!IdNamesOne
<1>3. ASSUME NEW a \in Addrs, Ids!GenerateId(a) PROVE IdsInv'
  <2>1. IdsTypes'
    BY <1>3 DEF Ids!GenerateId, IdsInv, IdsTypes
  <2>2. /\ UNCHANGED <<self, lines>> /\ id' = id + 1 /\ cache'[a] = id
        /\ \A b \in Addrs : b # a => cache'[b] = cache[b] /\ known'[b] = known[b]
    BY <1>3 DEF Ids!GenerateId, IdsInv, IdsTypes
  <2>3. id \in Nat \ {0} /\ \A b \in Addrs : cache[b] \in Nat /\ cache'[b] \in Nat
    BY <2>1 DEF IdsInv, IdsTypes
  <2>4. \A x \in lines : x[1] \in Nat /\ x[1] < id
    BY DEF IdsInv, IdsTypes
  <2> QED BY <2>1, <2>2, <2>3, <2>4 DEF IdsInv, IdNamesOne, Ids!IdNamesOne
<1>4. ASSUME NEW a \in Addrs, Ids!Log(a) PROVE IdsInv'
  <2>1. /\ UNCHANGED <<self, known, cache, id, born>>
        /\ lines' = lines \cup {<<cache[a], self[a]>>} /\ self[a] # 0 /\ known[a]
    BY <1>4 DEF Ids!Log
  <2>2. IdsTypes'
    BY <2>1 DEF IdsInv, IdsTypes
  <2>3. \A x \in lines' : x \in lines \/ (x[1] = cache[a] /\ x[2] = self[a])
    BY <2>1
  <2> QED BY <2>1, <2>2, <2>3 DEF IdsInv, IdNamesOne, Ids!IdNamesOne
<1> QED BY <1>1, <1>2, <1>3, <1>4 DEF Ids!Next

(* An id in the log stands for one coroutine, for any number of them and   *)
(* however often their addresses are used again.                           *)
THEOREM LogIdsNameOne == Ids!Spec => []IdNamesOne
<1>1. IdsInv => IdNamesOne
  BY DEF IdsInv
<1> QED BY <1>1, IdsInit, IdsNext, PTL DEF Ids!Spec
-----------------------------------------------------------------------------
(* What the runs check together is a behaviour of each of the classes.     *)
THEOREM PartsBehave ==
    CoreSpec => Spec /\ Posix!Spec /\ Redis!Spec /\ Log!Spec /\ Ids!Spec
<1>1. CoreInit => Init /\ Posix!Init /\ Redis!Init /\ Log!Init /\ Ids!Init
  BY DEF CoreInit
<1>2. [CoreNext]_CoreVars => [Next]_vars
  BY DEF CoreNext, CoreVars
<1>3. [CoreNext]_CoreVars => [Posix!Next]_(Posix!vars)
  BY DEF CoreNext, CoreVars, posixVars, Posix!vars, Posix!flags
<1>4. [CoreNext]_CoreVars => [Redis!Next]_(Redis!vars)
  BY DEF CoreNext, CoreVars, redisVars, Redis!vars
<1>5. [CoreNext]_CoreVars => [Log!Next]_(Log!vars)
  BY DEF CoreNext, CoreVars, logVars, Log!vars
<1>6. [CoreNext]_CoreVars => [Ids!Next]_(Ids!vars)
  BY DEF CoreNext, CoreVars, idsVars, Ids!vars
<1> QED BY <1>1, <1>2, <1>3, <1>4, <1>5, <1>6, PTL
    DEF CoreSpec, Spec, Posix!Spec, Redis!Spec, Log!Spec, Ids!Spec
=============================================================================
