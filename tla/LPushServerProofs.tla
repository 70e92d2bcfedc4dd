-------------------------- MODULE LPushServerProofs --------------------------
(***************************************************************************)
(* The exclusion that the PID file gives, for any number of processes and  *)
(* any point at which one of them is started, signalled or killed.         *)
(***************************************************************************)
EXTENDS LPushServer, TLAPS

Held    == {"locked", "truncated", "acquired", "signals"} \cup Waiting \cup {"cleared"}
Named   == Held \ {"locked", "truncated"}
Serving == {"serving", "closing", "clearing", "cleared"}
Crashed == {"killed", "exit", "abort", "crash"}

(* What the exclusion rests on: who is past the lock holds it, who has     *)
(* written its pid is named by the file, and an entry belongs to a process *)
(* that serves, crashed, or ended without its connection to Redis.         *)
LockInv  == \A p \in Procs : pc[p] \in Held => holder = p
FileInv  == \A p \in Procs : pc[p] \in Named => pidFile = p
Left(p) == exit[p] \in Crashed \/ (exit[p] = "graceful" /\ ~redis[p])
EntryInv == \A p \in Procs : entry = p => pc[p] \in Serving \/ (pc[p] = "ended" /\ Left(p))

IInv == TypeOK /\ LockInv /\ FileInv /\ EntryInv

USE DEF Starting, Waiting, At, world

(* The variables have their types: in particular the list of connections   *)
(* never exceeds maxconnect and the seconds since the last refresh of the  *)
(* entry stay below three.                                                 *)
LEMMA DieTypes ==
    ASSUME TypeOK, NEW p \in Procs,
           NEW how \in {"running", "error", "killed", "exit", "abort", "crash", "graceful"},
           Die(p, how), entry' \in {entry, None}
    PROVE  TypeOK'
<1>1. quit' \in [Procs -> BOOLEAN] /\ held' \in [Procs -> BOOLEAN]
    BY Zenon DEF TypeOK, Die
<1>2. conns' \in [Procs -> 0 .. MaxConns] /\ since' \in [Procs -> 0 .. 2]
    BY LimitAssumption DEF TypeOK, Die
<1>3. << >> \in Seq(SignalName)
    OBVIOUS
<1>4. pipe' \in [Procs -> Seq(SignalName)]
    BY <1>3 DEF TypeOK, Die
<1>5. /\ pc' \in [Procs -> Starting \cup Waiting \cup {"none", "cleared", "ended"}]
      /\ exit' \in [Procs -> {"no", "running", "error", "killed", "exit", "abort", "crash", "graceful"}]
      /\ listener' \in [Procs -> {"none", "parked", "ended"}]
    BY DEF TypeOK, Die
<1>6. /\ UNCHANGED <<pidFile, sent, redis>>
      /\ holder' \in Procs \cup {None} /\ port' \in Procs \cup {None}
      /\ entry' \in Procs \cup {None}
    BY DEF TypeOK, Die
<1> QED BY <1>1, <1>2, <1>4, <1>5, <1>6, Zenon DEF TypeOK

LEMMA TypeInv == TypeOK /\ [Next]_vars => TypeOK'
<1> SUFFICES ASSUME TypeOK, [Next]_vars PROVE TypeOK'
    OBVIOUS
<1> USE ProcsAssumption, LimitAssumption, SignalsAssumption DEF TypeOK
<1>1. CASE UNCHANGED vars
    BY <1>1 DEF vars, files, inner
<1>3. ASSUME NEW p \in Procs,
             \/ Boot(p) \/ OpenPid(p) \/ Truncate(p) \/ WritePid(p)
             \/ SignalInit(p) \/ SignalRegister(p) \/ MongoThreadInit(p)
             \/ Listen(p) \/ Serve(p) \/ ListenersClosed(p)
      PROVE  TypeOK'
    BY <1>3 DEF Boot, OpenPid, Truncate, WritePid, SignalInit, SignalRegister,
                MongoThreadInit, Listen, Serve, ListenersClosed, To, files, inner
<1>4. ASSUME NEW p \in Procs, Lock(p) PROVE TypeOK'
    <2>1. CASE holder = None
        BY <2>1, <1>4 DEF Lock, To, inner
    <2>2. CASE holder # None
        BY <2>2, <1>4, DieTypes DEF Lock
    <2> QED BY <2>1, <2>2
<1>5. ASSUME NEW p \in Procs, StartFails(p) \/ Kill(p) PROVE TypeOK'
    BY <1>5, DieTypes DEF StartFails, Kill
<1>6. ASSUME NEW p \in Procs, NEW s \in Signals[p], Receive(p, s) PROVE TypeOK'
    <2>1. CASE pc[p] \in Starting
        BY <2>1, <1>6, DieTypes DEF Receive
    <2>2. CASE pc[p] \notin Starting
        <3>1. /\ sent' = [sent EXCEPT ![p] = @ \cup {s}]
              /\ pipe' = [pipe EXCEPT ![p] = Append(@, s)]
              /\ UNCHANGED <<files, pc, exit, quit, listener, conns, since, world>>
            BY <2>2, <1>6 DEF Receive
        <3>5. s \in SignalName
            OBVIOUS
        <3>2. Append(pipe[p], s) \in Seq(SignalName)
            BY <3>5
        <3>3. pipe' \in [Procs -> Seq(SignalName)]
            BY <3>1, <3>2
        <3>4. sent' \in [Procs -> SUBSET SignalName]
            BY <3>1
        <3> QED BY <3>1, <3>3, <3>4 DEF files
    <2> QED BY <2>1, <2>2
<1>7. ASSUME NEW p \in Procs, OnSignal(p) PROVE TypeOK'
    <2>1. CASE Head(pipe[p]) \in {"INT", "USR2"}
        BY <2>1, <1>7, DieTypes DEF OnSignal
    <2>2. CASE Head(pipe[p]) \notin {"INT", "USR2"}
        <3>1. /\ pipe' = [pipe EXCEPT ![p] = Tail(@)]
              /\ UNCHANGED <<files, pc, exit, sent, listener, conns, since, world>>
              /\ pipe[p] # << >>
            BY <2>2, <1>7 DEF OnSignal
        <3>4. Tail(pipe[p]) \in Seq(SignalName)
            BY <3>1
        <3>5. pipe' \in [Procs -> Seq(SignalName)]
            BY <3>1, <3>4
        <3>2. (quit[p] \/ Head(pipe[p]) = "TERM") \in BOOLEAN
            OBVIOUS
        <3>3. quit' \in [Procs -> BOOLEAN]
            BY <3>2, <2>2, <1>7, Zenon DEF OnSignal
        <3> QED BY <3>1, <3>3, <3>5 DEF files
    <2> QED BY <2>1, <2>2
<1>8. ASSUME NEW p \in Procs, Accept(p) \/ Interrupted(p) \/ ConnEnds(p) PROVE TypeOK'
    <2>1. UNCHANGED <<files, pc, exit, sent, pipe, quit, since, world>>
        BY <1>8 DEF Accept, Interrupted, ConnEnds
    <2>2. conns' \in [Procs -> 0 .. MaxConns]
        <3>1. conns[p] \in 0 .. MaxConns
            OBVIOUS
        <3>2. CASE Accept(p)
            <4>1. conns[p] + 1 \in 0 .. MaxConns
                BY <3>1, <3>2 DEF Accept
            <4> QED BY <4>1, <3>2 DEF Accept
        <3>3. CASE Interrupted(p)
            BY <3>3 DEF Interrupted
        <3>4. CASE ConnEnds(p)
            <4>1. conns[p] - 1 \in 0 .. MaxConns
                BY <3>1, <3>4 DEF ConnEnds
            <4> QED BY <4>1, <3>4 DEF ConnEnds
        <3> QED BY <3>2, <3>3, <3>4, <1>8
    <2>3. listener' \in [Procs -> {"none", "parked", "ended"}]
        BY <1>8 DEF Accept, Interrupted, ConnEnds
    <2> QED BY <2>1, <2>2, <2>3 DEF files
<1>9. ASSUME NEW p \in Procs, Tick(p) PROVE TypeOK'
    <2>0. CASE Die(p, "crash") /\ UNCHANGED entry
        BY <2>0, DieTypes
    <2> SUFFICES ASSUME ~(Die(p, "crash") /\ UNCHANGED entry) PROVE TypeOK'
        BY <2>0
    <2>1. entry' \in {entry, p}
        BY <1>9 DEF Tick
    <2>2. since' \in [Procs -> 0 .. 2]
        <3>1. since[p] \in 0 .. 2
            OBVIOUS
        <3>2. CASE since[p] + 1 > 2
            <4>1. since' = [since EXCEPT ![p] = 0]
                BY <3>2, <1>9 DEF Tick
            <4> QED BY <4>1
        <3>3. CASE ~(since[p] + 1 > 2)
            <4>1. since[p] + 1 \in 0 .. 2
                BY <3>1, <3>3
            <4> QED BY <4>1, <3>3, <1>9 DEF Tick
        <3> QED BY <3>2, <3>3
    <2> QED BY <2>1, <2>2, <1>9 DEF Tick
<1>10. ASSUME NEW p \in Procs, CloseListeners(p) PROVE TypeOK'
    <2>1. CASE p \in Asserting
        BY <2>1, <1>10, DieTypes DEF CloseListeners
    <2>2. CASE p \notin Asserting
        BY <2>2, <1>10 DEF CloseListeners, To, files, inner
    <2> QED BY <2>1, <2>2
<1>11. ASSUME NEW p \in Procs, CloseConns(p) PROVE TypeOK'
    <2>1. CASE Die(p, "crash") /\ UNCHANGED entry
        BY <2>1, DieTypes
    <2>2. CASE ~(Die(p, "crash") /\ UNCHANGED entry)
        <3>1. /\ To(p, "cleared") /\ conns' = [conns EXCEPT ![p] = 0]
              /\ UNCHANGED <<files, sent, pipe, quit, listener, since, world>>
            BY <2>2, <1>11 DEF CloseConns
        <3>2. conns' \in [Procs -> 0 .. MaxConns]
            BY <3>1
        <3> QED BY <3>1, <3>2 DEF To, files
    <2> QED BY <2>1, <2>2
<1>12. ASSUME NEW p \in Procs, Dispose(p) PROVE TypeOK'
    BY <1>12, DieTypes DEF Dispose
<1>13. ASSUME NEW p \in Procs, NullReply(p) PROVE TypeOK'
    BY <1>13, DieTypes DEF NullReply
<1>14. ASSUME NEW p \in Procs, RedisBreaks(p) \/ Hang(p) PROVE TypeOK'
    <2>1. redis' \in [Procs -> BOOLEAN] /\ held' \in [Procs -> BOOLEAN]
        BY <1>14, Zenon DEF RedisBreaks, Hang
    <2>2. UNCHANGED <<files, pc, exit, sent, pipe, quit, listener, conns, since>>
        BY <1>14 DEF RedisBreaks, Hang
    <2> QED BY <2>1, <2>2, Zenon DEF files
<1> QED BY <1>1, <1>3, <1>4, <1>5, <1>6, <1>7, <1>8, <1>9, <1>10, <1>11, <1>12, <1>13, <1>14
        DEF Next

LEMMA Initially == Init => IInv
BY ProcsAssumption, LimitAssumption
   DEF Init, IInv, TypeOK, LockInv, FileInv, EntryInv, Held, Named, Serving

(* A process that ends gives up nothing that another one holds.            *)
LEMMA Ends ==
    ASSUME IInv, NEW p \in Procs, NEW how, Die(p, how),
           \/ how \in Crashed /\ UNCHANGED entry
           \/ pc[p] \notin Serving \cup {"ended"} /\ UNCHANGED entry
           \/ pc[p] \in Held /\ entry' = None
           \/ pc[p] \in Held /\ how = "graceful" /\ ~redis[p] /\ UNCHANGED entry
    PROVE  LockInv' /\ FileInv' /\ EntryInv'
<1> USE ProcsAssumption DEF Die, IInv, TypeOK, Held, Named, Serving, Left
<1>1. LockInv'
    BY DEF LockInv
<1>2. FileInv'
    BY DEF FileInv
<1>3. EntryInv'
    <2>1. CASE how \in Crashed /\ UNCHANGED entry
        BY <2>1 DEF EntryInv
    <2>2. CASE pc[p] \notin Serving \cup {"ended"} /\ UNCHANGED entry
        BY <2>2 DEF EntryInv, LockInv, Crashed
    <2>3. CASE pc[p] \in Held /\ entry' = None
        BY <2>3 DEF EntryInv
    <2>4. CASE pc[p] \in Held /\ how = "graceful" /\ ~redis[p] /\ UNCHANGED entry
        BY <2>4 DEF EntryInv
    <2> QED BY <2>1, <2>2, <2>3, <2>4
<1> QED BY <1>1, <1>2, <1>3

(* A call that only moves its process on disturbs nothing.                 *)
LEMMA Moves ==
    ASSUME IInv, NEW p \in Procs, NEW place, To(p, place),
           UNCHANGED <<pidFile, holder, entry, redis>>, pc[p] # "ended",
           place \in Held => pc[p] \in Held,
           place \in Named => pc[p] \in Named,
           pc[p] \in Serving => place \in Serving
    PROVE  LockInv' /\ FileInv' /\ EntryInv'
BY DEF To, IInv, TypeOK, LockInv, FileInv, EntryInv, Left

LEMMA Step == IInv /\ [Next]_vars => IInv'
<1> SUFFICES ASSUME IInv, [Next]_vars PROVE LockInv' /\ FileInv' /\ EntryInv'
    BY TypeInv DEF IInv
<1> USE ProcsAssumption DEF IInv, TypeOK, LockInv, FileInv, EntryInv, Held, Named, Serving, Left
<1>1. CASE UNCHANGED vars
    BY <1>1 DEF vars, files, inner
<1>2. ASSUME NEW p \in Procs,
             \/ Boot(p) \/ OpenPid(p) \/ Truncate(p) \/ WritePid(p)
             \/ SignalInit(p) \/ SignalRegister(p) \/ MongoThreadInit(p)
             \/ Listen(p) \/ Serve(p) \/ ListenersClosed(p)
      PROVE  LockInv' /\ FileInv' /\ EntryInv'
    <2>1. CASE Truncate(p) \/ WritePid(p)
        <3>1. UNCHANGED <<exit, redis>>
            BY <2>1, <1>2 DEF Truncate, WritePid, To, inner
        <3>2. \A q \in Procs : Left(q)' <=> Left(q)
            BY <3>1
        <3> HIDE DEF Left
        <3> QED BY <3>2, <2>1, <1>2 DEF Truncate, WritePid, To
    <2>2. CASE Boot(p) \/ OpenPid(p) \/ Listen(p) \/ Serve(p)
        <3>1. PICK place \in {"boot", "open", "listening", "serving"} :
                  /\ To(p, place) /\ UNCHANGED <<pidFile, holder, entry, redis>>
                  /\ pc[p] = CASE place = "boot" -> "none" [] place = "open" -> "boot"
                              [] place = "listening" -> "mongo" [] OTHER -> "listening"
            BY <2>2 DEF Boot, OpenPid, Listen, Serve, files, inner
        <3> HIDE DEF LockInv, FileInv, EntryInv, IInv, TypeOK
        <3> QED BY <3>1, Moves
    <2>3. CASE SignalInit(p) \/ SignalRegister(p) \/ MongoThreadInit(p) \/ ListenersClosed(p)
        <3>1. UNCHANGED <<exit, redis>>
            BY <2>3 DEF SignalInit, SignalRegister, MongoThreadInit, ListenersClosed, To, files, inner
        <3>2. \A q \in Procs : Left(q)' <=> Left(q)
            BY <3>1
        <3> HIDE DEF Left
        <3> QED BY <3>2, <2>3 DEF SignalInit, SignalRegister, MongoThreadInit, ListenersClosed, To, files
    <2> QED BY <2>1, <2>2, <2>3, <1>2
<1>3. ASSUME NEW p \in Procs, Lock(p) PROVE LockInv' /\ FileInv' /\ EntryInv'
    <2>1. CASE holder = None
        <3>1. UNCHANGED <<exit, redis>>
            BY <2>1, <1>3 DEF Lock, To, inner
        <3>2. \A q \in Procs : Left(q)' <=> Left(q)
            BY <3>1
        <3> HIDE DEF Left
        <3> QED BY <3>2, <2>1, <1>3 DEF Lock, To
    <2>2. CASE holder # None
        BY <2>2, <1>3, Ends DEF Lock
    <2> QED BY <2>1, <2>2
<1>4. ASSUME NEW p \in Procs, StartFails(p) PROVE LockInv' /\ FileInv' /\ EntryInv'
    BY <1>4, Ends DEF StartFails
<1>5. ASSUME NEW p \in Procs, Kill(p) PROVE LockInv' /\ FileInv' /\ EntryInv'
    BY <1>5, Ends DEF Kill, Crashed
<1>6. ASSUME NEW p \in Procs, NEW s \in Signals[p], Receive(p, s)
      PROVE  LockInv' /\ FileInv' /\ EntryInv'
    BY <1>6, Ends DEF Receive, Crashed, files
<1>7. ASSUME NEW p \in Procs, OnSignal(p) PROVE LockInv' /\ FileInv' /\ EntryInv'
    BY <1>7, Ends DEF OnSignal, Crashed, files
<1>8. ASSUME NEW p \in Procs, Accept(p) \/ Interrupted(p) \/ ConnEnds(p)
      PROVE  LockInv' /\ FileInv' /\ EntryInv'
    BY <1>8 DEF Accept, Interrupted, ConnEnds, files
<1>9. ASSUME NEW p \in Procs, Tick(p) PROVE LockInv' /\ FileInv' /\ EntryInv'
    <2>1. CASE Die(p, "crash") /\ UNCHANGED entry
        BY <2>1, Ends DEF Crashed
    <2>2. CASE ~(Die(p, "crash") /\ UNCHANGED entry)
        BY <2>2, <1>9 DEF Tick
    <2> QED BY <2>1, <2>2
<1>10. ASSUME NEW p \in Procs, CloseListeners(p) PROVE LockInv' /\ FileInv' /\ EntryInv'
    <2>1. CASE p \in Asserting
        BY <2>1, <1>10, Ends DEF CloseListeners, Crashed
    <2>2. CASE p \notin Asserting
        <3>1. /\ To(p, "closing") /\ UNCHANGED <<pidFile, holder, entry, redis>>
              /\ pc[p] = "serving"
            BY <2>2, <1>10 DEF CloseListeners, files, inner
        <3> HIDE DEF LockInv, FileInv, EntryInv, IInv, TypeOK
        <3> QED BY <3>1, Moves
    <2> QED BY <2>1, <2>2
<1>11. ASSUME NEW p \in Procs, CloseConns(p) PROVE LockInv' /\ FileInv' /\ EntryInv'
    BY <1>11, Ends DEF CloseConns, Crashed, To, files
<1>12. ASSUME NEW p \in Procs, Dispose(p) PROVE LockInv' /\ FileInv' /\ EntryInv'
    BY <1>12, Ends DEF Dispose
<1>13. ASSUME NEW p \in Procs, NullReply(p) PROVE LockInv' /\ FileInv' /\ EntryInv'
    BY <1>13, Ends DEF NullReply, Crashed
<1>14. ASSUME NEW p \in Procs, RedisBreaks(p) \/ Hang(p) PROVE LockInv' /\ FileInv' /\ EntryInv'
    <2>1. /\ UNCHANGED <<files, pc, exit>>
          /\ \A q \in Procs : ~redis[q] => ~redis'[q]
        BY <1>14 DEF RedisBreaks, Hang
    <2> QED BY <2>1 DEF files
<1> QED BY <1>1, <1>2, <1>3, <1>4, <1>5, <1>6, <1>7, <1>8, <1>9, <1>10, <1>11, <1>12, <1>13, <1>14
        DEF Next

LEMMA Invariant == Spec => []IInv
BY Initially, Step, PTL DEF Spec

(* The types of the variables, for every number of processes and limit.    *)
THEOREM Types == Spec => []TypeOK
<1>1. IInv => TypeOK
    BY DEF IInv
<1> QED BY <1>1, Invariant, PTL

(* The PID file names every process that has written its pid and lives.    *)
THEOREM PidFile == Spec => []PidFileNamesHolder
<1>1. IInv => PidFileNamesHolder
    BY DEF IInv, TypeOK, FileInv, Named, Held, Alive, PidFileNamesHolder
<1> QED BY <1>1, Invariant, PTL

(* At most one process is past acquire_pid_file().                         *)
THEOREM Exclusion == Spec => []OneServes
<1>1. IInv => OneServes
    BY DEF IInv, TypeOK, LockInv, Held, Alive, OneServes
<1> QED BY <1>1, Invariant, PTL

(* An entry without a server tells of a crash, or of a connection to Redis *)
(* that broke before the end.                                              *)
THEOREM StaleEntry == Spec => []StaleEntryExplained
<1>1. IInv => StaleEntryExplained
    BY DEF IInv, TypeOK, EntryInv, Left, Serving, Crashed, Alive, StaleEntryExplained
<1> QED BY <1>1, Invariant, PTL

(* No step takes the entry of a process that goes on living.               *)
THEOREM KeepsLiveEntry == Spec => RemovesNoLiveEntry
<1>1. IInv /\ [Next]_vars =>
          [\A q \in Procs : entry = q /\ entry' # q /\ Alive(q) => pc'[q] = "ended"]_vars
    <2> SUFFICES ASSUME IInv, Next, NEW q \in Procs, entry = q, entry' # q, Alive(q)
                 PROVE  pc'[q] = "ended"
        BY DEF vars
    <2>1. PICK p \in Procs : Tick(p) \/ Dispose(p)
        BY DEF Next, Boot, OpenPid, Lock, Truncate, WritePid, SignalInit, SignalRegister,
               MongoThreadInit, Listen, Serve, StartFails, OnSignal, Kill, Accept, Interrupted,
               ConnEnds, CloseListeners, ListenersClosed, CloseConns, Receive,
               RedisBreaks, NullReply, Hang, files
    <2>2. pc[q] \in Held /\ pc[p] \in Held
        BY <2>1 DEF IInv, EntryInv, Alive, Serving, Held, Tick, Dispose
    <2>3. p = q
        BY <2>2 DEF IInv, LockInv
    <2> QED BY <2>1, <2>3 DEF Tick, Dispose, Die, IInv, TypeOK
<1> QED BY <1>1, Invariant, PTL DEF Spec, RemovesNoLiveEntry
=============================================================================
