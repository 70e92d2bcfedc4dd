----------------------------- MODULE LPushServer -----------------------------
(***************************************************************************)
(* Server processes with one configuration: the same PID file, the same    *)
(* port and the same server entry in Redis (LPushServer, LPushListener,    *)
(* run() of main.cpp).  A process starts in the order of run(), serves,    *)
(* and ends by a signal, an error or a crash.                              *)
(*                                                                         *)
(* pc names the call the main coroutine is in.  The signal coroutine and   *)
(* the listener coroutine run only while the main coroutine waits.         *)
(***************************************************************************)
EXTENDS Integers, Sequences

CONSTANTS
    Procs,         \* process ids; a process lives once
    Signals,       \* Signals[p]: those p may be sent, each one once
    MaxConns,      \* conf->maxconnect
    Asserting,     \* the processes built with assert(), as the CMake build is
    None

ASSUME ProcsAssumption == None \notin Procs /\ "empty" \notin Procs
ASSUME LimitAssumption == MaxConns \in Nat
ASSUME AssertingAssumption == Asserting \subseteq Procs
SignalName == {"HUP", "PIPE", "TERM", "INT", "USR2"}

ASSUME SignalsAssumption == Signals \in [Procs -> SUBSET SignalName]

VARIABLES
    pidFile,       \* whose pid the file holds, or "empty"
    holder,        \* who has the write lock on it
    port,          \* who listens on the port
    entry,         \* who wrote the entry in conf->serverList
    pc, exit,      \* how the process ended, "no" before
    sent, pipe,    \* signals received; those the signal coroutine has not read
    quit,          \* signal_gracefully_quit
    listener,      \* the listener coroutine
    conns,         \* conns.size()
    since,         \* nowtime - beforeTime of hreatRedis()
    redis,         \* does the connection to Redis still carry commands?
    held           \* a call that does not yield never returns

files == <<pidFile, holder, port, entry>>
world == <<redis, held>>
inner == <<sent, pipe, quit, listener, conns, since, world>>
vars  == <<files, pc, exit, inner>>

Starting == {"boot", "open", "locked", "truncated", "acquired", "signals"}
Waiting  == {"registered", "mongo", "listening", "serving", "closing", "clearing"}
Alive(p) == pc[p] \notin {"none", "ended"}

(* The process is at one of these places and none of its coroutines keeps  *)
(* the others from running.                                                *)
At(p, places) == pc[p] \in places /\ ~held[p]

Init ==
    /\ pidFile = "empty" /\ holder = None /\ port = None /\ entry = None
    /\ pc = [p \in Procs |-> "none"]       /\ exit = [p \in Procs |-> "no"]
    /\ sent = [p \in Procs |-> {}]         /\ pipe = [p \in Procs |-> << >>]
    /\ quit = [p \in Procs |-> FALSE]      /\ listener = [p \in Procs |-> "none"]
    /\ conns = [p \in Procs |-> 0]         /\ since = [p \in Procs |-> 0]
    /\ redis = [p \in Procs |-> TRUE]      /\ held = [p \in Procs |-> FALSE]

(* The kernel drops the lock and the port of a process that is gone, and   *)
(* nothing is left of its memory.                                          *)
Die(p, how) ==
    /\ pc' = [pc EXCEPT ![p] = "ended"]      /\ exit' = [exit EXCEPT ![p] = how]
    /\ holder' = IF holder = p THEN None ELSE holder
    /\ port' = IF port = p THEN None ELSE port
    /\ pipe' = [pipe EXCEPT ![p] = << >>]    /\ quit' = [quit EXCEPT ![p] = FALSE]
    /\ listener' = [listener EXCEPT ![p] = "none"]
    /\ conns' = [conns EXCEPT ![p] = 0]      /\ since' = [since EXCEPT ![p] = 0]
    /\ held' = [held EXCEPT ![p] = FALSE]
    /\ UNCHANGED <<pidFile, sent, redis>>

To(p, place) == pc' = [pc EXCEPT ![p] = place] /\ UNCHANGED exit
-----------------------------------------------------------------------------
(* main(), initializer(), initializer_st().                                *)
Boot(p) == At(p, {"none"}) /\ To(p, "boot") /\ UNCHANGED <<files, inner>>

(* acquire_pid_file(): open, lock, truncate, write the pid.  Another        *)
(* process may run between any two of them.                                *)
OpenPidTruncates(p) ==             \* variant: O_TRUNC in open()
    /\ At(p, {"boot"}) /\ To(p, "open") /\ pidFile' = "empty"
    /\ UNCHANGED <<holder, port, entry, inner>>

OpenPid(p) == At(p, {"boot"}) /\ To(p, "open") /\ UNCHANGED <<files, inner>>

LockShared(p) ==                   \* variant: a read lock
    /\ At(p, {"open"}) /\ To(p, "locked") /\ holder' = p
    /\ UNCHANGED <<pidFile, port, entry, inner>>

Lock(p) ==
    /\ At(p, {"open"})
    /\ \/ holder = None /\ holder' = p /\ To(p, "locked")
          /\ UNCHANGED <<pidFile, port, entry, inner>>
       \/ holder # None /\ Die(p, "running") /\ UNCHANGED entry

Truncate(p) ==
    /\ At(p, {"locked"}) /\ To(p, "truncated") /\ pidFile' = "empty"
    /\ UNCHANGED <<holder, port, entry, inner>>

WritePid(p) ==
    /\ At(p, {"truncated"}) /\ To(p, "acquired") /\ pidFile' = p
    /\ UNCHANGED <<holder, port, entry, inner>>

(* signal_init(), then signal_register(), which waits for the coroutine;   *)
(* mongo_thread_init() waits likewise.                                     *)
SignalInit(p) == At(p, {"acquired"}) /\ To(p, "signals") /\ UNCHANGED <<files, inner>>
SignalRegister(p) == At(p, {"signals"}) /\ To(p, "registered") /\ UNCHANGED <<files, inner>>
MongoThreadInit(p) == At(p, {"registered"}) /\ To(p, "mongo") /\ UNCHANGED <<files, inner>>

(* listen_lpush(): socket, bind, listen and the listener's coroutine.      *)
Listen(p) ==
    /\ At(p, {"mongo"}) /\ port = None
    /\ port' = p /\ To(p, "listening") /\ listener' = [listener EXCEPT ![p] = "parked"]
    /\ UNCHANGED <<pidFile, holder, entry, sent, pipe, quit, conns, since, world>>

Serve(p) == At(p, {"listening"}) /\ To(p, "serving") /\ UNCHANGED <<files, inner>>

(* Any call of run() may return an error: run() returns and main ends.     *)
StartFails(p) ==
    /\ At(p, Starting \cup {"registered", "mongo"})
    /\ Die(p, "error") /\ UNCHANGED entry
-----------------------------------------------------------------------------
(* A signal: its default action until start() of the signal manager, the   *)
(* pipe afterwards.                                                        *)
Receive(p, s) ==
    /\ Alive(p) /\ s \notin sent[p]
    /\ IF pc[p] \in Starting
       THEN Die(p, "killed") /\ UNCHANGED entry
       ELSE /\ sent' = [sent EXCEPT ![p] = @ \cup {s}]
            /\ pipe' = [pipe EXCEPT ![p] = Append(@, s)]
            /\ UNCHANGED <<files, pc, exit, quit, listener, conns, since, world>>

(* LPushSignalManager::cycle() and on_signal().                            *)
OnSignalForgets(p) ==              \* variant: SIGTERM does not set the flag
    /\ At(p, Waiting) /\ pipe[p] # << >>
    /\ IF Head(pipe[p]) \in {"INT", "USR2"}
       THEN Die(p, "exit") /\ UNCHANGED entry
       ELSE /\ pipe' = [pipe EXCEPT ![p] = Tail(@)]
            /\ UNCHANGED <<files, pc, exit, sent, quit, listener, conns, since, world>>

OnSignal(p) ==
    /\ At(p, Waiting) /\ pipe[p] # << >>
    /\ IF Head(pipe[p]) \in {"INT", "USR2"}
       THEN Die(p, "exit") /\ UNCHANGED entry
       ELSE /\ pipe' = [pipe EXCEPT ![p] = Tail(@)]
            /\ quit' = [quit EXCEPT ![p] = @ \/ Head(pipe[p]) = "TERM"]
            /\ UNCHANGED <<files, pc, exit, sent, listener, conns, since, world>>

Kill(p) == Alive(p) /\ Die(p, "killed") /\ UNCHANGED entry
-----------------------------------------------------------------------------
(* LPushTcpListener::cycle() and accept_client(): conn->start() only        *)
(* creates the coroutine, so the listener waits nowhere but in st_accept().*)
(* At the limit the client is dropped.                                     *)
AcceptAlways(p) ==                 \* variant: no limit
    /\ At(p, Waiting \ {"closing"}) /\ listener[p] = "parked"
    /\ conns' = [conns EXCEPT ![p] = @ + 1]
    /\ UNCHANGED <<files, pc, exit, sent, pipe, quit, listener, since, world>>

Accept(p) ==
    /\ At(p, Waiting \ {"closing"}) /\ listener[p] = "parked" /\ conns[p] < MaxConns
    /\ conns' = [conns EXCEPT ![p] = @ + 1]
    /\ UNCHANGED <<files, pc, exit, sent, pipe, quit, listener, since, world>>

(* stop() interrupts st_accept(), and thread_cycle() ends.                 *)
Interrupted(p) ==
    /\ At(p, {"closing"}) /\ listener[p] = "parked"
    /\ listener' = [listener EXCEPT ![p] = "ended"]
    /\ UNCHANGED <<files, pc, exit, sent, pipe, quit, conns, since, world>>

(* A connection's coroutine ends and remove() takes it off the list.       *)
ConnEnds(p) ==
    /\ At(p, Waiting) /\ conns[p] > 0
    /\ conns' = [conns EXCEPT ![p] = @ - 1]
    /\ UNCHANGED <<files, pc, exit, sent, pipe, quit, listener, since, world>>
-----------------------------------------------------------------------------
(* The connection to Redis may break and is never made again.  Nothing     *)
(* uses it between initializer_st() and run().                             *)
RedisBreaks(p) ==
    /\ pc[p] \in Waiting \cup {"cleared"} /\ redis[p]
    /\ redis' = [redis EXCEPT ![p] = FALSE]
    /\ UNCHANGED <<files, pc, exit, sent, pipe, quit, listener, conns, since, held>>

(* Afterwards a session's coroutine ends the process at the first reply    *)
(* that it dereferences.                                                   *)
NullReply(p) == At(p, Waiting) /\ conns[p] > 0 /\ ~redis[p] /\ Die(p, "crash") /\ UNCHANGED entry

(* A Redis that hangs, there is no timeout, or the paging loop of a long   *)
(* history: from some moment on nothing else runs in this process.  (A     *)
(* call that does return is no more than a late step.)                     *)
Hang(p) ==
    /\ At(p, {"boot", "listening", "serving", "closing", "clearing", "cleared"})
    /\ held' = [held EXCEPT ![p] = TRUE]
    /\ UNCHANGED <<files, pc, exit, sent, pipe, quit, listener, conns, since, redis>>
-----------------------------------------------------------------------------
(* do_cycle(), one turn per second: hreatRedis() refreshes the entry when  *)
(* more than two seconds passed since it last did, and does not look at    *)
(* the reply; cycle_all() dereferences the one to its LRANGE.              *)
TickForgets(p) ==                  \* variant: beforeTime is set on every turn
    /\ At(p, {"serving"}) /\ ~quit[p] /\ redis[p]
    /\ IF since[p] + 1 > 2 THEN entry' = p ELSE UNCHANGED entry
    /\ since' = [since EXCEPT ![p] = 0]
    /\ UNCHANGED <<pidFile, holder, port, pc, exit, sent, pipe, quit, listener, conns, world>>

Tick(p) ==
    /\ At(p, {"serving"}) /\ ~quit[p]
    /\ \/ /\ redis[p]
          /\ IF since[p] + 1 > 2
             THEN entry' = p /\ since' = [since EXCEPT ![p] = 0]
             ELSE UNCHANGED entry /\ since' = [since EXCEPT ![p] = @ + 1]
          /\ UNCHANGED <<pidFile, holder, port, pc, exit, sent, pipe, quit, listener, conns, world>>
       \/ ~redis[p] /\ Die(p, "crash") /\ UNCHANGED entry

(* close_listeners(): st_netfd_close() of a descriptor that a coroutine    *)
(* waits for fails with EBUSY, and the listener always waits in            *)
(* st_accept(): the assertion in lp_close_stfd() ends the process.  Built  *)
(* without it, stop() interrupts the coroutine, waits for its end, and     *)
(* close(_fd) releases the port.                                           *)
CloseListeners(p) ==
    /\ At(p, {"serving"}) /\ quit[p]
    /\ IF p \in Asserting
       THEN Die(p, "abort") /\ UNCHANGED entry
       ELSE To(p, "closing") /\ UNCHANGED <<files, inner>>

CloseListenersUnlocks(p) ==        \* variant: the PID file is closed first
    /\ At(p, {"closing"}) /\ listener[p] = "ended"
    /\ To(p, "clearing") /\ holder' = None /\ port' = None
    /\ UNCHANGED <<pidFile, entry, inner>>

ListenersClosed(p) ==
    /\ At(p, {"closing"}) /\ listener[p] = "ended"
    /\ To(p, "clearing") /\ port' = None
    /\ UNCHANGED <<pidFile, holder, entry, inner>>

(* close_conns() joins the threads of each connection, which may last as   *)
(* long as its client sends, and deletes connections whose coroutines wait *)
(* on their sockets and will use the deleted object: the process may end   *)
(* there.                                                                  *)
CloseConns(p) ==
    /\ At(p, {"clearing"})
    /\ \/ /\ To(p, "cleared") /\ conns' = [conns EXCEPT ![p] = 0]
          /\ UNCHANGED <<files, sent, pipe, quit, listener, since, world>>
       \/ conns[p] > 0 /\ Die(p, "crash") /\ UNCHANGED entry

DisposeFirst(p) ==                 \* variant: exit(0) before hdel()
    At(p, {"cleared"}) /\ Die(p, "graceful") /\ UNCHANGED entry

(* hdel() of the server entry, whose reply nobody looks at, and exit(0).   *)
Dispose(p) ==
    /\ At(p, {"cleared"}) /\ Die(p, "graceful")
    /\ entry' = IF redis[p] THEN None ELSE entry

Next ==
    \E p \in Procs :
        \/ Boot(p) \/ OpenPid(p) \/ Lock(p) \/ Truncate(p) \/ WritePid(p)
        \/ SignalInit(p) \/ SignalRegister(p) \/ MongoThreadInit(p)
        \/ Listen(p) \/ Serve(p) \/ StartFails(p)
        \/ OnSignal(p) \/ Kill(p) \/ Accept(p) \/ Interrupted(p) \/ ConnEnds(p)
        \/ RedisBreaks(p) \/ NullReply(p) \/ Hang(p)
        \/ Tick(p) \/ CloseListeners(p) \/ ListenersClosed(p)
        \/ CloseConns(p) \/ Dispose(p)
        \/ \E s \in Signals[p] : Receive(p, s)

Spec == Init /\ [][Next]_vars

(* A coroutine that can run runs again unless the process is held: all the *)
(* others sleep, or wait for a descriptor, between two steps.  The joins   *)
(* of close_conns() are only sure to end when there is nothing to join.    *)
Fairness ==
    \A p \in Procs :
        /\ WF_vars(SignalRegister(p)) /\ WF_vars(MongoThreadInit(p)) /\ WF_vars(Listen(p))
        /\ WF_vars(Serve(p)) /\ WF_vars(OnSignal(p)) /\ WF_vars(Interrupted(p))
        /\ WF_vars(Tick(p)) /\ WF_vars(CloseListeners(p)) /\ WF_vars(ListenersClosed(p))
        /\ WF_vars(conns[p] = 0 /\ CloseConns(p)) /\ WF_vars(Dispose(p))

FairSpec == Spec /\ Fairness
-----------------------------------------------------------------------------
TypeOK ==
    /\ pidFile \in Procs \cup {"empty"}
    /\ holder \in Procs \cup {None}
    /\ port \in Procs \cup {None}
    /\ entry \in Procs \cup {None}
    /\ pc \in [Procs -> Starting \cup Waiting \cup {"none", "cleared", "ended"}]
    /\ exit \in [Procs -> {"no", "running", "error", "killed", "exit", "abort", "crash", "graceful"}]
    /\ sent \in [Procs -> SUBSET SignalName]
    /\ pipe \in [Procs -> Seq(SignalName)]
    /\ quit \in [Procs -> BOOLEAN]
    /\ listener \in [Procs -> {"none", "parked", "ended"}]
    /\ conns \in [Procs -> 0 .. MaxConns]
    /\ since \in [Procs -> 0 .. 2]
    /\ redis \in [Procs -> BOOLEAN] /\ held \in [Procs -> BOOLEAN]

(* While a process that has written its pid lives, the PID file names it:  *)
(* a second start, at whatever point it fails, does not change the file    *)
(* (lpushServer.cpp:473-516, the lock is taken before the truncation).     *)
PidFileNamesHolder ==
    \A p \in Procs :
        Alive(p) /\ pc[p] \notin {"boot", "open", "locked", "truncated"} => pidFile = p

(* At most one process is past acquire_pid_file(): only one listens,       *)
(* trims the task list and writes the server entry.                        *)
OneServes ==
    \A p, q \in Procs :
        /\ Alive(p) /\ pc[p] \notin {"boot", "open"}
        /\ Alive(q) /\ pc[q] \notin {"boot", "open"}
        => p = q

(* dispose() never takes the entry of a process that serves: a successor   *)
(* cannot have written it before the ending process is gone.               *)
RemovesNoLiveEntry ==
    [][\A q \in Procs : entry = q /\ entry' # q /\ Alive(q) => pc'[q] = "ended"]_vars

(* A server entry without a server tells of a crash, an abort, exit(0) in  *)
(* the signal handler, or of a Redis connection that broke before a        *)
(* graceful end could remove it (hdel() does not look at its reply).  No   *)
(* refused start, failed start or graceful end with a working connection   *)
(* leaves one, with a successor or without.                                *)
StaleEntryExplained ==
    \A p \in Procs : entry = p /\ ~Alive(p) =>
        exit[p] \in {"killed", "exit", "abort", "crash"} \/ (exit[p] = "graceful" /\ ~redis[p])

(* Standing still for ever: in a call that does not yield, or in the joins *)
(* of close_conns().                                                       *)
Stuck(p) == held[p] \/ (pc[p] = "clearing" /\ conns[p] > 0)

(* SIGTERM ends the process, whatever was in the pipe before it, at every  *)
(* point of its start, unless the process gets stuck for ever.             *)
TermEnds ==
    \A p \in Procs : ("TERM" \in sent[p] ~> pc[p] = "ended") \/ <>[]Stuck(p)

(* A process that goes on serving replaces an entry somebody else left.    *)
EntryRefreshed ==
    \A p \in Procs :
        pc[p] = "serving" ~> entry = p \/ quit[p] \/ pc[p] = "ended" \/ held[p]

(* "close the stfd to trigger thread to interrupted."                      *)
(* (lpushAppListener.cpp:172): with SIGTERM the process ends by dispose(). *)
TermCloses ==
    \A p \in Procs : exit[p] # "abort"
=============================================================================
