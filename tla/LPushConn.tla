----------------------------- MODULE LPushConn -----------------------------
(***************************************************************************)
(* The connections of one lpush server: LPushConn and its base class       *)
(* (src/src/app/lpushAppLpushConn.cpp, src/src/core/lpushConnection.cpp),  *)
(* its receive and consume threads (lpushRecvThread.cpp,                   *)
(* lpushConsumThread.cpp), the registry of logged-in clients               *)
(* (LPushSource::clients) and the list of connections in LPushServer.      *)
(*                                                                         *)
(* All of them run as coroutines of one process, so a step is what one     *)
(* coroutine does between two points where it may yield: a sleep, a read   *)
(* or write that blocks, a join.  Redis and MongoDB calls do not yield.    *)
(*                                                                         *)
(* pc[c] is where the coroutine of connection c is inside do_cycle() and   *)
(* the destructor:                                                         *)
(*   none        no object at this address                                 *)
(*   orphan      accepted, but st_thread_create failed: no coroutine       *)
(*   handshake   reading the handshake                                     *)
(*   shake       writing the accepting handshake reply                     *)
(*   create      reading the create message                                *)
(*   ack         writing the accepting create reply                        *)
(*   refuse      writing a refusal, after which do_cycle() returns         *)
(*   startRecv   inside trd->start()                                       *)
(*   startConsum inside trd2->start()                                      *)
(*   loop        while (!dispose), sleeping 300 ms a turn                  *)
(*   joinRecv    removed from conns, destructor inside delete trd          *)
(*   joinConsum  destructor inside delete trd2                             *)
(*                                                                         *)
(* A connection is registered by userId + appId + screteKey, its presence  *)
(* is recorded by appId + userId: checkUserMessage() accepts every part of *)
(* the stored secret, so one user can be registered several times over the *)
(* same presence records.                                                  *)
(***************************************************************************)
EXTENDS ThreadOps, FiniteSets

CONSTANTS
    Conn,          \* addresses of connection objects
    Key,           \* client identities: userId + appId + screteKey
    User,          \* what presence is recorded by: appId + userId
    UserOf,        \* the user of each identity
    NoConn, NoKey,
    MaxConnect,    \* conf->maxconnect
    StackFailures  \* may st_thread_create fail for want of a stack?

ASSUME ConnAssumption == IsFiniteSet(Conn) /\ NoConn \notin Conn
ASSUME KeyAssumption  == NoKey \notin Key
ASSUME MaxAssumption  == MaxConnect \in Nat
ASSUME UserAssumption == UserOf \in [Key -> User]
ASSUME FlagAssumption == StackFailures \in BOOLEAN

VARIABLES
    pc, key,
    conns,     \* LPushServer::conns
    client,    \* the connections whose "client" pointer is set
    clients,   \* LPushSource::clients, as the connection behind each entry
    online,    \* who recorded each user in Redis's presence sets, NoConn if absent
    erased,    \* history: the clients whose user's presence another one removed
    dispose,   \* the connections whose "dispose" flag is set
    late,      \* those whose last two message times are over 60 s apart
    recv,      \* recv[c]: the LPushThread of trd
    consum,    \* consum[c]: the LPushThread of trd2
    recvAt,    \* inside trd's cycle(): "read" or "sleep"
    consumAt,  \* inside trd2's cycle(): "poll" or "write"
    can_play   \* the connections whose LPushConsumThread::can_run is set

connVars    == <<pc, key, conns, client, clients>>
threadVars  == <<recv, consum, recvAt, consumAt, can_play>>
sessionVars == <<online, erased, dispose, late>>
vars        == <<connVars, threadVars, sessionVars>>

Early    == {"handshake", "shake", "create", "ack", "refuse"}
Serving  == {"startRecv", "startConsum", "loop"}
Teardown == {"joinRecv", "joinConsum"}
Location == {"none", "orphan"} \cup Early \cup Serving \cup Teardown

Init == /\ pc       = [c \in Conn |-> "none"]
        /\ key      = [c \in Conn |-> NoKey]
        /\ conns    = {}
        /\ client   = {}
        /\ clients  = [k \in Key |-> NoConn]
        /\ online   = [u \in User |-> NoConn]
        /\ erased   = {}
        /\ dispose  = {}
        /\ late     = {}
        /\ recv     = [c \in Conn |-> Constructed(TRUE)]
        /\ consum   = [c \in Conn |-> Constructed(TRUE)]
        /\ recvAt   = [c \in Conn |-> "sleep"]
        /\ consumAt = [c \in Conn |-> "poll"]
        /\ can_play = {}
-----------------------------------------------------------------------------
Goto(c, where) == pc' = [pc EXCEPT ![c] = where]

(* What delete leaves of a thread object: its coroutine, if it still runs. *)
Deleted(t) == [Constructed(TRUE) EXCEPT
                  !.at = IF t.at \in Running THEN t.at ELSE "none"]

(* LPushSource::destroy(key) erases the entry of the key, whoever owns it. *)
Unregister(c) ==
    clients' = IF c \in client THEN [clients EXCEPT ![key[c]] = NoConn]
                               ELSE clients

(* The connections that logged in as the user of c.                        *)
SameUser(c) ==
    {d \in Conn : key[d] # NoKey /\ UserOf[key[d]] = UserOf[key[c]]}

(* zadd writes the presence of the user of c.  Redis holds no word of the   *)
(* connection: which one wrote last is history.                            *)
RecordPresence(c) == /\ online' = [online EXCEPT ![UserOf[key[c]]] = c]
                     /\ erased' = erased \ SameUser(c)

(* zrem removes it, for every session of that user.                        *)
RemovePresence(c) == /\ online' = [online EXCEPT ![UserOf[key[c]]] = NoConn]
                     /\ erased' = erased \cup ((client \cap SameUser(c)) \ {c})

(* The object of c is freed: every field at its address is gone.           *)
Free(c) == /\ Goto(c, "none")
           /\ Unregister(c)
           /\ key'      = [key EXCEPT ![c] = NoKey]
           /\ client'   = client \ {c}
           /\ dispose'  = dispose \ {c}
           /\ erased'   = erased \ {c}
           /\ late'     = late \ {c}
           /\ can_play' = can_play \ {c}

DropPresence(c) ==           \* variant: a refused connection removes presence
    /\ Free(c)
    /\ conns' = conns \ {c}
    /\ key[c] # NoKey /\ online' = [online EXCEPT ![UserOf[key[c]]] = NoConn]
    /\ UNCHANGED <<recv, consum, recvAt, consumAt>>

(* do_cycle() returned before the threads were created: remove(), the      *)
(* destructor and close run without a yield.                               *)
Drop(c) == /\ Free(c)
           /\ conns' = conns \ {c}
           /\ UNCHANGED <<online, recv, consum, recvAt, consumAt>>
-----------------------------------------------------------------------------
(* accept_client().  At the limit the new descriptor is closed and nothing *)
(* changes.  A connection that cannot get a coroutine stays in conns.      *)
AcceptOver(c) ==             \* variant: one connection too many
    /\ pc[c] = "none"
    /\ Cardinality(conns) <= MaxConnect
    /\ conns' = conns \cup {c}
    /\ Goto(c, "handshake")
    /\ UNCHANGED <<key, client, clients, threadVars, sessionVars>>

Accept(c) ==
    /\ pc[c] = "none"
    /\ Cardinality(conns) < MaxConnect
    /\ conns' = conns \cup {c}
    /\ \/ Goto(c, "handshake")
       \/ StackFailures /\ Goto(c, "orphan")
    /\ UNCHANGED <<key, client, clients, threadVars, sessionVars>>

(* handshake() and checkUserMessage(): an unreadable message, an unknown   *)
(* application or a wrong secret is answered with a refusal.               *)
HandshakeGoesOn(c) ==        \* variant: the early return is missing
    /\ pc[c] = "handshake"
    /\ Goto(c, "shake")
    /\ UNCHANGED <<key, conns, client, clients, threadVars, sessionVars>>

HandshakeFails(c) ==
    /\ pc[c] = "handshake"
    /\ Goto(c, "refuse")
    /\ UNCHANGED <<key, conns, client, clients, threadVars, sessionVars>>

Handshake(c, k) ==
    /\ pc[c] = "handshake"
    /\ key' = [key EXCEPT ![c] = k]
    /\ Goto(c, "shake")
    /\ UNCHANGED <<conns, client, clients, threadVars, sessionVars>>

(* sendHandshake(0x01) wrote its reply.                                    *)
Shaken(c) ==
    /\ pc[c] = "shake"
    /\ Goto(c, "create")
    /\ UNCHANGED <<key, conns, client, clients, threadVars, sessionVars>>

(* A write or read failed, or a refusal was written: do_cycle() returns.   *)
Abandon(c) ==
    /\ pc[c] \in {"shake", "create", "ack", "refuse"}
    /\ Drop(c)

(* createConnection(): presence is recorded before the duplicate check,    *)
(* which looks for this very identity only.                                *)
CreateUnchecked(c) ==        \* variant: no duplicate check
    /\ pc[c] = "create"
    /\ RecordPresence(c)
    /\ client' = client \cup {c}
    /\ clients' = [clients EXCEPT ![key[c]] = c]
    /\ Goto(c, "ack")
    /\ UNCHANGED <<key, conns, dispose, late, threadVars>>

Create(c) ==
    /\ pc[c] = "create"
    /\ RecordPresence(c)
    /\ IF clients[key[c]] # NoConn
       THEN Goto(c, "refuse") /\ UNCHANGED <<client, clients>>
       ELSE /\ client' = client \cup {c}
            /\ clients' = [clients EXCEPT ![key[c]] = c]
            /\ Goto(c, "ack")
    /\ UNCHANGED <<key, conns, dispose, late, threadVars>>

(* The thread a start() leaves behind, created or not.                     *)
MayStart(t) == {StartCall(t)} \cup (IF StackFailures THEN {t} ELSE {})
Launched(t) == ~t.tid \/ StartReady(t)
Launch(t)   == IF t.tid THEN StartReturn(t) ELSE t

(* Create was acknowledged: both threads are constructed, trd->start().    *)
Acked(c) ==
    /\ pc[c] = "ack"
    /\ \E t \in MayStart(Constructed(TRUE)) : recv' = [recv EXCEPT ![c] = t]
    /\ consum' = [consum EXCEPT ![c] = Constructed(TRUE)]
    /\ Goto(c, "startRecv")
    /\ UNCHANGED <<key, conns, client, clients, recvAt, consumAt, can_play,
                   sessionVars>>

(* trd->start() returned; trd2->start() sets can_run and starts its thread. *)
RecvStarted(c) ==
    /\ pc[c] = "startRecv"
    /\ Launched(recv[c])
    /\ recv' = [recv EXCEPT ![c] = Launch(@)]
    /\ can_play' = can_play \cup {c}
    /\ \E t \in MayStart(consum[c]) : consum' = [consum EXCEPT ![c] = t]
    /\ Goto(c, "startConsum")
    /\ UNCHANGED <<key, conns, client, clients, recvAt, consumAt, sessionVars>>

(* trd2->start() returned; the message times are reset before the loop.    *)
ConsumStarted(c) ==
    /\ pc[c] = "startConsum"
    /\ Launched(consum[c])
    /\ consum' = [consum EXCEPT ![c] = Launch(@)]
    /\ late' = late \ {c}
    /\ Goto(c, "loop")
    /\ UNCHANGED <<key, conns, client, clients, recv, recvAt, consumAt,
                   can_play, online, erased, dispose>>

(* The loop ends; remove() erases c from conns and deletes it: the         *)
(* destructor stops the receive thread first.                              *)
LeaveWithoutStop(c) ==       \* variant: the receive thread is not stopped
    /\ pc[c] = "loop"
    /\ c \in dispose \cup late
    /\ conns' = conns \ {c}
    /\ Goto(c, "joinConsum")
    /\ can_play' = can_play \ {c}
    /\ consum' = [consum EXCEPT ![c] = StopCall(@)]
    /\ UNCHANGED <<key, client, clients, recv, recvAt, consumAt, sessionVars>>

LeaveListed(c) ==            \* variant: the connection stays in conns
    /\ pc[c] = "loop"
    /\ c \in dispose \cup late
    /\ recv' = [recv EXCEPT ![c] = StopCall(@)]
    /\ Goto(c, "joinRecv")
    /\ UNCHANGED <<key, conns, client, clients, consum, recvAt, consumAt,
                   can_play, sessionVars>>

Leave(c) ==
    /\ pc[c] = "loop"
    /\ c \in dispose \cup late
    /\ conns' = conns \ {c}
    /\ recv' = [recv EXCEPT ![c] = StopCall(@)]
    /\ Goto(c, "joinRecv")
    /\ UNCHANGED <<key, client, clients, consum, recvAt, consumAt, can_play,
                   sessionVars>>

(* The receive thread is stopped and deleted; then ~LPushConsumThread      *)
(* clears can_run and stops the consume thread.                            *)
RecvJoined(c) ==
    /\ pc[c] = "joinRecv"
    /\ StopReady(recv[c])
    /\ recv' = [recv EXCEPT ![c] = StopReturn(@)]
    /\ can_play' = can_play \ {c}
    /\ consum' = [consum EXCEPT ![c] = StopCall(@)]
    /\ Goto(c, "joinConsum")
    /\ UNCHANGED <<key, conns, client, clients, recvAt, consumAt, sessionVars>>

(* The consume thread is stopped; the rest of the destructor unregisters   *)
(* the client and frees the object.                                        *)
ConsumJoined(c) ==
    /\ pc[c] = "joinConsum"
    /\ StopReady(consum[c])
    /\ Free(c)
    /\ recv' = [recv EXCEPT ![c] = Deleted(@)]
    /\ consum' = [consum EXCEPT ![c] = Deleted(@)]
    /\ UNCHANGED <<conns, online, recvAt, consumAt>>
-----------------------------------------------------------------------------
(* The receive thread.                                                     *)
RecvSchedule(c) ==
    /\ recv[c].at = "new"
    /\ recv' = [recv EXCEPT ![c] = Enter(@)]
    /\ UNCHANGED <<connVars, sessionVars, consum, recvAt, consumAt, can_play>>

RecvPassGate(c) ==
    /\ recv[c].at = "gate"
    /\ recv' = [recv EXCEPT ![c] = Gate(@)]
    /\ recvAt' = [recvAt EXCEPT ![c] = "read"]
    /\ UNCHANGED <<connVars, sessionVars, consum, consumAt, can_play>>

(* is_active()                                                             *)
Active(c) == pc[c] \in Serving \cup {"joinRecv"}

(* do_dispose(): the flag, and the presence records are removed.           *)
DoDispose(c) == dispose' = dispose \cup {c} /\ RemovePresence(c)

(* forwardServer() takes the times of the last two messages from their     *)
(* headers, that is, from the client's clock.                              *)
NewTimes(c) == late' \in {late \cup {c}, late \ {c}}

(* A message arrived while the thread waited in readMessage(); the thread  *)
(* sleeps 350 ms before it reads the next one.                             *)
RecvTakes(c) == /\ recv[c].at = "cycle"
                /\ recvAt[c] = "read"
                /\ ~recv[c].intr
                /\ Active(c)
                /\ recvAt' = [recvAt EXCEPT ![c] = "sleep"]
                /\ NewTimes(c)
                /\ UNCHANGED <<connVars, recv, consum, consumAt, can_play>>

(* hreatbeat() writes the presence record again, disposed or not.          *)
RecvHeartbeat(c) == /\ RecvTakes(c)
                    /\ RecordPresence(c)
                    /\ UNCHANGED dispose

RecvClose(c) == /\ RecvTakes(c)
                /\ DoDispose(c)

(* Every other type, a well-formed PUSH callback included.                 *)
RecvOther(c) == /\ RecvTakes(c)
                /\ UNCHANGED <<online, erased, dispose>>

(* readMessage() failed (closed, 60 s silent, EINTR, a bad packet), the    *)
(* connection is not active, or a PUSH callback was malformed, which still *)
(* moves the message times.                                                *)
RecvFailsQuietly(c) ==       \* variant: do_dispose() is not called
    /\ recv[c].at = "cycle"
    /\ recvAt[c] = "read"
    /\ recv' = [recv EXCEPT ![c] = CycleReturn(StopLoop(@))]
    /\ recvAt' = [recvAt EXCEPT ![c] = "sleep"]
    /\ UNCHANGED <<connVars, sessionVars, consum, consumAt, can_play>>

RecvFails(c) ==
    /\ recv[c].at = "cycle"
    /\ recvAt[c] = "read"
    /\ recv' = [recv EXCEPT ![c] = CycleReturn(StopLoop(@))]
    /\ recvAt' = [recvAt EXCEPT ![c] = "sleep"]
    /\ DoDispose(c)
    /\ UNCHANGED late \/ NewTimes(c)
    /\ UNCHANGED <<connVars, consum, consumAt, can_play>>

(* while (!trd->interrupted()): the sleep consumed the interrupt, if any.  *)
RecvWakes(c) ==
    /\ recv[c].at = "cycle"
    /\ recvAt[c] = "sleep"
    /\ IF Interrupted(recv[c])
       THEN recv' = [recv EXCEPT ![c] = CycleReturn(@)] /\ UNCHANGED recvAt
       ELSE /\ recv' = [recv EXCEPT ![c].intr = FALSE]
            /\ recvAt' = [recvAt EXCEPT ![c] = "read"]
    /\ UNCHANGED <<connVars, sessionVars, consum, consumAt, can_play>>
-----------------------------------------------------------------------------
(* The consume thread.  Which tasks its queue holds is left open here.     *)
ConsumSchedule(c) ==
    /\ consum[c].at = "new"
    /\ consum' = [consum EXCEPT ![c] = Enter(@)]
    /\ UNCHANGED <<connVars, sessionVars, recv, recvAt, consumAt, can_play>>

ConsumPassGate(c) ==
    /\ consum[c].at = "gate"
    /\ consum' = [consum EXCEPT ![c] = Gate(@)]
    /\ UNCHANGED <<connVars, sessionVars, recv, recvAt, consumAt, can_play>>

(* while (can_run): leave, or with an empty queue sleep 350 ms again.      *)
ConsumPolls(c) ==
    /\ consum[c].at = "cycle"
    /\ consumAt[c] = "poll"
    /\ consum' = [consum EXCEPT ![c] = IF c \in can_play
                                       THEN [@ EXCEPT !.intr = FALSE]
                                       ELSE CycleReturn(@)]
    /\ UNCHANGED <<connVars, sessionVars, recv, recvAt, consumAt, can_play>>

(* playing(): a task was popped and is being written to the socket.        *)
ConsumPops(c) ==
    /\ consum[c].at = "cycle"
    /\ consumAt[c] = "poll"
    /\ c \in can_play
    /\ consumAt' = [consumAt EXCEPT ![c] = "write"]
    /\ consum' = [consum EXCEPT ![c].intr = FALSE]
    /\ UNCHANGED <<connVars, sessionVars, recv, recvAt, can_play>>

ConsumWrote(c) ==
    /\ consum[c].at = "cycle"
    /\ consumAt[c] = "write"
    /\ ~consum[c].intr
    /\ consumAt' = [consumAt EXCEPT ![c] = "poll"]
    /\ UNCHANGED <<connVars, sessionVars, recv, consum, recvAt, can_play>>

(* The write failed: do_dispose(), and the thread ends itself.             *)
ConsumFailsRetrying(c) ==    \* variant: trd->interrupt() is not called
    /\ consum[c].at = "cycle"
    /\ consumAt[c] = "write"
    /\ consum' = [consum EXCEPT ![c] = CycleReturn(@)]
    /\ consumAt' = [consumAt EXCEPT ![c] = "poll"]
    /\ DoDispose(c)
    /\ UNCHANGED <<connVars, late, recv, recvAt, can_play>>

ConsumFails(c) ==
    /\ consum[c].at = "cycle"
    /\ consumAt[c] = "write"
    /\ consum' = [consum EXCEPT ![c] = CycleReturn(StopLoop(@))]
    /\ consumAt' = [consumAt EXCEPT ![c] = "poll"]
    /\ DoDispose(c)
    /\ UNCHANGED <<connVars, late, recv, recvAt, can_play>>
-----------------------------------------------------------------------------
ConnStep(c) ==
    \/ HandshakeFails(c) \/ (\E k \in Key : Handshake(c, k)) \/ Shaken(c)
    \/ Abandon(c) \/ Create(c) \/ Acked(c) \/ RecvStarted(c)
    \/ ConsumStarted(c) \/ Leave(c) \/ RecvJoined(c) \/ ConsumJoined(c)

RecvStep(c) ==
    \/ RecvSchedule(c) \/ RecvPassGate(c) \/ RecvHeartbeat(c) \/ RecvClose(c)
    \/ RecvOther(c) \/ RecvFails(c) \/ RecvWakes(c)

ConsumStep(c) ==
    \/ ConsumSchedule(c) \/ ConsumPassGate(c) \/ ConsumPolls(c)
    \/ ConsumPops(c) \/ ConsumWrote(c) \/ ConsumFails(c)

Next == \E c \in Conn : Accept(c) \/ ConnStep(c) \/ RecvStep(c) \/ ConsumStep(c)

Spec == Init /\ [][Next]_vars
-----------------------------------------------------------------------------
(* Every coroutine is scheduled: sleeps end, reads and writes have a 60 s  *)
(* timeout, so a blocked coroutine goes on, with success or an error.      *)
Scheduled ==
    \A c \in Conn : WF_vars(ConnStep(c)) /\ WF_vars(RecvStep(c))
                                         /\ WF_vars(ConsumStep(c))

FairSpec == Spec /\ Scheduled

(* A client does not send for ever: again and again the receive thread     *)
(* meets a silence, an end of stream or an interrupt.                      *)
QuietClients == \A c \in Conn : SF_vars(RecvFails(c))

LiveSpec == FairSpec /\ QuietClients
-----------------------------------------------------------------------------
TypeOK == /\ pc \in [Conn -> Location]
          /\ key \in [Conn -> Key \cup {NoKey}]
          /\ conns \subseteq Conn
          /\ client \subseteq Conn
          /\ clients \in [Key -> Conn \cup {NoConn}]
          /\ online \in [User -> Conn \cup {NoConn}]
          /\ erased \subseteq client
          /\ dispose \subseteq Conn
          /\ late \subseteq Conn
          /\ recv \in [Conn -> ThreadRecord]
          /\ consum \in [Conn -> ThreadRecord]
          /\ recvAt \in [Conn -> {"read", "sleep"}]
          /\ consumAt \in [Conn -> {"poll", "write"}]
          /\ can_play \subseteq Conn
          /\ \A c \in Conn : pc[c] \in {"shake", "create", "ack"} \cup Serving
                                     \cup Teardown => key[c] \in Key

(* conns lists exactly the objects that remove() has not taken out yet: no *)
(* dangling pointer in it, and no served connection missing from it.       *)
ListedExactly ==
    conns = {c \in Conn : pc[c] \notin {"none"} \cup Teardown}

(* Each registry entry points to the one connection that logged in with    *)
(* that identity, and each logged-in connection is the one registered: two *)
(* connections never share an identity, and the destructor, which erases   *)
(* by key, can only erase its own entry.                                   *)
RegistryOwned ==
    /\ \A k \in Key : clients[k] # NoConn =>
           clients[k] \in client /\ key[clients[k]] = k
    /\ \A c \in client : key[c] \in Key /\ clients[key[c]] = c

(* A thread of a connection runs only inside a complete object: the client *)
(* and, for the receive thread, both thread pointers are set, so the       *)
(* ERROR_NOT_ACTIVE branch is never the reason of an error and no callback *)
(* reaches a freed connection.                                             *)
ThreadsInsideObject ==
    \A c \in Conn :
        /\ recv[c].at \in Running => c \in client /\ Active(c)
        /\ consum[c].at \in Running => c \in client /\ pc[c] \in Serving \cup Teardown

(* Each thread enters its cycle() once per connection: the pause and the   *)
(* retry of thread_cycle() ("cycle failed, ignored and retry") are never   *)
(* taken, because whatever makes cycle() return has cleared "loop" first.  *)
NeverRetries ==
    \A c \in Conn : recv[c].at # "pause" /\ consum[c].at # "pause"

(* A registered client that nobody has disposed of is in the presence sets *)
(* (senders look there to decide whether a push can be delivered), however *)
(* duplicates, heartbeats and failing predecessors interleave, unless a    *)
(* session of the same user under another accepted secret has ended since  *)
(* either of them last recorded its presence: do_dispose() removes what is *)
(* not its own alone.                                                      *)
RegisteredIsOnline ==
    \A k \in Key :
        LET c == clients[k]
        IN  c # NoConn /\ c \notin dispose =>
                \/ online[UserOf[k]] # NoConn
                \/ c \in erased /\ \E j \in Key \ {k} : UserOf[j] = UserOf[k]

(* The server never lists more connections than it is configured for.      *)
WithinLimit == Cardinality(conns) <= MaxConnect

(* A registry entry is never overwritten, and it disappears only when its  *)
(* own connection is freed: cycle_all() cannot be handed a dangling or a   *)
(* foreign client in between.                                              *)
RegistryHandover ==
    [][\A k \in Key : clients[k] # NoConn /\ clients'[k] # clients[k] =>
           clients'[k] = NoConn /\ pc'[clients[k]] = "none"]_vars

(* A connection that was served leaves no presence of its own behind when  *)
(* it is freed: whichever thread ended it and however late a heartbeat was *)
(* handled, its last presence write is a removal, so a record that is      *)
(* still there was written by another session of the user.                 *)
CleanLogout ==
    [][\A c \in Conn :
           pc[c] = "joinConsum" /\ pc'[c] = "none" => online'[UserOf[key[c]]] # c]_vars

(* A connection that was disposed of, or one of whose threads has ended,   *)
(* is torn down and its address freed, so that its identity can log in     *)
(* again.                                                                  *)
Ended(c) == \/ c \in dispose
            \/ "zombie" \in {recv[c].at, consum[c].at}
EndedIsFreed == \A c \in Conn : Ended(c) ~> pc[c] = "none"

(* lpushThread.h: "the inner loop should quit when thread is interrupted". *)
(* What the class promises to a caller of stop().                          *)
InnerLoopQuits ==
    \A c \in Conn : (recv[c].at = "cycle" /\ ~recv[c].loop) ~> recv[c].at # "cycle"

(* lpushThread.h: "if joinable, thread never quit itself, or memory leak". *)
NeverQuitsItself ==
    \A c \in Conn : recv[c].at # "zombie" /\ consum[c].at # "zombie"
=============================================================================
