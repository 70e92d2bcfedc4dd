------------------------------ MODULE LPushMongoIO ---------------------------
(***************************************************************************)
(* The history thread (LPushMongoIOThread, src/src/app): a connection that *)
(* was created queues a request (MongoIOEntity), the thread takes the      *)
(* requests one by one and pushes the user's tasks found in MongoDB to the *)
(* client registered under the identity.                                   *)
(*                                                                         *)
(* do_cycle() never yields, so it is one action - unless its paging loop   *)
(* does not end: then the whole process stands still.                      *)
(*                                                                         *)
(* A request is known by its ADDRESS.  pop() frees it, but the connection  *)
(* keeps its pointer mie, and its destructor removes whatever request then *)
(* lies at that address.                                                   *)
(***************************************************************************)
EXTENDS SequencesExt, MongoClient

CONSTANTS
    Conns,         \* connections, each for one session
    User,          \* User[c]: the identity it logs in with
    Addr,          \* the addresses that the allocator may choose for a request
    Collection,    \* the tasks in MongoDB, documents with a field UserId
    PageSize,      \* 50000
    MaxHistory,    \* bound on the tasks pushed to one client
    QueriesFail,   \* may a query fail?
    None

ASSUME NoneAssumption == None \notin Addr \cup Conns
ASSUME CollectionAssumption == Collection \in Seq(ToSet(Collection))
ASSUME BoundAssumption == PageSize \in Nat \ {0} /\ MaxHistory \in Nat

VARIABLES
    conn,          \* conn[c]: stage of the connection
    mie,           \* mie[c]: its pointer, or None
    heap,          \* heap[a]: the connection that allocated the request at a, or None
    queue,         \* addresses of the waiting requests
    paging,        \* the client in the paging loop, or None
    history,       \* history[c]: the tasks pushed to the client of c
    taken          \* the connections whose request was popped

vars == <<conn, mie, heap, queue, paging, history, taken>>

Stage == {"new", "registered", "served", "leaving", "closed"}

Registered(u) == {c \in Conns : User[c] = u /\ conn[c] \in {"registered", "served", "leaving"}}
Query(u) == [UserId |-> u]
Page(ok, u) == QueryToListJsonLimit(ok, Collection, Query(u), 1, PageSize)
QueryOK == IF QueriesFail THEN BOOLEAN ELSE {TRUE}

Init ==
    /\ conn = [c \in Conns |-> "new"] /\ mie = [c \in Conns |-> None]
    /\ heap = [a \in Addr |-> None] /\ queue = << >> /\ paging = None
    /\ history = [c \in Conns |-> << >>] /\ taken = {}

(* createConnection(): refused when the identity is registered.            *)
Register(c) ==
    /\ paging = None /\ conn[c] = "new" /\ Registered(User[c]) = {}
    /\ conn' = [conn EXCEPT ![c] = "registered"]
    /\ UNCHANGED <<mie, heap, queue, paging, history, taken>>

(* ... once the acknowledgement was sent, which may take its time.         *)
RequestOldPointer(c) ==        \* variant: push(mie) before mie is assigned
    /\ paging = None /\ conn[c] = "registered"
    /\ \E a \in Addr :
           /\ heap[a] = None
           /\ heap' = [heap EXCEPT ![a] = c] /\ mie' = [mie EXCEPT ![c] = a]
           /\ queue' = Append(queue, mie[c])
    /\ conn' = [conn EXCEPT ![c] = "served"]
    /\ UNCHANGED <<paging, history, taken>>

Request(c) ==
    /\ paging = None /\ conn[c] = "registered"
    /\ \E a \in Addr :
           /\ heap[a] = None
           /\ heap' = [heap EXCEPT ![a] = c] /\ mie' = [mie EXCEPT ![c] = a]
           /\ queue' = Append(queue, a)
    /\ conn' = [conn EXCEPT ![c] = "served"]
    /\ UNCHANGED <<paging, history, taken>>

AckFails(c) ==
    /\ paging = None /\ conn[c] = "registered"
    /\ conn' = [conn EXCEPT ![c] = "leaving"]
    /\ UNCHANGED <<mie, heap, queue, paging, history, taken>>

(* ~LPushConn() begins: findPop(mie) searches the queue for the address.   *)
LeaveOnly(c) ==                \* variant: no findPop()
    /\ paging = None /\ conn[c] = "served"
    /\ conn' = [conn EXCEPT ![c] = "leaving"]
    /\ UNCHANGED <<mie, heap, queue, paging, history, taken>>

LeavePopsHead(c) ==            \* variant: removes the first request, whichever it is
    /\ paging = None /\ conn[c] = "served"
    /\ IF queue # << >>
       THEN /\ queue' = Tail(queue) /\ heap' = [heap EXCEPT ![Head(queue)] = None]
       ELSE UNCHANGED <<queue, heap>>
    /\ conn' = [conn EXCEPT ![c] = "leaving"]
    /\ UNCHANGED <<mie, paging, history, taken>>

Leave(c) ==
    /\ paging = None /\ conn[c] = "served"
    /\ IF mie[c] \in {queue[i] : i \in DOMAIN queue}
       THEN /\ \E i \in DOMAIN queue : queue[i] = mie[c] /\ queue' = RemoveAt(queue, i)
            /\ heap' = [heap EXCEPT ![mie[c]] = None]
       ELSE UNCHANGED <<queue, heap>>
    /\ conn' = [conn EXCEPT ![c] = "leaving"]
    /\ UNCHANGED <<mie, paging, history, taken>>

(* ... it waits for the connection's threads, then LPushSource::destroy(). *)
Close(c) ==
    /\ paging = None /\ conn[c] = "leaving"
    /\ conn' = [conn EXCEPT ![c] = "closed"]
    /\ UNCHANGED <<mie, heap, queue, paging, history, taken>>

(* do_cycle(): pop() and selectMongoHistoryWork().  One query tells whether *)
(* there is history, one whether it exceeds a page, one fetches the page;   *)
(* ok, up, got: did they succeed?  Without a client nothing is pushed.      *)
DoCycleRetries ==              \* variant: a request without a result waits on
    /\ paging = None /\ queue # << >>
    /\ LET a == Head(queue)
           u == User[heap[a]]
       IN  \E ok, up, got \in QueryOK :
               \/ /\ ~SelectOneIsExist(ok, Collection, Query(u)) \/ Registered(u) = {}
                  /\ queue' = Append(Tail(queue), a)
                  /\ UNCHANGED <<heap, taken, paging, history>>
               \/ /\ SelectOneIsExist(ok, Collection, Query(u))
                  /\ queue' = Tail(queue) /\ heap' = [heap EXCEPT ![a] = None]
                  /\ taken' = taken \cup {heap[a]}
                  /\ \E c \in Registered(u) :
                         /\ history' = [history EXCEPT ![c] = @ \o Page(got, u)]
                         /\ paging' = IF SkipParamsIsExist(up, Collection, Query(u), PageSize)
                                      THEN c ELSE None
    /\ UNCHANGED <<conn, mie>>

DoCycle ==
    /\ paging = None /\ queue # << >>
    /\ LET a == Head(queue)
           u == User[heap[a]]
       IN  /\ queue' = Tail(queue) /\ heap' = [heap EXCEPT ![a] = None]
           /\ taken' = taken \cup {heap[a]}
           /\ \E ok, up, got \in QueryOK :
                  \/ /\ ~SelectOneIsExist(ok, Collection, Query(u)) \/ Registered(u) = {}
                     /\ UNCHANGED <<paging, history>>
                  \/ /\ SelectOneIsExist(ok, Collection, Query(u))
                     /\ \E c \in Registered(u) :
                            /\ history' = [history EXCEPT ![c] = @ \o Page(got, u)]
                            /\ paging' = IF SkipParamsIsExist(up, Collection, Query(u), PageSize)
                                         THEN c ELSE None
    /\ UNCHANGED <<conn, mie>>

(* while(isup): index is counted but page 1 is fetched again, and nothing   *)
(* deletes the rows.  Only a failing query ends the loop.                   *)
PageAgain ==
    /\ paging # None /\ Len(history[paging]) < MaxHistory
    /\ \E up, got \in QueryOK :
           /\ history' = [history EXCEPT ![paging] = @ \o Page(got, User[paging])]
           /\ paging' = IF SkipParamsIsExist(up, Collection, Query(User[paging]), PageSize)
                        THEN paging ELSE None
    /\ UNCHANGED <<conn, mie, heap, queue, taken>>

Session(c) == Register(c) \/ Request(c) \/ AckFails(c) \/ Leave(c) \/ Close(c)

Next == DoCycle \/ PageAgain \/ \E c \in Conns : Session(c)

Spec == Init /\ [][Next]_vars

(* The thread looks at its queue every second, every 20 ms when it has     *)
(* work.  Nothing is assumed about the connections.                        *)
FairSpec == Spec /\ WF_vars(DoCycle)
-----------------------------------------------------------------------------
TypeOK ==
    /\ conn \in [Conns -> Stage]
    /\ mie \in [Conns -> Addr \cup {None}]
    /\ heap \in [Addr -> Conns \cup {None}]
    /\ queue \in Seq(Addr)
    /\ paging \in Conns \cup {None}
    /\ taken \in SUBSET Conns

(* The request of c is in the queue.                                       *)
Waiting(c) == \E i \in DOMAIN queue : heap[queue[i]] = c

(* A request in the queue is that of a session still served: none outlives *)
(* its connection, none is queued twice, and no address freed or given to  *)
(* another request is left in the queue.                                   *)
RequestsHaveSessions ==
    /\ TypeOK
    /\ \A i, j \in 1 .. Len(queue) : queue[i] = queue[j] => i = j
    /\ \A i \in 1 .. Len(queue) :
           \E c \in Conns : heap[queue[i]] = c /\ mie[c] = queue[i] /\ conn[c] = "served"

(* A session whose user has at most a page of tasks gets them at most      *)
(* once, all together, and never another user's.                           *)
HistoryOnce ==
    \A c \in Conns :
        LET own == Matching(Collection, Query(User[c]))
        IN  Len(own) <= PageSize => history[c] \in {<< >>, own}

(* The process stands still only over a user with more than a page.        *)
StopsOnlyOverLongHistory ==
    paging # None => Len(Matching(Collection, Query(User[paging]))) > PageSize

(* A connection that ends takes a request other than its own out of the    *)
(* queue only when its own is gone, popped or itself taken by another: mie *)
(* then points to freed memory, which the other request has got since.     *)
(* The first in such a chain had its request popped.  A request taken this *)
(* way is lost without a trace, and with it the history of its session.    *)
OnlyStalePointersSteal ==
    [][\A c, d \in Conns :
           (Leave(c) /\ c # d /\ conn[d] = "served"
                /\ Waiting(d) /\ ~Waiting(d)')
           => heap[mie[c]] # c /\ taken # {}]_vars

(* Every request that waits is popped, or taken out by a connection that   *)
(* ends: a user without history, without a client or with a failing query  *)
(* does not hold up the ones behind.  Only the paging loop does, and only  *)
(* over a user with more than a page.                                      *)
Served ==
    \A c \in Conns :
        Waiting(c) ~> ~Waiting(c) \/ (paging # None /\ StopsOnlyOverLongHistory)
=============================================================================
