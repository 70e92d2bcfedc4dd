----------------------------- MODULE LPushPresence ---------------------------
(***************************************************************************)
(* What several lpush servers write about ONE user into the Redis and the  *)
(* MongoDB they share (LPushConn::createConnection, hreatbeat, do_dispose, *)
(* userInsertMongodb, src/src/app/lpushAppLpushConn.cpp): clientKey, which *)
(* names the user's server and has a time to live, the two sorted sets of  *)
(* users online, and the member collection.                                *)
(*                                                                         *)
(* Each database command blocks its process, so a server runs a sequence   *)
(* of commands without its other connections moving; the other servers do. *)
(* pc[c] is the next command of connection c, or where c waits.            *)
(***************************************************************************)
EXTENDS FiniteSets, MongoClient

CONSTANTS
    Servers,
    Conns,         \* connections of the user, each for one session
    ServerOf,      \* ServerOf[c]
    TTL,           \* 60 s
    Beat,          \* a punctual client's heartbeat comes within Beat
    Late,          \* connections whose client need not be punctual
    MaxFails,      \* bound on the failing queries
    None

ASSUME ServerAssumption ==
    ServerOf \in [Conns -> Servers] /\ IsFiniteSet(Servers) /\ None \notin Servers
ASSUME TimeAssumption == TTL \in Nat /\ Beat \in Nat /\ 0 < Beat /\ Beat < TTL
ASSUME FailsAssumption == MaxFails \in Nat

Forever == TTL + 1
Zsets == {"app", "platform"}
User == [userId |-> "user"]

VARIABLES
    pc,
    key,           \* [host, ttl]: clientKey; host = None: there is none
    online,        \* the sorted sets that contain the user
    members,       \* the user's documents in MEMBER_<app>
    since,         \* since[c]: time since c last called SET or EXPIRE
    foreign,       \* connections whose records another one touched since they wrote them
    gap,           \* did a server die between SET and EXPIRE?
    excused,       \* did a server die, an acknowledgement fail, a login get refused?
    fails          \* number of queries that failed

vars == <<pc, key, online, members, since, foreign, gap, excused, fails>>

NoKey   == [host |-> None, ttl |-> 0]
Login   == {"set", "expire", "query", "insert", "zadd app", "zadd platform", "check"}
Beating == {"beat app", "beat platform", "beat expire"}
Dispose == {"del", "zrem app", "zrem platform"}
LateBeat == {"late app", "late platform", "late expire"}
Waiting == {"new", "ack", "served", "dropping", "lingering", "closed"}
Stage   == Waiting \cup Login \cup Beating \cup LateBeat \cup Dispose

Registered(c) == pc[c] \in {"ack", "served", "dropping", "lingering"}
                           \cup Beating \cup LateBeat \cup Dispose
Served(c)     == pc[c] \in {"served"} \cup Beating
Idle(s)       == \A c \in Conns : ServerOf[c] = s => pc[c] \in Waiting
Touched(c)    == foreign' = (foreign \ {c}) \cup (Conns \ {c})

Goto(c, from, to) == pc[c] = from /\ pc' = [pc EXCEPT ![c] = to]

(* EXPIRE does nothing to a key that is gone.                              *)
ExpiredAny(k) == [k EXCEPT !.ttl = TTL]        \* variant: creates the key

Expired(k) == IF k.host = None THEN NoKey ELSE [k EXCEPT !.ttl = TTL]

Init ==
    /\ pc = [c \in Conns |-> "new"] /\ key = NoKey /\ online = {} /\ members = << >>
    /\ since = [c \in Conns |-> 0] /\ foreign = {} /\ gap = FALSE /\ excused = FALSE
    /\ fails = 0
-----------------------------------------------------------------------------
(* createConnection(): SET clientKey, which also clears its time to live,  *)
(* and EXPIRE, ...                                                         *)
Begin(c) ==
    /\ Idle(ServerOf[c]) /\ Goto(c, "new", "set")
    /\ UNCHANGED <<key, online, members, since, foreign, gap, excused, fails>>

Set(c) ==
    /\ Goto(c, "set", "expire")
    /\ key' = [host |-> ServerOf[c], ttl |-> Forever] /\ Touched(c)
    /\ since' = [since EXCEPT ![c] = 0]
    /\ UNCHANGED <<online, members, gap, excused, fails>>

ExpireForgotten(c) ==          \* variant: no EXPIRE
    /\ Goto(c, "expire", "query")
    /\ since' = [since EXCEPT ![c] = 0]
    /\ UNCHANGED <<key, online, members, foreign, gap, excused, fails>>

Expire(c) ==
    /\ Goto(c, "expire", "query")
    /\ key' = Expired(key) /\ since' = [since EXCEPT ![c] = 0]
    /\ UNCHANGED <<online, members, foreign, gap, excused, fails>>

(* ... userInsertMongodb(): insert the user if the query found none, ...   *)
QueryIgnored(c) ==             \* variant: inserts at every login
    /\ Goto(c, "query", "insert")
    /\ UNCHANGED <<key, online, members, since, foreign, gap, excused, fails>>

Query(c) ==
    /\ pc[c] = "query"
    /\ \E ok \in BOOLEAN :
           /\ ~ok => fails < MaxFails
           /\ fails' = IF ok THEN fails ELSE fails + 1
           /\ pc' = [pc EXCEPT ![c] = IF QueryToListJson(ok, members, User) = << >>
                                      THEN "insert" ELSE "zadd app"]
    /\ UNCHANGED <<key, online, members, since, foreign, gap, excused>>

Insert(c) ==
    /\ Goto(c, "insert", "zadd app")
    /\ \E ok \in BOOLEAN : members' = InsertFromCollectionToJson(ok, members, User)
    /\ UNCHANGED <<key, online, since, foreign, gap, excused, fails>>

(* ... two ZADD, ...                                                       *)
ZaddLogin(c) ==
    /\ \/ Goto(c, "zadd app", "zadd platform") /\ online' = online \cup {"app"}
       \/ Goto(c, "zadd platform", "check") /\ online' = online \cup {"platform"}
    /\ UNCHANGED <<key, members, since, foreign, gap, excused, fails>>

(* ... and only then a look at this server's registry, where a session of  *)
(* the user is found if it logged in with the same part of the secret.     *)
(* A connection that is refused does not take back what it wrote.          *)
Check(c) ==
    /\ pc[c] = "check"
    /\ \E same \in BOOLEAN :
           /\ same => \E d \in Conns \ {c} : ServerOf[d] = ServerOf[c] /\ Registered(d)
           /\ pc' = [pc EXCEPT ![c] = IF same THEN "closed" ELSE "ack"]
           /\ excused' = (excused \/ same)
    /\ UNCHANGED <<key, online, members, since, foreign, gap, fails>>

(* sendCreateConnection(): if it fails the records stay, too.              *)
Acked(c) ==
    /\ Goto(c, "ack", "served")
    /\ UNCHANGED <<key, online, members, since, foreign, gap, excused, fails>>

AckFails(c) ==
    /\ Goto(c, "ack", "closed") /\ excused' = TRUE
    /\ UNCHANGED <<key, online, members, since, foreign, gap, fails>>
-----------------------------------------------------------------------------
(* hreatbeat(): two ZADD, then EXPIRE.  A receive thread that has not ended *)
(* yet still handles a heartbeat after a do_dispose(); it lingers until it *)
(* ends, which disposes again.                                             *)
BeginBeat(c) ==
    /\ Idle(ServerOf[c])
    /\ \/ Goto(c, "served", "beat app")
       \/ Goto(c, "dropping", "late app") \/ Goto(c, "lingering", "late app")
    /\ UNCHANGED <<key, online, members, since, foreign, gap, excused, fails>>

ZaddBeat(c) ==
    /\ \/ /\ Goto(c, "beat app", "beat platform") \/ Goto(c, "late app", "late platform")
          /\ online' = online \cup {"app"}
       \/ /\ Goto(c, "beat platform", "beat expire")
             \/ Goto(c, "late platform", "late expire")
          /\ online' = online \cup {"platform"}
    /\ UNCHANGED <<key, members, since, foreign, gap, excused, fails>>

ExpireBeatForgotten(c) ==      \* variant: no EXPIRE
    /\ Goto(c, "beat expire", "served") \/ Goto(c, "late expire", "lingering")
    /\ since' = [since EXCEPT ![c] = 0]
    /\ UNCHANGED <<key, online, members, foreign, gap, excused, fails>>

ExpireBeat(c) ==
    /\ Goto(c, "beat expire", "served") \/ Goto(c, "late expire", "lingering")
    /\ key' = Expired(key) /\ since' = [since EXCEPT ![c] = 0]
    /\ UNCHANGED <<online, members, foreign, gap, excused, fails>>

(* do_dispose(), once or more often (a CLOSE, a failed read, a failed      *)
(* write): DEL, whatever server clientKey names by now, and two ZREM.      *)
BeginDispose(c) ==
    /\ Idle(ServerOf[c]) /\ \E from \in {"served", "dropping", "lingering"} : Goto(c, from, "del")
    /\ UNCHANGED <<key, online, members, since, foreign, gap, excused, fails>>

Del(c) ==
    /\ Goto(c, "del", "zrem app") /\ key' = NoKey /\ Touched(c)
    /\ UNCHANGED <<online, members, since, gap, excused, fails>>

ZremOnce(c) ==                 \* variant: forgets the set of the platform
    /\ \/ Goto(c, "zrem app", "zrem platform") /\ online' = online \ {"app"}
       \/ Goto(c, "zrem platform", "dropping") /\ UNCHANGED online
    /\ Touched(c)
    /\ UNCHANGED <<key, members, since, gap, excused, fails>>

Zrem(c) ==
    /\ \/ Goto(c, "zrem app", "zrem platform") /\ online' = online \ {"app"}
       \/ Goto(c, "zrem platform", "dropping") /\ online' = online \ {"platform"}
    /\ Touched(c)
    /\ UNCHANGED <<key, members, since, gap, excused, fails>>

Closed(c) ==
    /\ Idle(ServerOf[c]) /\ Goto(c, "dropping", "closed")
    /\ UNCHANGED <<key, online, members, since, foreign, gap, excused, fails>>

(* A server dies between any two commands.  A broken Redis connection      *)
(* comes to the same here: no later command arrives, DEL and ZREM, whose   *)
(* replies nobody looks at, included, and the process ends at the next     *)
(* reply it does look at.                                                  *)
Crash(s) ==
    /\ \E c \in Conns : ServerOf[c] = s /\ pc[c] \notin {"new", "closed"}
    /\ pc' = [c \in Conns |->
                 IF ServerOf[c] = s /\ pc[c] # "new" THEN "closed" ELSE pc[c]]
    /\ gap' = (gap \/ \E c \in Conns : ServerOf[c] = s /\ pc[c] = "expire")
    /\ excused' = TRUE
    /\ UNCHANGED <<key, online, members, since, foreign, fails>>

(* Time passes while every punctual client is in time.                     *)
Timed(c) == Registered(c) \/ pc[c] \in Login \ {"set"}

Tick ==
    /\ \A c \in Conns \ Late : Timed(c) => since[c] < Beat
    /\ key' = IF key.host = None \/ key.ttl = Forever THEN key
              ELSE IF key.ttl = 1 THEN NoKey
              ELSE [key EXCEPT !.ttl = @ - 1]
    /\ since' = [c \in Conns |-> IF since[c] < Beat /\ Timed(c) THEN since[c] + 1 ELSE since[c]]
    /\ UNCHANGED <<pc, online, members, foreign, gap, excused, fails>>

Command(c) ==
    \/ Set(c) \/ Expire(c) \/ Query(c) \/ Insert(c) \/ ZaddLogin(c) \/ Check(c)
    \/ ZaddBeat(c) \/ ExpireBeat(c) \/ Del(c) \/ Zrem(c)

Proceed(c) == Begin(c) \/ Acked(c) \/ AckFails(c) \/ BeginBeat(c) \/ BeginDispose(c) \/ Closed(c)

Next ==
    \/ Tick
    \/ \E c \in Conns : Command(c) \/ Proceed(c)
    \/ \E s \in Servers : Crash(s)

Spec == Init /\ [][Next]_vars

(* Time passes as long as the punctual clients and the servers let it.     *)
FairSpec == Spec /\ WF_vars(Tick)
-----------------------------------------------------------------------------
TypeOK ==
    /\ pc \in [Conns -> Stage]
    /\ key \in [host : Servers, ttl : 1 .. Forever] \cup {NoKey}
    /\ online \subseteq Zsets
    /\ since \in [Conns -> 0 .. Beat]
    /\ foreign \subseteq Conns
    /\ gap \in BOOLEAN /\ excused \in BOOLEAN /\ fails \in 0 .. MaxFails

(* While a session is served and its client is punctual, a producer finds  *)
(* the user: clientKey names the session's server and both sets contain    *)
(* the user - unless another session of the user wrote or deleted the      *)
(* records since.                                                          *)
Findable ==
    \A c \in Conns \ (Late \cup foreign) :
        Served(c) => key.host = ServerOf[c] /\ online = Zsets

(* A clientKey that never expires is one whose login is between SET and    *)
(* EXPIRE, or was when its server died.                                    *)
ForeverOnlyInLogin ==
    key.ttl = Forever => gap \/ \E c \in Conns : pc[c] = "expire"

(* A user without a session who is still in a set of users online is there *)
(* because a server died, an acknowledgement could not be sent, or a login *)
(* was refused.                                                            *)
OnlineNeedsExcuse ==
    online # {} => excused \/ \E c \in Conns : pc[c] \notin {"new", "closed"}

(* The query and the insert of a member are two commands: logins on        *)
(* several servers at once may each insert, but never more than one per    *)
(* server, plus one for each query that failed.                            *)
FewMembers == Len(members) <= Cardinality(Servers) + fails

(* When the user has no session any more, clientKey goes away, however the *)
(* last session ended, unless a server died between SET and EXPIRE.        *)
KeyGoesAway ==
    <>[](\A c \in Conns : pc[c] \in {"new", "closed"}) => <>[](key.host = None \/ gap)

(* What remains in Redis without a session of the user tells of a crash, a *)
(* failed acknowledgement or a refused login.                              *)
LeftoversExcused == ForeverOnlyInLogin /\ OnlineNeedsExcuse
=============================================================================
