------------------------------ MODULE MCLPushCore ----------------------------
(***************************************************************************)
(* The classes that the rest is built on: the two thread wrappers, the     *)
(* Redis client and the logger.  They share nothing, so each of them is a  *)
(* part of the state graph of its own, chosen at the start; the variables  *)
(* of the others keep their first values.                                  *)
(***************************************************************************)
EXTENDS LPushThread, Naturals, TLC

CONSTANTS
    MaxThreads,                          \* of LPushPThread
    Fields,                              \* of LPushRedis
    Procs, LogMax, Headers, Messages, Errors, MinLevel, MaxLines, None,
                                         \* of LPushLog
    Addrs, MaxBorn, MaxIds               \* of LogContext

VARIABLES
    part,
    loop, canRun, disposed, pid, thread, boss, started,
    proc, context, authentic, stored, believed,
    file, fd, line, next,
    self, known, cache, id, born, lines

Server == {"hset", "hdel", "hget", "list", "ltrim", "lPushForList", "set", "expire",
           "del", "zadd", "zrem"}

Posix == INSTANCE LPushPThread WITH owner <- boss
Redis == INSTANCE LPushRedis WITH Calls <- Server
Log   == INSTANCE LPushLog
Ids   == INSTANCE LogContext

ASSUME PosixAssumption == Posix!ThreadsAssumption
ASSUME RedisAssumption == Redis!CallsAssumption
ASSUME LogAssumption   == Log!SizeAssumption
ASSUME IdsAssumption   == Ids!BornAssumption

posixVars == <<loop, canRun, disposed, pid, thread, boss, started>>
redisVars == <<proc, context, authentic, stored, believed>>
logVars   == <<file, fd, line, next>>
idsVars   == <<self, known, cache, id, born, lines>>
CoreVars  == <<part, vars, posixVars, redisVars, logVars, idsVars>>

CoreInit ==
    /\ part \in {"thread", "posix", "redis", "log", "ids"}
    /\ Init /\ Posix!Init /\ Redis!Init /\ Log!Init /\ Ids!Init
    /\ part # "redis" => stored = {}
    /\ part # "log" => file = None

CoreNext ==
    /\ UNCHANGED part
    /\ \/ part = "thread" /\ Next /\ UNCHANGED <<posixVars, redisVars, logVars, idsVars>>
       \/ part = "posix" /\ Posix!Next /\ UNCHANGED <<vars, redisVars, logVars, idsVars>>
       \/ part = "redis" /\ Redis!Next /\ UNCHANGED <<vars, posixVars, logVars, idsVars>>
       \/ part = "log" /\ Log!Next /\ UNCHANGED <<vars, posixVars, redisVars, idsVars>>
       \/ part = "ids" /\ Ids!Next /\ UNCHANGED <<vars, posixVars, redisVars, logVars>>

CoreSpec ==
    /\ CoreInit /\ [][CoreNext]_CoreVars
    /\ Fairness /\ Posix!Fairness /\ Redis!Fairness
-----------------------------------------------------------------------------
(* LPushPThread: a handler runs only between a start() that returned and   *)
(* the stop() that forgets its thread, on each run of an object, although  *)
(* dispose() skips the join when the thread says that it has ended.        *)
PosixInsideRun == Posix!CycleInsideRun

(* LPushRedisClient: a server runs only with a connection it once had and  *)
(* dies only without one, and what it believes it wrote was written,       *)
(* except by hset() and hdel() on a broken connection.                     *)
ConnectionDecides == Redis!ConnectionDecides

(* LPushRedisClient: a server whose connection broke does not go on for    *)
(* ever: one of the commands of its main loop ends it.                     *)
BrokenEnds == Redis!BrokenEnds

(* LPushFastLog: what write() gets of a line leaves room in the buffer of  *)
(* the log, whatever the header, the message and the text of errno add up  *)
(* to, and a line that fits is written whole; only an error line, with     *)
(* errno set and a message that did not fit, is written behind the buffer. *)
LineBounded == Log!LineBounded

(* LPushFastLog: a log file that existed before the processes started is   *)
(* only extended, however the openings and creations of two processes      *)
(* interleave.                                                             *)
OnlyExtended == Log!OnlyExtended

(* LogContext: an id in the log stands for one coroutine, although the     *)
(* cache is keyed by addresses that are used again.                        *)
IdNamesOne == Ids!IdNamesOne
=============================================================================
