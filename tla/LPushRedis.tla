------------------------------ MODULE LPushRedis -----------------------------
(***************************************************************************)
(* The connection of a server to Redis (LPushRedisClient,                  *)
(* core/lpushRedis.cpp).  Every method sends one command and waits for the *)
(* reply; hiredis returns a null reply when the connection has failed, now *)
(* or before.  No method tests for that: some look into the reply, which   *)
(* ends the process, the others free it.  Nothing reconnects, and only     *)
(* connecting has a timeout.                                               *)
(* Of the data only the fields that may be missing are kept.               *)
(***************************************************************************)
EXTENDS Naturals, TLC

CONSTANTS
    Fields,        \* fields of the hashes in Redis
    Calls          \* the methods the server calls once it has started

(* What each method reads of the reply.  A null reply has none of it.      *)
StringReads == [set |-> "text", get |-> "text", del |-> "nothing", incr |-> "integer"]

ListReads == [list |-> "type", lPushForList |-> "nothing", rPushForList |-> "nothing", lpop |-> "nothing",
              rpop |-> "nothing", lrem |-> "nothing", ltrim |-> "nothing", llen |-> "integer"]

BinaryReads == [setForBinary |-> "text"]

HashReads == [hset |-> "nothing", hget |-> "type", hsetnx |-> "nothing", hgetall |-> "type", hdel |-> "nothing"]

ZsetReads == [zadd |-> "nothing", zaddList |-> "nothing", zcard |-> "integer", zcount |-> "integer",
              zrange |-> "type", zrangeWithscores |-> "type", zrank |-> "integer", zrem |-> "nothing",
              zremList |-> "nothing", zscore |-> "integer"]

KeyReads == [expire |-> "nothing"]

Reads == StringReads @@ ListReads @@ BinaryReads @@ HashReads @@ ZsetReads @@ KeyReads

(* The methods that look into the reply; the others only free it.          *)
Looking == {m \in DOMAIN Reads : Reads[m] # "nothing"}

CallsAssumption == Calls \subseteq DOMAIN Reads

VARIABLES
    proc,          \* "connect", "auth", "select", "runs", "waits" or "dead"
    context,       \* "none", "good", "bad" (an error is noted) or "freed"
    authentic,     \* did Redis accept the password?
    stored,        \* the fields that exist in Redis
    believed       \* those whose last hset or hdel returned

vars == <<proc, context, authentic, stored, believed>>

Init ==
    /\ proc = "connect" /\ context = "none" /\ authentic = FALSE
    /\ stored \in SUBSET Fields /\ believed = stored

(* initRedis(): when it fails the context is freed but not forgotten, and  *)
(* RedisInitializer() does not look at the result.                         *)
Connect ==
    /\ proc = "connect" /\ proc' = "auth"
    /\ context' \in {"good", "freed"}
    /\ UNCHANGED <<authentic, stored, believed>>

(* auth() prints reply->str, null reply or not; a refusal is only traced.  *)
AuthLooks ==                   \* variant: tests the reply
    /\ proc = "auth" /\ proc' = "select"
    /\ authentic' \in {FALSE, context = "good"}
    /\ UNCHANGED <<context, stored, believed>>

Auth ==
    /\ proc = "auth"
    /\ proc' = IF context = "good" THEN "select" ELSE "dead"
    /\ authentic' \in {FALSE, context = "good"}
    /\ UNCHANGED <<context, stored, believed>>

Select ==
    /\ proc = "select" /\ proc' = "runs"
    /\ UNCHANGED <<context, authentic, stored, believed>>

(* One command.  A refused client gets an error reply, which has a text.   *)
HasTextNil(m, f) == m \notin {"get", "hget"} \/ ~authentic \/ f \in stored   \* variant

HasText(m, f) == Reads[m] = "text" => m # "get" \/ ~authentic \/ f \in stored

Effect(m, f, S) ==
    CASE m = "hset" -> S \cup {f}
      [] m = "hdel" -> S \ {f}
      [] OTHER      -> S

Returns(m, f) ==
    /\ believed' = Effect(m, f, believed)
    /\ proc' = "runs"

Call(m, f) ==
    /\ proc \in {"runs", "waits"} /\ context = "good" /\ m \in Calls
    /\ stored' = IF authentic THEN Effect(m, f, stored) ELSE stored
    /\ IF m \in Looking /\ ~HasText(m, f)
       THEN proc' = "dead" /\ UNCHANGED believed
       ELSE Returns(m, f)
    /\ UNCHANGED <<context, authentic>>

(* The connection breaks, before or after the command was carried out.     *)
BreaksReconnects(m, f) ==      \* variant: reconnects, but does not repeat the command
    /\ proc \in {"runs", "waits"} /\ context = "good" /\ m \in Calls
    /\ Returns(m, f) /\ UNCHANGED <<context, authentic, stored>>

Breaks(m, f) ==
    /\ proc \in {"runs", "waits"} /\ context = "good" /\ m \in Calls
    /\ context' = "bad"
    /\ stored' \in {stored, IF authentic THEN Effect(m, f, stored) ELSE stored}
    /\ IF m \in Looking THEN proc' = "dead" /\ UNCHANGED believed ELSE Returns(m, f)
    /\ UNCHANGED authentic

(* Every later command gets a null reply at once.                          *)
CallTestsReply(m, f) ==        \* variant: list(), set(), hget() test the reply
    /\ proc = "runs" /\ context = "bad" /\ m \in Calls
    /\ IF m \in Looking \ {"list", "set", "hget"}
       THEN proc' = "dead" /\ UNCHANGED believed ELSE Returns(m, f)
    /\ UNCHANGED <<context, authentic, stored>>

CallBroken(m, f) ==
    /\ proc = "runs" /\ context = "bad" /\ m \in Calls
    /\ IF m \in Looking THEN proc' = "dead" /\ UNCHANGED believed ELSE Returns(m, f)
    /\ UNCHANGED <<context, authentic, stored>>

(* Redis does not answer and does not close: the whole process, with all   *)
(* its coroutines, waits until an answer comes or the connection breaks.   *)
Hangs == /\ proc = "runs" /\ context = "good"
         /\ proc' = "waits"
         /\ UNCHANGED <<context, authentic, stored, believed>>

Step(m, f) == Call(m, f) \/ Breaks(m, f) \/ CallBroken(m, f)

Next ==
    \/ Connect \/ Auth \/ Select \/ Hangs
    \/ \E m \in Calls, f \in Fields : Step(m, f)

Spec == Init /\ [][Next]_vars

(* The main coroutine reads its task list with list() every second.        *)
Fairness ==
    /\ WF_vars(Auth) /\ WF_vars(Select)
    /\ WF_vars(proc = "runs" /\ \E f \in Fields : Step("list", f))

FairSpec == Spec /\ Fairness
-----------------------------------------------------------------------------
(* A server runs only if it was connected once: nothing checks it, but the *)
(* null reply to AUTH ends the process.                                    *)
RunsConnected == proc \in {"select", "runs", "waits"} => context \in {"good", "bad"}

(* While the connection holds, none of the methods the server calls ends   *)
(* the process, whatever is missing in Redis.                              *)
DiesDisconnected == proc = "dead" => context \in {"bad", "freed"}

(* What a server believes to have written and deleted is what Redis holds, *)
(* unless the connection broke or the password was refused.  Then hset()   *)
(* and hdel() go on returning as if nothing had happened.                  *)
BelievesTruth == believed # stored => context = "bad" \/ ~authentic

(* That does not last: a server whose connection has broken, or was never  *)
(* there, ends.                                                            *)
BrokenEnds == context \in {"bad", "freed"} ~> proc = "dead"

(* A server lives and dies with its connection, and until it dies may      *)
(* believe only what hset() and hdel() let it believe.                     *)
ConnectionDecides == RunsConnected /\ DiesDisconnected /\ BelievesTruth
=============================================================================
