-------------------------- MODULE LPushPresenceProofs ------------------------
(***************************************************************************)
(* What the records of a user say, for any servers, sessions and times to  *)
(* live.                                                                   *)
(***************************************************************************)
EXTENDS LPushPresence, LPushLemmas, FiniteSetTheorems

(* A session from its SET until its disposal, as long as no other session  *)
(* of the user wrote or deleted the records, and its client is punctual.   *)
AfterSet  == {"expire", "query", "insert", "zadd app", "zadd platform", "check",
              "ack", "served"} \cup Beating
AfterApp  == {"zadd platform", "check", "ack", "served"} \cup Beating
AfterZadd == {"check", "ack", "served"} \cup Beating

Written ==
    \A c \in Conns \ (Late \cup foreign) :
        /\ pc[c] \in AfterSet => key.host = ServerOf[c] /\ key.ttl + since[c] >= TTL
        /\ pc[c] \in AfterApp => "app" \in online
        /\ pc[c] \in AfterZadd => "platform" \in online

(* A session that added the user to a set and is still going to remove it. *)
RemovesApp      == AfterApp \cup LateBeat \cup {"lingering", "del", "zrem app"}
RemovesPlatform == AfterZadd \cup LateBeat
                       \cup {"lingering", "del", "zrem app", "zrem platform"}

HasRemover ==
    ~excused => /\ "app" \in online => \E c \in Conns : pc[c] \in RemovesApp
                /\ "platform" \in online => \E c \in Conns : pc[c] \in RemovesPlatform

IInv == TypeOK /\ Written /\ ForeverOnlyInLogin /\ HasRemover

USE ServerAssumption, TimeAssumption, FailsAssumption
-----------------------------------------------------------------------------
(* The key.                                                                *)
LEMMA KeyFacts ==
    ASSUME TypeOK
    PROVE  /\ key.host # None => key.host \in Servers /\ key.ttl \in 1 .. Forever
           /\ key.host = None => key = NoKey /\ key.ttl = 0
           /\ key.ttl \in Nat /\ TTL \in Nat /\ Forever = TTL + 1 /\ TTL > 1
BY DEF TypeOK, NoKey, Forever

LEMMA ExpiredFacts ==
    ASSUME TypeOK
    PROVE  /\ Expired(key) \in [host : Servers, ttl : 1 .. Forever] \cup {NoKey}
           /\ Expired(key).host = key.host /\ Expired(key).ttl # Forever
           /\ key.host # None => Expired(key).ttl = TTL
<1>1. CASE key.host = None
    <2>1. Expired(key) = NoKey /\ key = NoKey
        BY <1>1, KeyFacts DEF Expired
    <2> QED BY <2>1, <1>1 DEF NoKey, Forever
<1>2. CASE key.host # None
    <2>1. key \in [host : Servers, ttl : 1 .. Forever]
        BY <1>2 DEF TypeOK, NoKey
    <2>2. Expired(key) = [key EXCEPT !.ttl = TTL]
        BY <1>2 DEF Expired
    <2>3. TTL \in 1 .. Forever /\ TTL # Forever
        BY DEF Forever
    <2> QED BY <2>1, <2>2, <2>3
<1> QED BY <1>1, <1>2

(* A second of the key's time to live.                                     *)
LEMMA TickFacts ==
    ASSUME TypeOK, Tick
    PROVE  /\ key' \in [host : Servers, ttl : 1 .. Forever] \cup {NoKey}
           /\ key'.ttl = Forever => key.ttl = Forever
           /\ key.host # None /\ key.ttl > 1 =>
                  key'.host = key.host /\ key'.ttl + 1 >= key.ttl
<1>1. CASE key.host = None \/ key.ttl = Forever
    <2>1. key' = key
        BY <1>1 DEF Tick
    <2> QED BY <2>1, KeyFacts DEF TypeOK
<1>2. CASE key.host # None /\ key.ttl # Forever
    <2>1. key \in [host : Servers, ttl : 1 .. Forever]
        BY <1>2 DEF TypeOK, NoKey
    <2>2. CASE key.ttl = 1
        <3>1. key' = NoKey
            BY <1>2, <2>2 DEF Tick
        <3> QED BY <3>1, <2>2 DEF NoKey, Forever
    <2>3. CASE key.ttl # 1
        <3>1. key' = [key EXCEPT !.ttl = key.ttl - 1]
            BY <1>2, <2>3 DEF Tick
        <3>2. key.ttl - 1 \in 1 .. Forever /\ key.ttl - 1 # Forever
            BY <1>2, <2>1, <2>3 DEF Forever
        <3> QED BY <2>1, <3>1, <3>2
    <2> QED BY <2>2, <2>3
<1> QED BY <1>1, <1>2
-----------------------------------------------------------------------------
(* A step of one connection that leaves the key and its times alone, adds  *)
(* at most to the sets, and keeps whatever the connection is answerable    *)
(* for.                                                                    *)
LEMMA QuietStep ==
    ASSUME IInv, NEW c \in Conns, NEW a \in Stage, NEW b \in Stage, Goto(c, a, b),
           UNCHANGED <<key, since, foreign, gap>>, online \subseteq online',
           online' \subseteq Zsets, excused' \in BOOLEAN, fails' \in 0 .. MaxFails,
           a # "expire",
           b \in AfterSet => a \in AfterSet,
           b \in AfterApp => a \in AfterApp \/ "app" \in online',
           b \in AfterZadd => a \in AfterZadd \/ "platform" \in online',
           ~excused' => /\ ~excused
                        /\ a \in RemovesApp => b \in RemovesApp
                        /\ a \in RemovesPlatform => b \in RemovesPlatform
                        /\ "app" \in online' \ online => b \in RemovesApp
                        /\ "platform" \in online' \ online => b \in RemovesPlatform
    PROVE  IInv'
<1>1. /\ pc' \in [Conns -> Stage] /\ pc[c] = a
      /\ \A d \in Conns : pc'[d] = IF d = c THEN b ELSE pc[d]
    BY DEF Goto, IInv, TypeOK
<1>2. TypeOK'
    BY <1>1 DEF IInv, TypeOK
<1>3. Written'
    BY <1>1 DEF IInv, Written
<1>4. ForeverOnlyInLogin'
    BY <1>1 DEF IInv, ForeverOnlyInLogin
<1>5. HasRemover'
    BY <1>1 DEF IInv, HasRemover
<1> QED BY <1>2, <1>3, <1>4, <1>5 DEF IInv

(* A query that fails is counted.                                          *)
LEMMA QueryCounts ==
    ASSUME TypeOK, NEW c \in Conns, Query(c)
    PROVE  fails' \in 0 .. MaxFails
<1>1. fails \in 0 .. MaxFails
    BY DEF TypeOK
<1>2. fails' = fails \/ (fails' = fails + 1 /\ fails < MaxFails)
    BY DEF Query
<1> QED BY <1>1, <1>2, FailsAssumption

(* The steps of createConnection(), hreatbeat() and the end of a session   *)
(* that are quiet.                                                         *)
LEMMA QuietSteps ==
    ASSUME IInv, NEW c \in Conns,
           \/ Query(c) \/ Insert(c) \/ ZaddLogin(c) \/ Check(c) \/ ZaddBeat(c) \/ Proceed(c)
    PROVE  IInv'
<1> USE DEF Stage, Waiting, Login, Beating, LateBeat, Dispose, AfterSet, AfterApp, AfterZadd,
            RemovesApp, RemovesPlatform, Zsets
<1>0. /\ online \subseteq Zsets /\ excused \in BOOLEAN /\ fails \in 0 .. MaxFails
      /\ pc \in [Conns -> Stage]
    BY DEF IInv, TypeOK
<1>1. CASE Query(c)
    <2>1. fails' \in 0 .. MaxFails
        BY <1>1, QueryCounts DEF IInv
    <2>2. PICK b \in {"insert", "zadd app"} : Goto(c, "query", b)
        BY <1>1 DEF Query, Goto
    <2>3. UNCHANGED <<key, online, since, foreign, gap, excused>>
        BY <1>1 DEF Query
    <2> QED BY <1>0, <2>1, <2>2, <2>3, QuietStep
<1>2. CASE Insert(c)
    BY <1>0, <1>2, QuietStep DEF Insert
<1>3. CASE ZaddLogin(c)
    <2>1. UNCHANGED <<key, since, foreign, gap, excused, fails>>
        BY <1>3 DEF ZaddLogin
    <2>2. CASE Goto(c, "zadd app", "zadd platform") /\ online' = online \cup {"app"}
        BY <1>0, <2>1, <2>2, QuietStep
    <2>3. CASE Goto(c, "zadd platform", "check") /\ online' = online \cup {"platform"}
        <3>1. "zadd platform" \in AfterApp
            OBVIOUS
        <3> QED BY <1>0, <2>1, <2>3, <3>1, QuietStep
    <2> QED BY <1>3, <2>2, <2>3 DEF ZaddLogin
<1>4. CASE Check(c)
    <2>1. UNCHANGED <<key, online, since, foreign, gap, fails>>
        BY <1>4 DEF Check
    <2>2. \/ Goto(c, "check", "closed") /\ excused' = TRUE
          \/ Goto(c, "check", "ack") /\ excused' = excused
        BY <1>0, <1>4 DEF Check, Goto
    <2> QED BY <1>0, <2>1, <2>2, QuietStep
<1>5. CASE ZaddBeat(c)
    <2>1. UNCHANGED <<key, since, foreign, gap, excused, fails>>
        BY <1>5 DEF ZaddBeat
    <2>2. CASE Goto(c, "beat app", "beat platform") /\ online' = online \cup {"app"}
        BY <1>0, <2>1, <2>2, QuietStep
    <2>3. CASE Goto(c, "beat platform", "beat expire") /\ online' = online \cup {"platform"}
        BY <1>0, <2>1, <2>3, QuietStep
    <2>4. CASE Goto(c, "late app", "late platform") /\ online' = online \cup {"app"}
        BY <1>0, <2>1, <2>4, QuietStep
    <2>5. CASE Goto(c, "late platform", "late expire") /\ online' = online \cup {"platform"}
        BY <1>0, <2>1, <2>5, QuietStep
    <2> QED BY <1>5, <2>2, <2>3, <2>4, <2>5 DEF ZaddBeat
<1>6. CASE Begin(c)
    BY <1>0, <1>6, QuietStep DEF Begin
<1>7. CASE Acked(c)
    BY <1>0, <1>7, QuietStep DEF Acked
<1>8. CASE AckFails(c)
    BY <1>0, <1>8, QuietStep DEF AckFails
<1>9. CASE BeginBeat(c)
    <2>1. UNCHANGED <<key, online, since, foreign, gap, excused, fails>>
        BY <1>9 DEF BeginBeat
    <2>2. CASE Goto(c, "served", "beat app")
        BY <1>0, <2>1, <2>2, QuietStep
    <2>3. CASE Goto(c, "dropping", "late app")
        BY <1>0, <2>1, <2>3, QuietStep
    <2>4. CASE Goto(c, "lingering", "late app")
        BY <1>0, <2>1, <2>4, QuietStep
    <2> QED BY <1>9, <2>2, <2>3, <2>4 DEF BeginBeat
<1>10. CASE BeginDispose(c)
    <2>1. UNCHANGED <<key, online, since, foreign, gap, excused, fails>>
        BY <1>10 DEF BeginDispose
    <2>2. CASE Goto(c, "served", "del")
        BY <1>0, <2>1, <2>2, QuietStep
    <2>3. CASE Goto(c, "dropping", "del")
        BY <1>0, <2>1, <2>3, QuietStep
    <2>4. CASE Goto(c, "lingering", "del")
        BY <1>0, <2>1, <2>4, QuietStep
    <2> QED BY <1>10, <2>2, <2>3, <2>4 DEF BeginDispose
<1>11. CASE Closed(c)
    BY <1>0, <1>11, QuietStep DEF Closed
<1> QED BY <1>1, <1>2, <1>3, <1>4, <1>5, <1>6, <1>7, <1>8, <1>9, <1>10, <1>11 DEF Proceed
-----------------------------------------------------------------------------
(* SET: from now on the records are those of c, and nobody else's.         *)
LEMMA SetStep ==
    ASSUME IInv, NEW c \in Conns, Set(c)
    PROVE  IInv'
<1>1. /\ pc' \in [Conns -> Stage] /\ pc[c] = "set"
      /\ \A d \in Conns : pc'[d] = IF d = c THEN "expire" ELSE pc[d]
    BY DEF Set, Goto, IInv, TypeOK, Stage, Login
<1>2. /\ key' = [host |-> ServerOf[c], ttl |-> Forever] /\ ServerOf[c] \in Servers
      /\ Forever = TTL + 1 /\ TTL \in Nat
    BY DEF Set, Forever
<1>3. since' \in [Conns -> 0 .. Beat] /\ since'[c] = 0
    BY DEF Set, IInv, TypeOK
<1>4. foreign' = (foreign \ {c}) \cup (Conns \ {c}) /\ UNCHANGED <<online, gap, excused, fails>>
    BY DEF Set, Touched
<1>5. TypeOK'
    BY <1>1, <1>2, <1>3, <1>4 DEF IInv, TypeOK
<1>6. Written'
    <2> SUFFICES ASSUME NEW d \in Conns \ (Late \cup foreign')
                 PROVE  /\ key'.host = ServerOf[d] /\ key'.ttl + since'[d] >= TTL
                        /\ pc'[d] \notin AfterApp /\ pc'[d] \notin AfterZadd
        BY DEF Written
    <2>1. d = c
        BY <1>4
    <2>2. key'.host = ServerOf[c] /\ key'.ttl = TTL + 1
        BY <1>2
    <2>3. pc'[c] = "expire"
        BY <1>1
    <2> QED BY <1>2, <1>3, <2>1, <2>2, <2>3 DEF AfterApp, AfterZadd, Beating, LateBeat
<1>7. ForeverOnlyInLogin'
    BY <1>1 DEF ForeverOnlyInLogin
<1>8. HasRemover'
    BY <1>1, <1>4 DEF IInv, HasRemover, RemovesApp, RemovesPlatform, AfterApp, AfterZadd, Beating, LateBeat
<1> QED BY <1>5, <1>6, <1>7, <1>8 DEF IInv

(* EXPIRE, by a login or by a heartbeat.                                   *)
LEMMA ExpireSteps ==
    ASSUME IInv, NEW c \in Conns, Expire(c) \/ ExpireBeat(c)
    PROVE  IInv'
<1>0. /\ key' = Expired(key) /\ since' = [since EXCEPT ![c] = 0]
      /\ UNCHANGED <<online, foreign, gap, excused, fails>>
    BY DEF Expire, ExpireBeat
<1>1. since' \in [Conns -> 0 .. Beat] /\ \A d \in Conns : since'[d] = IF d = c THEN 0 ELSE since[d]
    <2>1. since \in [Conns -> 0 .. Beat] /\ 0 \in 0 .. Beat
        BY TimeAssumption DEF IInv, TypeOK
    <2> QED BY <1>0, <2>1
<1>2. TypeOK
    BY DEF IInv
<1>3. \A d \in Conns : key.host = ServerOf[d] => key'.ttl + since'[d] >= TTL
    <2>1. \A d \in Conns : since'[d] \in Nat /\ ServerOf[d] # None
        BY <1>1, TimeAssumption, ServerAssumption
    <2>2. key.host # None => key'.ttl = TTL
        BY <1>0, <1>2, ExpiredFacts
    <2> QED BY <2>1, <2>2, TimeAssumption
<1>4. PICK a \in {"expire", "beat expire", "late expire"}, b \in {"query", "served", "lingering"} :
          /\ Goto(c, a, b) /\ (a = "expire" <=> b = "query")
          /\ a = "late expire" <=> b = "lingering"
    BY DEF Expire, ExpireBeat
<1>5. /\ pc' \in [Conns -> Stage] /\ pc[c] = a
      /\ \A d \in Conns : pc'[d] = IF d = c THEN b ELSE pc[d]
    BY <1>4 DEF Goto, IInv, TypeOK, Stage, Login, Waiting
<1>6. TypeOK'
    BY <1>0, <1>1, <1>2, <1>5, ExpiredFacts DEF TypeOK
<1>7. Written'
    <2> SUFFICES ASSUME NEW d \in Conns \ (Late \cup foreign), pc'[d] \in AfterSet
                 PROVE  /\ key'.host = ServerOf[d] /\ key'.ttl + since'[d] >= TTL
                        /\ pc'[d] \in AfterApp => "app" \in online'
                        /\ pc'[d] \in AfterZadd => "platform" \in online'
        BY <1>0 DEF Written, AfterSet, AfterApp, AfterZadd
    <2>1. pc[d] \in AfterSet /\ (pc'[d] \in AfterApp => pc[d] \in AfterApp)
          /\ (pc'[d] \in AfterZadd => pc[d] \in AfterZadd)
        BY <1>4, <1>5 DEF AfterSet, AfterApp, AfterZadd, Beating, LateBeat
    <2>2. key.host = ServerOf[d] /\ (pc[d] \in AfterApp => "app" \in online)
          /\ (pc[d] \in AfterZadd => "platform" \in online)
        BY <2>1 DEF IInv, Written
    <2>3. key'.host = ServerOf[d]
        BY <1>0, <1>2, <2>2, ExpiredFacts
    <2> QED BY <1>0, <1>3, <2>1, <2>2, <2>3
<1>8. ForeverOnlyInLogin'
    BY <1>0, <1>2, ExpiredFacts DEF ForeverOnlyInLogin
<1>9. HasRemover'
    BY <1>0, <1>4, <1>5 DEF IInv, HasRemover, RemovesApp, RemovesPlatform, AfterApp, AfterZadd, Beating, LateBeat
<1> QED BY <1>6, <1>7, <1>8, <1>9 DEF IInv

(* DEL and ZREM: the records of the others are gone, too.                  *)
LEMMA DisposeSteps ==
    ASSUME IInv, NEW c \in Conns, Del(c) \/ Zrem(c)
    PROVE  IInv'
<1>0. NoKey.ttl # Forever
    BY TimeAssumption DEF NoKey, Forever
<1>1. PICK a \in Dispose, b \in {"zrem app", "zrem platform", "dropping"} :
          /\ Goto(c, a, b)
          /\ \/ b = "zrem app" /\ online' = online /\ key' = NoKey
             \/ b = "zrem platform" /\ online' = online \ {"app"} /\ key' = key
             \/ b = "dropping" /\ online' = online \ {"platform"} /\ key' = key
          /\ a = "zrem platform" => b = "dropping"
          /\ a = "zrem app" => b = "zrem platform"
          /\ a = "del" => b = "zrem app"
    BY DEF Del, Zrem, Dispose
<1>2. /\ pc' \in [Conns -> Stage] /\ pc[c] = a
      /\ \A d \in Conns : pc'[d] = IF d = c THEN b ELSE pc[d]
    BY <1>1 DEF Goto, IInv, TypeOK, Stage, Dispose, Waiting
<1>3. /\ foreign' = (foreign \ {c}) \cup (Conns \ {c})
      /\ UNCHANGED <<since, gap, excused, fails>>
    BY DEF Del, Zrem, Touched
<1>4. TypeOK'
    BY <1>1, <1>2, <1>3 DEF IInv, TypeOK
<1>5. Written'
    BY <1>1, <1>2, <1>3 DEF Written, AfterSet, AfterApp, AfterZadd, Beating, LateBeat
<1>6. ForeverOnlyInLogin'
    <2>1. key'.ttl = Forever => key.ttl = Forever
        BY <1>0, <1>1
    <2> QED BY <1>1, <1>2, <1>3, <2>1 DEF IInv, ForeverOnlyInLogin, Dispose
<1>7. HasRemover'
    BY <1>1, <1>2, <1>3
       DEF IInv, HasRemover, RemovesApp, RemovesPlatform, AfterApp, AfterZadd, Beating, LateBeat, Dispose
<1> QED BY <1>4, <1>5, <1>6, <1>7 DEF IInv

(* A crash excuses what it leaves.                                         *)
LEMMA CrashStep ==
    ASSUME IInv, NEW s \in Servers, Crash(s)
    PROVE  IInv'
<1>1. /\ pc' \in [Conns -> Stage]
      /\ \A d \in Conns : pc'[d] = pc[d] \/ (pc'[d] = "closed" /\ ServerOf[d] = s)
    <2>1. pc' = [d \in Conns |-> IF ServerOf[d] = s /\ pc[d] # "new" THEN "closed" ELSE pc[d]]
        BY DEF Crash
    <2>2. pc \in [Conns -> Stage] /\ "closed" \in Stage
        BY DEF IInv, TypeOK, Stage, Waiting
    <2> QED BY <2>1, <2>2
<1>2. UNCHANGED <<key, online, since, foreign, fails>> /\ excused'
      /\ gap' = (gap \/ \E c \in Conns : ServerOf[c] = s /\ pc[c] = "expire")
    BY DEF Crash
<1>3. TypeOK'
    BY <1>1, <1>2 DEF Crash, IInv, TypeOK
<1>4. Written'
    BY <1>1, <1>2 DEF IInv, Written, AfterSet, AfterApp, AfterZadd, Beating, LateBeat
<1>5. ForeverOnlyInLogin'
    BY <1>1, <1>2 DEF IInv, ForeverOnlyInLogin
<1>6. HasRemover'
    BY <1>2 DEF HasRemover
<1> QED BY <1>3, <1>4, <1>5, <1>6 DEF IInv

(* Time: a punctual client leaves its key at least a second.               *)
LEMMA TickStep ==
    ASSUME IInv, Tick
    PROVE  IInv'
<1>0. TypeOK
    BY DEF IInv
<1>1. UNCHANGED <<pc, online, foreign, gap, excused, fails>>
    BY DEF Tick
<1>2. since' \in [Conns -> 0 .. Beat]
      /\ \A c \in Conns : since'[c] = IF since[c] < Beat /\ Timed(c) THEN since[c] + 1 ELSE since[c]
    BY <1>0 DEF Tick, TypeOK
<1>3. TypeOK'
    BY <1>0, <1>1, <1>2, TickFacts DEF TypeOK
<1>4. Written'
    <2> SUFFICES ASSUME NEW c \in Conns \ (Late \cup foreign), pc[c] \in AfterSet
                 PROVE  /\ key'.host = ServerOf[c] /\ key'.ttl + since'[c] >= TTL
                        /\ pc[c] \in AfterApp => "app" \in online
                        /\ pc[c] \in AfterZadd => "platform" \in online
        BY <1>1 DEF Written, AfterSet, AfterApp, AfterZadd
    <2>1. /\ key.host = ServerOf[c] /\ key.ttl + since[c] >= TTL
          /\ pc[c] \in AfterApp => "app" \in online
          /\ pc[c] \in AfterZadd => "platform" \in online
        BY DEF IInv, Written
    <2>2. Timed(c)
        BY DEF Timed, Registered, AfterSet, Login, Beating
    <2>3. since[c] \in Nat /\ since[c] < Beat /\ since'[c] = since[c] + 1
        BY <1>0, <1>2, <2>2 DEF Tick, TypeOK
    <2>4. key.host # None /\ key.ttl \in Nat
        BY <1>0, <2>1, KeyFacts
    <2>5. key.ttl > 1
        BY <2>1, <2>3, <2>4
    <2>6. key'.host = key.host /\ key'.ttl + 1 >= key.ttl
        BY <1>0, <2>4, <2>5, TickFacts
    <2>7. key'.ttl \in Nat
        BY <1>0, TickFacts DEF NoKey, Forever
    <2> QED BY <2>1, <2>3, <2>4, <2>6, <2>7
<1>5. ForeverOnlyInLogin'
    BY <1>0, <1>1, TickFacts DEF IInv, ForeverOnlyInLogin, Forever
<1>6. HasRemover'
    BY <1>1 DEF IInv, HasRemover
<1> QED BY <1>3, <1>4, <1>5, <1>6 DEF IInv

LEMMA InitIInv == Init => IInv
<1> SUFFICES ASSUME Init PROVE IInv
    OBVIOUS
<1>1. TypeOK
    <2>1. "new" \in Stage /\ 0 \in 0 .. Beat /\ 0 \in 0 .. MaxFails
        BY DEF Stage, Waiting
    <2> QED BY <2>1 DEF Init, TypeOK
<1>2. Written
    BY DEF Init, Written, AfterSet, AfterApp, AfterZadd, Beating, LateBeat
<1>3. ForeverOnlyInLogin
    BY DEF Init, ForeverOnlyInLogin, NoKey, Forever
<1>4. HasRemover
    BY DEF Init, HasRemover
<1> QED BY <1>1, <1>2, <1>3, <1>4 DEF IInv

LEMMA NextIInv == IInv /\ [Next]_vars => IInv'
<1> SUFFICES ASSUME IInv, [Next]_vars PROVE IInv'
    OBVIOUS
<1>1. CASE UNCHANGED vars
    <2>1. TypeOK' /\ Written' /\ ForeverOnlyInLogin' /\ HasRemover'
        BY <1>1 DEF vars, IInv, TypeOK, Written, ForeverOnlyInLogin, HasRemover
    <2> QED BY <2>1 DEF IInv
<1>2. CASE Tick
    BY <1>2, TickStep
<1>3. ASSUME NEW c \in Conns, Command(c) \/ Proceed(c) PROVE IInv'
    BY <1>3, SetStep, ExpireSteps, DisposeSteps, QuietSteps DEF Command
<1>4. ASSUME NEW s \in Servers, Crash(s) PROVE IInv'
    BY <1>4, CrashStep
<1> QED BY <1>1, <1>2, <1>3, <1>4 DEF Next

(* The strengthened invariant holds of every reachable state.              *)
THEOREM Inductive == Spec => []IInv
BY InitIInv, NextIInv, PTL DEF Spec

(* Type correctness; a key lives at most as long as SET lets it.           *)
THEOREM Types == Spec => []TypeOK
<1>1. IInv => TypeOK
    BY DEF IInv
<1> QED BY <1>1, Inductive, PTL

(* A producer finds the server of a punctual client, unless another        *)
(* session of the user touched the records.                                *)
THEOREM PunctualIsFindable == Spec => []Findable
<1>1. IInv => Findable
    <2> SUFFICES ASSUME IInv, NEW c \in Conns \ (Late \cup foreign), Served(c)
                 PROVE  key.host = ServerOf[c] /\ online = Zsets
        BY DEF Findable
    <2>1. pc[c] \in AfterSet /\ pc[c] \in AfterApp /\ pc[c] \in AfterZadd
        BY DEF Served, AfterSet, AfterApp, AfterZadd
    <2>2. key.host = ServerOf[c] /\ "app" \in online /\ "platform" \in online
        BY <2>1 DEF IInv, Written
    <2> QED BY <2>2 DEF IInv, TypeOK, Zsets
<1> QED BY <1>1, Inductive, PTL

(* What stays behind in Redis without a session has one of the excuses.    *)
THEOREM LeftoversHaveExcuse == Spec => []LeftoversExcused
<1>1. IInv => LeftoversExcused
    <2> SUFFICES ASSUME IInv, online # {}, ~excused
                 PROVE  \E c \in Conns : pc[c] \notin {"new", "closed"}
        BY DEF IInv, LeftoversExcused, OnlineNeedsExcuse
    <2>1. "app" \in online \/ "platform" \in online
        BY DEF IInv, TypeOK, Zsets
    <2> QED BY <2>1 DEF IInv, HasRemover, RemovesApp, RemovesPlatform, AfterApp, AfterZadd, Beating, LateBeat
<1> QED BY <1>1, Inductive, PTL
-----------------------------------------------------------------------------
(* How many documents the member collection may have.  Of the connections  *)
(* of a server at most one is between two commands, so at most one of them *)
(* is about to insert; while it is, it counts as a document.               *)
OneBusy ==
    \A c, d \in Conns :
        ServerOf[c] = ServerOf[d] /\ pc[c] \notin Waiting /\ pc[d] \notin Waiting => c = d

Inserting == {s \in Servers : \E c \in Conns : ServerOf[c] = s /\ pc[c] = "insert"}

Counted == Len(members) + Cardinality(Inserting) <= Cardinality(Servers) + fails

MInv == TypeOK /\ OneBusy /\ members \in Seq({User}) /\ Counted

LEMMA ServersCount ==
    ASSUME NEW I, I \subseteq Servers
    PROVE  /\ IsFiniteSet(I) /\ Cardinality(I) \in Nat /\ Cardinality(Servers) \in Nat
           /\ Cardinality(I) <= Cardinality(Servers)
BY FS_Subset, FS_CardinalityType

(* A connection leaves the commands, goes on with them, or starts them     *)
(* when no other of its server is between two.                             *)
LEMMA OneBusyStep ==
    ASSUME TypeOK, OneBusy, NEW c \in Conns, NEW b, pc' = [pc EXCEPT ![c] = b],
           b \in Waiting \/ pc[c] \notin Waiting \/ Idle(ServerOf[c])
    PROVE  OneBusy'
<1>1. \A d \in Conns : pc'[d] = IF d = c THEN b ELSE pc[d]
    BY DEF TypeOK
<1> QED BY <1>1 DEF OneBusy, Idle

LEMMA OneBusyFewer ==
    ASSUME OneBusy, \A c \in Conns : pc'[c] = pc[c] \/ pc'[c] \in Waiting
    PROVE  OneBusy'
BY DEF OneBusy

(* Every step but the query, the insert and those of the clock and a crash *)
(* leaves the documents alone and the inserts where they are.              *)
LEMMA MovesOn ==
    ASSUME TypeOK, NEW c \in Conns,
           \/ Set(c) \/ Expire(c) \/ ZaddLogin(c) \/ Check(c) \/ ZaddBeat(c) \/ ExpireBeat(c)
           \/ Del(c) \/ Zrem(c) \/ Proceed(c)
    PROVE  \E b \in Stage :
               /\ pc' = [pc EXCEPT ![c] = b] /\ b # "insert" /\ pc[c] # "insert"
               /\ b \in Waiting \/ pc[c] \notin Waiting \/ Idle(ServerOf[c])
               /\ UNCHANGED <<members, fails>>
<1> USE DEF Goto, Stage, Waiting, Login, Beating, LateBeat, Dispose
<1>1. CASE Set(c) \/ Expire(c) \/ ZaddLogin(c)
    BY <1>1 DEF Set, Expire, ZaddLogin
<1>2. CASE Check(c)
    BY <1>2 DEF Check
<1>3. CASE ZaddBeat(c) \/ ExpireBeat(c) \/ Del(c) \/ Zrem(c)
    BY <1>3 DEF ZaddBeat, ExpireBeat, Del, Zrem
<1>4. CASE Proceed(c)
    BY <1>4 DEF Proceed, Begin, Acked, AckFails, BeginBeat, BeginDispose, Closed
<1> QED BY <1>1, <1>2, <1>3, <1>4

LEMMA MovesOnCounted ==
    ASSUME MInv, NEW c \in Conns, NEW b \in Stage,
           pc' = [pc EXCEPT ![c] = b], b # "insert", pc[c] # "insert",
           b \in Waiting \/ pc[c] \notin Waiting \/ Idle(ServerOf[c]),
           UNCHANGED <<members, fails>>
    PROVE  OneBusy' /\ (members \in Seq({User}))' /\ Counted'
<1>1. OneBusy'
    BY OneBusyStep DEF MInv
<1>2. Inserting' = Inserting
    <2>1. \A d \in Conns : pc'[d] = "insert" <=> pc[d] = "insert"
        BY DEF MInv, TypeOK
    <2> QED BY <2>1 DEF Inserting
<1> QED BY <1>1, <1>2 DEF MInv, Counted

(* A query sends its connection to insert only when it failed, which is    *)
(* counted, or when there is no document at all.                           *)
LEMMA QueryCounted ==
    ASSUME MInv, NEW c \in Conns, Query(c)
    PROVE  OneBusy' /\ (members \in Seq({User}))' /\ Counted'
<1> DEFINE n == Len(members)
           s == ServerOf[c]
<1>1. PICK ok \in BOOLEAN :
          /\ fails' = IF ok THEN fails ELSE fails + 1
          /\ pc' = [pc EXCEPT ![c] = IF QueryToListJson(ok, members, User) = << >>
                                     THEN "insert" ELSE "zadd app"]
    BY DEF Query
<1>2. pc[c] = "query" /\ members' = members
    BY DEF Query
<1>3. n \in Nat /\ fails \in Nat
    BY DEF MInv, TypeOK
<1>4. OneBusy'
    <2>1. PICK b : pc' = [pc EXCEPT ![c] = b]
        BY <1>1
    <2>2. pc[c] \notin Waiting
        BY <1>2 DEF Waiting
    <2> QED BY <2>1, <2>2, OneBusyStep DEF MInv
<1>5. Inserting' \subseteq Inserting \cup {s} /\ Inserting \subseteq Servers
      /\ Inserting' \subseteq Servers /\ s \in Servers
    BY <1>1 DEF MInv, TypeOK, Inserting
<1>6. Cardinality(Inserting') <= Cardinality(Inserting) + 1
    <2>1. IsFiniteSet(Inserting \cup {s})
          /\ Cardinality(Inserting \cup {s}) <= Cardinality(Inserting) + 1
        BY <1>5, ServersCount, FS_AddElement
    <2>2. Cardinality(Inserting') <= Cardinality(Inserting \cup {s})
        BY <1>5, <2>1, FS_Subset
    <2> QED BY <1>5, <2>1, <2>2, ServersCount, FS_CardinalityType
<1>7. CASE ok /\ members # << >>
    <2>1. members[n] = User /\ n > 0
        BY <1>7 DEF MInv
    <2>2. QueryToListJson(ok, members, User) # << >>
        BY <1>7, <2>1, MatchingFacts DEF MInv, QueryToListJson
    <2>3. \A d \in Conns : pc'[d] = "insert" => pc[d] = "insert"
        BY <1>1, <2>2 DEF MInv, TypeOK
    <2>4. Inserting' \subseteq Inserting
        BY <2>3 DEF Inserting
    <2>5. Cardinality(Inserting') <= Cardinality(Inserting)
        BY <1>5, <2>4, ServersCount, FS_Subset
    <2>6. Cardinality(Inserting') \in Nat /\ Cardinality(Inserting) \in Nat
          /\ Cardinality(Servers) \in Nat
        BY <1>5, ServersCount
    <2>7. fails' = fails /\ n + Cardinality(Inserting) <= Cardinality(Servers) + fails
        BY <1>1, <1>7 DEF MInv, Counted
    <2> HIDE DEF n
    <2>8. n + Cardinality(Inserting') <= Cardinality(Servers) + fails'
        BY <1>3, <2>5, <2>6, <2>7
    <2> QED BY <1>2, <1>4, <2>8 DEF MInv, Counted, n
<1>8. CASE ok /\ members = << >>
    <2>1. n = 0 /\ fails' = fails
        BY <1>1, <1>8
    <2>2. /\ Cardinality(Inserting') \in Nat /\ Cardinality(Servers) \in Nat
          /\ Cardinality(Inserting') <= Cardinality(Servers)
        BY <1>5, ServersCount
    <2> QED BY <1>2, <1>3, <1>4, <2>1, <2>2 DEF MInv, Counted
<1>9. CASE ~ok
    <2>1. Cardinality(Inserting') \in Nat /\ Cardinality(Inserting) \in Nat
          /\ Cardinality(Servers) \in Nat
        BY <1>5, ServersCount
    <2>2. fails' = fails + 1
        BY <1>1, <1>9
    <2> QED BY <1>2, <1>3, <1>4, <1>6, <2>1, <2>2 DEF MInv, Counted
<1> QED BY <1>7, <1>8, <1>9

(* An insert leaves a document where it was counted before, or none.       *)
LEMMA InsertCounted ==
    ASSUME MInv, NEW c \in Conns, Insert(c)
    PROVE  OneBusy' /\ (members \in Seq({User}))' /\ Counted'
<1> DEFINE n == Len(members)
           s == ServerOf[c]
<1>1. /\ pc[c] = "insert" /\ pc' = [pc EXCEPT ![c] = "zadd app"] /\ fails' = fails
      /\ members' \in {members, Append(members, User)}
    BY DEF Insert, Goto, InsertFromCollectionToJson
<1>2. OneBusy'
    <2>1. pc[c] \notin Waiting
        BY <1>1 DEF Waiting
    <2> QED BY <1>1, <2>1, OneBusyStep DEF MInv
<1>3. members' \in Seq({User}) /\ Len(members') <= n + 1 /\ n \in Nat /\ Len(members') \in Nat
    <2>1. members \in Seq({User}) /\ User \in {User}
        BY DEF MInv
    <2> HIDE DEF User
    <2>2. Append(members, User) \in Seq({User}) /\ Len(Append(members, User)) = n + 1
          /\ n \in Nat
        BY <2>1
    <2>3. CASE members' = members
        BY <2>1, <2>2, <2>3
    <2>4. CASE members' = Append(members, User)
        BY <2>2, <2>4
    <2> QED BY <1>1, <2>3, <2>4
<1>4. Inserting' = Inserting \ {s} /\ s \in Inserting
    <2>1. \A d \in Conns : pc'[d] = "insert" <=> pc[d] = "insert" /\ d # c
        BY <1>1 DEF MInv, TypeOK
    <2>2. \A d \in Conns : ServerOf[d] = s /\ pc[d] = "insert" => d = c
        BY <1>1 DEF MInv, OneBusy, Waiting
    <2> QED BY <1>1, <2>1, <2>2 DEF Inserting
<1>5. Inserting \subseteq Servers
    BY DEF Inserting
<1>6. /\ Cardinality(Inserting') = Cardinality(Inserting) - 1
      /\ Cardinality(Inserting) \in Nat /\ Cardinality(Servers) \in Nat
    BY <1>4, <1>5, ServersCount, FS_RemoveElement
<1>7. fails \in Nat
    BY DEF MInv, TypeOK
<1> HIDE DEF n, s
<1>8. n + Cardinality(Inserting) <= Cardinality(Servers) + fails
    BY DEF MInv, Counted, n
<1>9. Len(members') + Cardinality(Inserting') <= Cardinality(Servers) + fails
    BY <1>3, <1>6, <1>7, <1>8
<1> QED BY <1>1, <1>2, <1>3, <1>9 DEF Counted

(* A server that dies inserts nothing more.                                *)
LEMMA CrashCounted ==
    ASSUME MInv, NEW s \in Servers, Crash(s)
    PROVE  OneBusy' /\ (members \in Seq({User}))' /\ Counted'
<1>1. /\ members' = members /\ fails' = fails
      /\ \A c \in Conns : pc'[c] = pc[c] \/ pc'[c] = "closed"
    BY DEF Crash
<1>2. OneBusy'
    BY <1>1, OneBusyFewer DEF MInv, Waiting
<1>3. Inserting' \subseteq Inserting /\ Inserting \subseteq Servers
    BY <1>1 DEF Inserting
<1>4. /\ Cardinality(Inserting') <= Cardinality(Inserting)
      /\ Cardinality(Inserting') \in Nat /\ Cardinality(Inserting) \in Nat
      /\ Cardinality(Servers) \in Nat
    BY <1>3, ServersCount, FS_Subset
<1>5. Len(members) \in Nat /\ fails \in Nat
    BY DEF MInv, TypeOK
<1> QED BY <1>1, <1>2, <1>4, <1>5 DEF MInv, Counted

LEMMA InitCounted == Init => MInv
<1> SUFFICES ASSUME Init PROVE MInv
    OBVIOUS
<1>1. TypeOK
    BY InitIInv DEF IInv
<1>2. OneBusy
    BY DEF Init, OneBusy, Waiting
<1>3. Inserting = {}
    BY DEF Init, Inserting
<1>4. members = << >> /\ fails = 0
    BY DEF Init
<1>5. Len(members) = 0 /\ members \in Seq({User})
    BY <1>4
<1>6. Cardinality(Inserting) = 0 /\ Cardinality(Servers) \in Nat
    BY <1>3, FS_EmptySet, ServersCount
<1> QED BY <1>1, <1>2, <1>4, <1>5, <1>6 DEF MInv, Counted

LEMMA NextCounted ==
    ASSUME MInv, [Next]_vars
    PROVE  OneBusy' /\ (members \in Seq({User}))' /\ Counted'
<1>1. CASE UNCHANGED vars
    BY <1>1 DEF vars, MInv, OneBusy, Counted, Inserting
<1>2. CASE Tick
    BY <1>2 DEF Tick, MInv, OneBusy, Counted, Inserting
<1>3. ASSUME NEW c \in Conns, Command(c) \/ Proceed(c)
      PROVE  OneBusy' /\ (members \in Seq({User}))' /\ Counted'
    <2>1. CASE Query(c)
        BY <2>1, QueryCounted
    <2>2. CASE Insert(c)
        BY <2>2, InsertCounted
    <2>3. CASE ~Query(c) /\ ~Insert(c)
        <3>1. PICK b \in Stage :
                  /\ pc' = [pc EXCEPT ![c] = b] /\ b # "insert" /\ pc[c] # "insert"
                  /\ b \in Waiting \/ pc[c] \notin Waiting \/ Idle(ServerOf[c])
                  /\ UNCHANGED <<members, fails>>
            BY <1>3, <2>3, MovesOn DEF Command, MInv
        <3> QED BY <3>1, MovesOnCounted
    <2> QED BY <2>1, <2>2, <2>3
<1>4. ASSUME NEW s \in Servers, Crash(s)
      PROVE  OneBusy' /\ (members \in Seq({User}))' /\ Counted'
    BY <1>4, CrashCounted
<1> QED BY <1>1, <1>2, <1>3, <1>4 DEF Next

(* Never more member documents than servers, but for failed queries.       *)
THEOREM MembersBounded == Spec => []FewMembers
<1>1. MInv /\ [Next]_vars /\ TypeOK' => MInv'
    BY NextCounted DEF MInv
<1>2. Spec => []MInv
    BY <1>1, InitCounted, Types, PTL DEF Spec
<1>3. MInv => FewMembers
    <2> SUFFICES ASSUME MInv PROVE FewMembers
        OBVIOUS
    <2>1. Inserting \subseteq Servers
        BY DEF Inserting
    <2>2. Cardinality(Inserting) \in Nat /\ Cardinality(Servers) \in Nat
        BY <2>1, ServersCount
    <2>3. Len(members) \in Nat /\ fails \in Nat
        BY DEF MInv, TypeOK
    <2> QED BY <2>2, <2>3 DEF MInv, Counted, FewMembers
<1> QED BY <1>2, <1>3, PTL
=============================================================================
