-------------------------- MODULE LPushConnProofs --------------------------
(***************************************************************************)
(* Proofs about LPushConn, for any number of connections and identities,   *)
(* however many identities are one user's, with or without failing thread  *)
(* creation.                                                               *)
(***************************************************************************)
EXTENDS LPushConn, LPushLemmas, FiniteSetTheorems

(* The client pointer is set from the moment the registry entry is made    *)
(* until the object is freed.                                              *)
ClientExactly == client = {c \in Conn : pc[c] \in {"ack"} \cup Serving \cup Teardown}

(* Where each thread may be running, what the destructor has already done  *)
(* to it, and which flags keep its cycle() going.                          *)
RecvOK(c) ==
    /\ Truthful(recv[c])
    /\ recv[c].joinable
    /\ recv[c].at \in Running => pc[c] \in Serving \cup {"joinRecv"}
    /\ recv[c].at \in Running /\ pc[c] = "joinRecv" => recv[c].joining
    /\ recv[c].at = "cycle" => recv[c].can_run
    /\ recv[c].at # "pause"

ConsumOK(c) ==
    /\ Truthful(consum[c])
    /\ consum[c].joinable
    /\ consum[c].at \in Running => pc[c] \in {"startConsum", "loop"} \cup Teardown
    /\ consum[c].at \in Running /\ pc[c] = "joinConsum"
           => consum[c].joining /\ ~consum[c].loop
    /\ pc[c] \in {"startConsum", "loop", "joinRecv"} => c \in can_play
    /\ consum[c].at # "pause"

(* Only a session of the same user under another identity has removed the  *)
(* presence of a connection that did not do so itself.                     *)
PresenceOK ==
    /\ RegisteredIsOnline
    /\ \A c \in erased : \E j \in Key \ {key[c]} : UserOf[j] = UserOf[key[c]]

IInv == /\ TypeOK
        /\ ListedExactly
        /\ ClientExactly
        /\ RegistryOwned
        /\ \A c \in Conn : RecvOK(c) /\ ConsumOK(c)
        /\ PresenceOK
-----------------------------------------------------------------------------
(* A step of connection c leaves the threads of the others alone.          *)
LEMMA ThreadFrame ==
    ASSUME IInv, NEW c \in Conn, RecvOK(c)', ConsumOK(c)',
           \A d \in Conn \ {c} :
               /\ pc'[d] = pc[d] /\ recv'[d] = recv[d] /\ consum'[d] = consum[d]
               /\ d \in can_play' <=> d \in can_play
    PROVE  \A d \in Conn : RecvOK(d)' /\ ConsumOK(d)'
BY DEF IInv, RecvOK, ConsumOK

(* Writing the presence of c, be it for the registration of c itself.      *)
LEMMA RecordedOK ==
    ASSUME IInv, NEW c \in Conn, key[c] \in Key, RecordPresence(c),
           UNCHANGED <<key, dispose>>,
           clients' = clients \/ clients' = [clients EXCEPT ![key[c]] = c]
    PROVE  PresenceOK' /\ online' \in [User -> Conn \cup {NoConn}]
<1> DEFINE u == UserOf[key[c]]
<1>1. u \in User /\ online' = [online EXCEPT ![u] = c] /\ c # NoConn
  BY UserAssumption, ConnAssumption DEF RecordPresence
<1>2. ASSUME NEW k \in Key, clients'[k] # NoConn, clients'[k] \notin dispose
      PROVE  \/ online'[UserOf[k]] # NoConn
             \/ /\ clients'[k] \in erased'
                /\ \E j \in Key \ {k} : UserOf[j] = UserOf[k]
  <2>1. UserOf[k] \in User
    BY UserAssumption
  <2>2. CASE UserOf[k] = u
    BY <1>1, <2>1, <2>2 DEF IInv, TypeOK
  <2>3. CASE UserOf[k] # u
    <3>1. /\ online'[UserOf[k]] = online[UserOf[k]]
          /\ clients'[k] = clients[k]
      BY <1>1, <2>1, <2>3 DEF IInv, TypeOK
    <3>2. key[clients[k]] = k
      BY <1>2, <3>1 DEF IInv, RegistryOwned
    <3>3. clients[k] \notin SameUser(c)
      BY <2>3, <3>2 DEF SameUser
    <3> QED BY <1>2, <3>1, <3>3 DEF IInv, PresenceOK, RegisteredIsOnline, RecordPresence
  <2> QED BY <2>2, <2>3
<1>3. \A d \in erased' : d \in erased
  BY DEF RecordPresence
<1> QED BY <1>1, <1>2, <1>3 DEF IInv, TypeOK, PresenceOK, RegisteredIsOnline

(* do_dispose(): those of the same user that lose their presence with c    *)
(* are registered under other identities.                                  *)
LEMMA DisposedOK ==
    ASSUME IInv, NEW c \in client, DoDispose(c), UNCHANGED connVars
    PROVE  /\ PresenceOK' /\ online' \in [User -> Conn \cup {NoConn}]
           /\ erased' \subseteq client
<1> DEFINE u == UserOf[key[c]]
<1>1. /\ key[c] \in Key /\ clients[key[c]] = c /\ c \in Conn
      /\ u \in User /\ online' = [online EXCEPT ![u] = NoConn]
      /\ erased' = erased \cup ((client \cap SameUser(c)) \ {c})
      /\ dispose' = dispose \cup {c}
  BY UserAssumption DEF DoDispose, RemovePresence, IInv, TypeOK, RegistryOwned
<1>2. ASSUME NEW d \in client, d # c
      PROVE  key[d] \in Key /\ key[d] # key[c] /\ clients[key[d]] = d
  BY <1>1, <1>2 DEF IInv, RegistryOwned
<1>3. ASSUME NEW d \in erased'
      PROVE  \E j \in Key \ {key[d]} : UserOf[j] = UserOf[key[d]]
  <2>1. CASE d \in erased
    BY <2>1 DEF IInv, PresenceOK
  <2>2. CASE d \in client /\ d # c /\ UserOf[key[d]] = u
    BY <1>1, <1>2, <2>2
  <2> QED BY <1>1, <1>3, <2>1, <2>2 DEF SameUser
<1>4. ASSUME NEW k \in Key, clients[k] # NoConn, clients[k] \notin dispose'
      PROVE  \/ online'[UserOf[k]] # NoConn
             \/ /\ clients[k] \in erased'
                /\ \E j \in Key \ {k} : UserOf[j] = UserOf[k]
  <2> DEFINE d == clients[k]
  <2>1. d \in client /\ d # c /\ key[d] = k /\ d \notin dispose /\ UserOf[k] \in User
    BY <1>1, <1>4, UserAssumption DEF IInv, RegistryOwned
  <2>2. CASE UserOf[k] = u
    <3>1. d \in SameUser(c)
      BY <2>1, <2>2, KeyAssumption DEF SameUser, IInv, TypeOK
    <3>2. k # key[c]
      BY <1>2, <2>1
    <3> QED BY <1>1, <2>1, <2>2, <3>1, <3>2
  <2>3. CASE UserOf[k] # u
    <3>1. online'[UserOf[k]] = online[UserOf[k]]
      BY <1>1, <2>1, <2>3 DEF IInv, TypeOK
    <3> QED BY <1>1, <1>4, <2>1, <3>1 DEF IInv, PresenceOK, RegisteredIsOnline
  <2> QED BY <2>2, <2>3
<1>5. erased' \subseteq client
  BY <1>1 DEF IInv, TypeOK
<1>6. PresenceOK'
  BY <1>3, <1>4 DEF PresenceOK, RegisteredIsOnline, connVars
<1> QED BY <1>1, <1>5, <1>6, ConnAssumption DEF IInv, TypeOK

(* A step of one of the threads of c leaves the connection itself alone;   *)
(* it may refresh its presence, or remove it while it disposes of it.      *)
LEMMA ThreadStepOK ==
    ASSUME IInv, NEW c \in Conn, UNCHANGED connVars, UNCHANGED can_play,
           NEW r \in ThreadRecord, recv' = [recv EXCEPT ![c] = r],
           NEW q \in ThreadRecord, consum' = [consum EXCEPT ![c] = q],
           recvAt' \in [Conn -> {"read", "sleep"}],
           consumAt' \in [Conn -> {"poll", "write"}],
           late' \subseteq Conn,
           RecvOK(c)', ConsumOK(c)', c \in client,
           \/ UNCHANGED <<online, erased, dispose>>
           \/ RecordPresence(c) /\ UNCHANGED dispose
           \/ DoDispose(c)
    PROVE  IInv'
<1>1. key[c] \in Key /\ clients[key[c]] = c
  BY DEF IInv, RegistryOwned
<1>5. /\ PresenceOK' /\ online' \in [User -> Conn \cup {NoConn}]
      /\ erased' \subseteq client /\ dispose' \subseteq Conn
  <2>1. CASE UNCHANGED <<online, erased, dispose>>
    BY <2>1 DEF IInv, TypeOK, PresenceOK, RegisteredIsOnline, connVars
  <2>2. CASE RecordPresence(c) /\ UNCHANGED dispose
    BY <1>1, <2>2, RecordedOK DEF IInv, TypeOK, RecordPresence, connVars
  <2>3. CASE DoDispose(c)
    BY <2>3, DisposedOK DEF IInv, TypeOK, DoDispose
  <2> QED BY <2>1, <2>2, <2>3
<1>2. TypeOK'
  BY <1>1, <1>5 DEF IInv, TypeOK, connVars
<1>3. ListedExactly' /\ ClientExactly' /\ RegistryOwned'
  BY DEF IInv, ListedExactly, ClientExactly, RegistryOwned, connVars
<1>4. \A d \in Conn : RecvOK(d)' /\ ConsumOK(d)'
  <2>1. \A d \in Conn \ {c} :
            /\ pc'[d] = pc[d] /\ recv'[d] = recv[d] /\ consum'[d] = consum[d]
            /\ d \in can_play' <=> d \in can_play
    BY DEF IInv, TypeOK, connVars
  <2> QED BY <2>1, ThreadFrame
<1> QED BY <1>2, <1>3, <1>4, <1>5 DEF IInv

LEMMA RecvStepOK == ASSUME IInv, NEW c \in Conn, RecvStep(c) PROVE IInv'
<1> DEFINE t == recv[c]
<1> DEFINE u == consum[c]
<1>0. /\ t \in ThreadRecord /\ Truthful(t) /\ u \in ThreadRecord
      /\ RecvOK(c) /\ ConsumOK(c)
  BY DEF IInv, TypeOK, RecvOK, ConsumOK
<1>1. consum = [consum EXCEPT ![c] = u] /\ recv = [recv EXCEPT ![c] = t]
  BY DEF IInv, TypeOK
<1>2. recvAt \in [Conn -> {"read", "sleep"}] /\ consumAt \in [Conn -> {"poll", "write"}]
  BY DEF IInv, TypeOK
<1>3. t.at \in Running => c \in client
  BY <1>0 DEF IInv, RecvOK, ClientExactly, Teardown
<1>4. late \subseteq Conn
  BY DEF IInv, TypeOK
<1>5. ASSUME UNCHANGED <<connVars, consum, can_play>> PROVE ConsumOK(c)'
  BY <1>0, <1>5 DEF ConsumOK, connVars
<1>6. CASE RecvSchedule(c)
  <2>1. t.at = "new" /\ t.at \in Running
    BY <1>6 DEF RecvSchedule, Running
  <2>2. /\ Enter(t) \in ThreadRecord /\ Truthful(Enter(t))
        /\ Enter(t).joining = t.joining /\ Enter(t).joinable = t.joinable
        /\ Enter(t).can_run = t.can_run /\ Enter(t).at # "pause"
        /\ Enter(t).at = "cycle" => t.can_run
    BY <1>0, <2>1, EnterOK
  <2>3. recv'[c] = Enter(t) /\ pc' = pc
    BY <1>6 DEF RecvSchedule, connVars, IInv, TypeOK
  <2>4. RecvOK(c)'
    BY <1>0, <2>1, <2>2, <2>3 DEF RecvOK
  <2> QED
    BY <1>0, <1>1, <1>2, <1>3, <1>4, <1>5, <1>6, <2>1, <2>2, <2>4, ThreadStepOK
    DEF RecvSchedule, sessionVars
<1>7. CASE RecvPassGate(c)
  <2>1. t.at = "gate" /\ t.at \in Running
    BY <1>7 DEF RecvPassGate, Running
  <2>2. /\ Gate(t) \in ThreadRecord /\ Truthful(Gate(t))
        /\ Gate(t).joining = t.joining /\ Gate(t).joinable = t.joinable
        /\ Gate(t).can_run = t.can_run /\ Gate(t).at # "pause"
        /\ Gate(t).at = "cycle" => t.can_run
    BY <1>0, <2>1, GateOK
  <2>3. recv'[c] = Gate(t) /\ pc' = pc
    BY <1>7 DEF RecvPassGate, connVars, IInv, TypeOK
  <2>4. RecvOK(c)'
    BY <1>0, <2>1, <2>2, <2>3 DEF RecvOK
  <2>5. recvAt' \in [Conn -> {"read", "sleep"}]
    BY <1>2, <1>7 DEF RecvPassGate
  <2> QED
    BY <1>0, <1>1, <1>2, <1>3, <1>4, <1>5, <1>7, <2>1, <2>2, <2>4, <2>5, ThreadStepOK
    DEF RecvPassGate, sessionVars
<1>8. CASE RecvHeartbeat(c) \/ RecvClose(c) \/ RecvOther(c)
  <2>1. RecvTakes(c) /\ t.at \in Running
    BY <1>8 DEF RecvHeartbeat, RecvClose, RecvOther, RecvTakes, Running
  <2>2. RecvOK(c)'
    BY <1>0, <2>1 DEF RecvTakes, RecvOK, connVars
  <2>3. recvAt' \in [Conn -> {"read", "sleep"}] /\ late' \subseteq Conn
    BY <1>2, <1>4, <2>1 DEF RecvTakes, NewTimes
  <2>4. \/ UNCHANGED <<online, erased, dispose>>
        \/ RecordPresence(c) /\ UNCHANGED dispose
        \/ DoDispose(c)
    BY <1>8 DEF RecvHeartbeat, RecvClose, RecvOther
  <2> QED
    BY <1>0, <1>1, <1>2, <1>3, <1>5, <2>1, <2>2, <2>3, <2>4, ThreadStepOK DEF RecvTakes
<1>9. CASE RecvFails(c)
  <2> DEFINE s == StopLoop(t)
  <2>1. t.at = "cycle" /\ t.at \in Running
    BY <1>9 DEF RecvFails, Running
  <2>2. /\ s \in ThreadRecord /\ Truthful(s) /\ s.at = "cycle" /\ ~s.loop
        /\ s.joinable = t.joinable
    BY <1>0, <2>1, StopLoopOK
  <2> HIDE DEF s
  <2>3. /\ CycleReturn(s) \in ThreadRecord /\ Truthful(CycleReturn(s))
        /\ CycleReturn(s).at \in {"zombie", "gone"}
        /\ CycleReturn(s).joinable = s.joinable
    BY <2>2, CycleReturnOK
  <2>4. recv' = [recv EXCEPT ![c] = CycleReturn(s)] /\ recv'[c] = CycleReturn(s)
    BY <1>9 DEF RecvFails, IInv, TypeOK, s
  <2>5. RecvOK(c)'
    BY <1>0, <2>2, <2>3, <2>4 DEF RecvOK, Running
  <2>6. recvAt' \in [Conn -> {"read", "sleep"}] /\ late' \subseteq Conn
    BY <1>2, <1>4, <1>9 DEF RecvFails, NewTimes
  <2> QED
    BY <1>0, <1>1, <1>2, <1>3, <1>5, <1>9, <2>1, <2>3, <2>4, <2>5, <2>6, ThreadStepOK
    DEF RecvFails
<1>10. CASE RecvWakes(c)
  <2> DEFINE s == [t EXCEPT !.intr = FALSE]
  <2>1. t.at = "cycle" /\ t.at \in Running /\ ~Interrupted(t)
    BY <1>0, <1>10 DEF RecvWakes, Running, RecvOK, Interrupted
  <2>2. /\ s \in ThreadRecord /\ Truthful(s) /\ s.at = t.at
        /\ s.joining = t.joining /\ s.joinable = t.joinable /\ s.can_run = t.can_run
    BY <1>0, InterruptSeenOK
  <2>3. recv' = [recv EXCEPT ![c] = s]
    BY <1>10, <2>1 DEF RecvWakes
  <2> HIDE DEF s
  <2>4. recv'[c] = s
    BY <2>3 DEF IInv, TypeOK
  <2>5. RecvOK(c)'
    BY <1>0, <1>10, <2>1, <2>2, <2>4 DEF RecvOK, RecvWakes, connVars
  <2>6. recvAt' \in [Conn -> {"read", "sleep"}]
    BY <1>2, <1>10 DEF RecvWakes
  <2> QED
    BY <1>0, <1>1, <1>2, <1>3, <1>4, <1>5, <1>10, <2>1, <2>2, <2>3, <2>5, <2>6, ThreadStepOK
    DEF RecvWakes, sessionVars
<1> QED BY <1>6, <1>7, <1>8, <1>9, <1>10 DEF RecvStep

LEMMA ConsumStepOK == ASSUME IInv, NEW c \in Conn, ConsumStep(c) PROVE IInv'
<1> DEFINE t == recv[c]
<1> DEFINE u == consum[c]
<1>0. /\ t \in ThreadRecord /\ Truthful(u) /\ u \in ThreadRecord
      /\ RecvOK(c) /\ ConsumOK(c)
  BY DEF IInv, TypeOK, RecvOK, ConsumOK
<1>1. consum = [consum EXCEPT ![c] = u] /\ recv = [recv EXCEPT ![c] = t]
  BY DEF IInv, TypeOK
<1>2. recvAt \in [Conn -> {"read", "sleep"}] /\ consumAt \in [Conn -> {"poll", "write"}]
  BY DEF IInv, TypeOK
<1>3. u.at \in Running => c \in client
  BY <1>0 DEF IInv, ConsumOK, ClientExactly, Serving
<1>4. late \subseteq Conn
  BY DEF IInv, TypeOK
<1>5. ASSUME UNCHANGED <<connVars, recv, can_play>> PROVE RecvOK(c)'
  BY <1>0, <1>5 DEF RecvOK, connVars
<1>6. CASE ConsumSchedule(c)
  <2>1. u.at = "new" /\ u.at \in Running
    BY <1>6 DEF ConsumSchedule, Running
  <2>2. /\ Enter(u) \in ThreadRecord /\ Truthful(Enter(u))
        /\ Enter(u).joining = u.joining /\ Enter(u).joinable = u.joinable
        /\ Enter(u).loop = u.loop /\ Enter(u).at # "pause"
    BY <1>0, <2>1, EnterOK
  <2>3. consum'[c] = Enter(u) /\ pc' = pc
    BY <1>6 DEF ConsumSchedule, connVars, IInv, TypeOK
  <2>4. ConsumOK(c)'
    BY <1>0, <1>6, <2>1, <2>2, <2>3 DEF ConsumOK, ConsumSchedule
  <2> QED
    BY <1>0, <1>1, <1>2, <1>3, <1>4, <1>5, <1>6, <2>1, <2>2, <2>4, ThreadStepOK
    DEF ConsumSchedule, sessionVars
<1>7. CASE ConsumPassGate(c)
  <2>1. u.at = "gate" /\ u.at \in Running
    BY <1>7 DEF ConsumPassGate, Running
  <2>2. /\ Gate(u) \in ThreadRecord /\ Truthful(Gate(u))
        /\ Gate(u).joining = u.joining /\ Gate(u).joinable = u.joinable
        /\ Gate(u).loop = u.loop /\ Gate(u).at # "pause"
    BY <1>0, <2>1, GateOK
  <2>3. consum'[c] = Gate(u) /\ pc' = pc
    BY <1>7 DEF ConsumPassGate, connVars, IInv, TypeOK
  <2>4. ConsumOK(c)'
    BY <1>0, <1>7, <2>1, <2>2, <2>3 DEF ConsumOK, ConsumPassGate
  <2> QED
    BY <1>0, <1>1, <1>2, <1>3, <1>4, <1>5, <1>7, <2>1, <2>2, <2>4, ThreadStepOK
    DEF ConsumPassGate, sessionVars
<1> DEFINE s == [u EXCEPT !.intr = FALSE]
<1>8. /\ s \in ThreadRecord /\ Truthful(s) /\ s.at = u.at /\ s.loop = u.loop
      /\ s.joining = u.joining /\ s.joinable = u.joinable
  BY <1>0, InterruptSeenOK
<1> DEFINE e == CycleReturn(u)
<1>9. u.at = "cycle" =>
        /\ e \in ThreadRecord /\ Truthful(e) /\ e.joinable = u.joinable
        /\ ~u.loop => e.at \in {"zombie", "gone"}
  BY <1>0, CycleReturnOK
<1> HIDE DEF s, e
<1>10. CASE ConsumPolls(c) /\ c \in can_play
  <2>1. u.at = "cycle" /\ u.at \in Running
    BY <1>10 DEF ConsumPolls, Running
  <2>2. consum' = [consum EXCEPT ![c] = s]
    BY <1>10 DEF ConsumPolls, s
  <2>3. consum'[c] = s
    BY <2>2 DEF IInv, TypeOK
  <2>4. ConsumOK(c)'
    BY <1>0, <1>8, <1>10, <2>3 DEF ConsumOK, ConsumPolls, connVars
  <2> QED
    BY <1>0, <1>1, <1>2, <1>3, <1>4, <1>5, <1>8, <1>10, <2>1, <2>2, <2>4, ThreadStepOK
    DEF ConsumPolls, sessionVars
<1>11. CASE ConsumPolls(c) /\ c \notin can_play
  <2>1. u.at = "cycle" /\ u.at \in Running
    BY <1>11 DEF ConsumPolls, Running
  <2>2. ~u.loop
    BY <1>0, <1>11, <2>1 DEF ConsumOK, Teardown
  <2>3. consum' = [consum EXCEPT ![c] = e]
    BY <1>11 DEF ConsumPolls, e
  <2>4. consum'[c] = e
    BY <2>3 DEF IInv, TypeOK
  <2>5. ConsumOK(c)'
    BY <1>0, <1>9, <1>11, <2>1, <2>2, <2>4 DEF ConsumOK, ConsumPolls, connVars, Running
  <2> QED
    BY <1>0, <1>1, <1>2, <1>3, <1>4, <1>5, <1>9, <1>11, <2>1, <2>3, <2>5, ThreadStepOK
    DEF ConsumPolls, sessionVars
<1>12. CASE ConsumPops(c)
  <2>1. u.at = "cycle" /\ u.at \in Running
    BY <1>12 DEF ConsumPops, Running
  <2>2. consum' = [consum EXCEPT ![c] = s]
    BY <1>12 DEF ConsumPops, s
  <2>3. consum'[c] = s
    BY <2>2 DEF IInv, TypeOK
  <2>4. ConsumOK(c)'
    BY <1>0, <1>8, <1>12, <2>3 DEF ConsumOK, ConsumPops, connVars
  <2>5. consumAt' \in [Conn -> {"poll", "write"}]
    BY <1>2, <1>12 DEF ConsumPops
  <2> QED
    BY <1>0, <1>1, <1>2, <1>3, <1>4, <1>5, <1>8, <1>12, <2>1, <2>2, <2>4, <2>5, ThreadStepOK
    DEF ConsumPops, sessionVars
<1>13. CASE ConsumWrote(c)
  <2>1. u.at \in Running
    BY <1>13 DEF ConsumWrote, Running
  <2>2. ConsumOK(c)'
    BY <1>0, <1>13 DEF ConsumOK, ConsumWrote, connVars
  <2>3. consumAt' \in [Conn -> {"poll", "write"}]
    BY <1>2, <1>13 DEF ConsumWrote
  <2> QED
    BY <1>0, <1>1, <1>2, <1>3, <1>4, <1>5, <1>13, <2>1, <2>2, <2>3, ThreadStepOK
    DEF ConsumWrote, sessionVars
<1>14. CASE ConsumFails(c)
  <2> DEFINE v == StopLoop(u)
  <2>1. u.at = "cycle" /\ u.at \in Running
    BY <1>14 DEF ConsumFails, Running
  <2>2. /\ v \in ThreadRecord /\ Truthful(v) /\ v.at = "cycle" /\ ~v.loop
        /\ v.joinable = u.joinable
    BY <1>0, <2>1, StopLoopOK
  <2> HIDE DEF v
  <2>3. /\ CycleReturn(v) \in ThreadRecord /\ Truthful(CycleReturn(v))
        /\ CycleReturn(v).at \in {"zombie", "gone"}
        /\ CycleReturn(v).joinable = v.joinable
    BY <2>2, CycleReturnOK
  <2>4. consum' = [consum EXCEPT ![c] = CycleReturn(v)] /\ consum'[c] = CycleReturn(v)
    BY <1>14 DEF ConsumFails, IInv, TypeOK, v
  <2>5. ConsumOK(c)'
    BY <1>0, <1>14, <2>2, <2>3, <2>4 DEF ConsumOK, ConsumFails, connVars, Running
  <2>6. consumAt' \in [Conn -> {"poll", "write"}]
    BY <1>2, <1>14 DEF ConsumFails
  <2> QED
    BY <1>0, <1>1, <1>2, <1>3, <1>4, <1>5, <1>14, <2>1, <2>3, <2>4, <2>5, <2>6, ThreadStepOK
    DEF ConsumFails
<1> QED BY <1>6, <1>7, <1>10, <1>11, <1>12, <1>13, <1>14 DEF ConsumStep
-----------------------------------------------------------------------------
(* A step of a connection that has no threads yet, or no longer any.       *)
LEMMA NoThreads ==
    ASSUME IInv, NEW c \in Conn, UNCHANGED <<recv, consum>>,
           pc[c] \notin Serving \cup Teardown,
           NEW l, l \notin Serving \cup Teardown, pc' = [pc EXCEPT ![c] = l],
           can_play' \in {can_play, can_play \ {c}}
    PROVE  \A d \in Conn : RecvOK(d)' /\ ConsumOK(d)'
<1>1. RecvOK(c) /\ ConsumOK(c) /\ pc'[c] = l
  BY DEF IInv, TypeOK
<1>2. recv[c].at \notin Running /\ consum[c].at \notin Running
  BY <1>1 DEF RecvOK, ConsumOK, Serving, Teardown
<1>3. RecvOK(c)' /\ ConsumOK(c)'
  BY <1>1, <1>2 DEF RecvOK, ConsumOK, Serving, Teardown, Running
<1>4. \A d \in Conn \ {c} :
          /\ pc'[d] = pc[d] /\ recv'[d] = recv[d] /\ consum'[d] = consum[d]
          /\ d \in can_play' <=> d \in can_play
  BY DEF IInv, TypeOK
<1> QED BY <1>3, <1>4, ThreadFrame

LEMMA AcceptOK == ASSUME IInv, NEW c \in Conn, Accept(c) PROVE IInv'
<1>1. PICK l \in {"handshake", "orphan"} : pc' = [pc EXCEPT ![c] = l]
  BY DEF Accept, Goto
<1>2. /\ pc[c] = "none" /\ conns' = conns \cup {c}
      /\ UNCHANGED <<key, client, clients, threadVars, sessionVars>>
  BY DEF Accept
<1>3. TypeOK'
  BY <1>1, <1>2 DEF IInv, TypeOK, Location, Early, Serving, Teardown, threadVars, sessionVars
<1>4. ListedExactly'
  BY <1>1, <1>2 DEF IInv, TypeOK, ListedExactly, Teardown
<1>5. ClientExactly' /\ RegistryOwned'
  BY <1>1, <1>2 DEF IInv, TypeOK, ClientExactly, RegistryOwned, Serving, Teardown
<1>6. \A d \in Conn : RecvOK(d)' /\ ConsumOK(d)'
  BY <1>1, <1>2, NoThreads DEF threadVars, Serving, Teardown
<1>7. PresenceOK'
  BY <1>2 DEF IInv, PresenceOK, RegisteredIsOnline, sessionVars
<1> QED BY <1>3, <1>4, <1>5, <1>6, <1>7 DEF IInv

(* The steps before the registry is touched.                               *)
LEMMA EarlyOK ==
    ASSUME IInv, NEW c \in Conn,
           HandshakeFails(c) \/ (\E k \in Key : Handshake(c, k)) \/ Shaken(c)
    PROVE  IInv'
<1>1. PICK l \in Early \ {"ack"} : pc' = [pc EXCEPT ![c] = l]
  BY DEF HandshakeFails, Handshake, Shaken, Goto, Early
<1>2. /\ pc[c] \in {"handshake", "shake"}
      /\ UNCHANGED <<conns, client, clients, threadVars, sessionVars>>
  BY DEF HandshakeFails, Handshake, Shaken
<1>3. PICK k \in Key \cup {NoKey} : key' = [key EXCEPT ![c] = k]
  BY DEF HandshakeFails, Handshake, Shaken, IInv, TypeOK
<1>4. /\ key'[c] = k
      /\ l \in {"shake", "create"} => k \in Key
  BY <1>1, <1>3 DEF HandshakeFails, Handshake, Shaken, Goto, IInv, TypeOK, Early
<1>5. c \notin client
  BY <1>2 DEF IInv, ClientExactly, Serving, Teardown
<1>6. TypeOK'
  BY <1>1, <1>2, <1>3, <1>4
  DEF IInv, TypeOK, Location, Early, Serving, Teardown, threadVars, sessionVars
<1>7. ListedExactly'
  BY <1>1, <1>2 DEF IInv, TypeOK, ListedExactly, Teardown, Early
<1>8. ClientExactly'
  BY <1>1, <1>2 DEF IInv, TypeOK, ClientExactly, Serving, Teardown, Early
<1>9. RegistryOwned'
  BY <1>2, <1>3, <1>5 DEF IInv, TypeOK, RegistryOwned
<1>10. \A d \in Conn : RecvOK(d)' /\ ConsumOK(d)'
  BY <1>1, <1>2, NoThreads DEF threadVars, Early, Serving, Teardown
<1>11. PresenceOK'
  BY <1>2, <1>3, <1>5
  DEF IInv, TypeOK, PresenceOK, RegisteredIsOnline, sessionVars
<1> QED BY <1>6, <1>7, <1>8, <1>9, <1>10, <1>11 DEF IInv

(* Freeing the object of c, whether it was registered or not.              *)
LEMMA FreeOK ==
    ASSUME IInv, NEW c \in Conn, Free(c), UNCHANGED online, conns' = conns \ {c}
    PROVE  ListedExactly' /\ ClientExactly' /\ RegistryOwned' /\ PresenceOK'
<1>1. ListedExactly' /\ ClientExactly'
  BY DEF IInv, TypeOK, ListedExactly, ClientExactly, Free, Goto, Serving, Teardown
<1>2. c \in client => key[c] \in Key /\ clients[key[c]] = c
  BY DEF IInv, RegistryOwned
<1>3. clients' \in [Key -> Conn \cup {NoConn}]
      /\ \A k \in Key : clients'[k] = IF clients[k] = c THEN NoConn ELSE clients[k]
  BY <1>2, ConnAssumption DEF IInv, TypeOK, RegistryOwned, Free, Unregister
<1>4. RegistryOwned'
  BY <1>2, <1>3, ConnAssumption DEF IInv, TypeOK, RegistryOwned, Free
<1>5. PresenceOK'
  BY <1>3 DEF IInv, TypeOK, PresenceOK, RegisteredIsOnline, Free
<1> QED BY <1>1, <1>4, <1>5

LEMMA AbandonOK == ASSUME IInv, NEW c \in Conn, Abandon(c) PROVE IInv'
<1>1. /\ pc[c] \in {"shake", "create", "ack", "refuse"}
      /\ Free(c) /\ conns' = conns \ {c}
      /\ UNCHANGED <<online, recv, consum, recvAt, consumAt>>
  BY DEF Abandon, Drop
<1>2. clients' \in [Key -> Conn \cup {NoConn}]
  BY <1>1 DEF IInv, TypeOK, Free, Unregister
<1>3. TypeOK'
  BY <1>1, <1>2 DEF IInv, TypeOK, Free, Goto, Location, Early, Serving, Teardown
<1>4. \A d \in Conn : RecvOK(d)' /\ ConsumOK(d)'
  BY <1>1, NoThreads DEF Free, Goto, Serving, Teardown
<1> QED BY <1>1, <1>3, <1>4, FreeOK DEF IInv

LEMMA CreateOK == ASSUME IInv, NEW c \in Conn, Create(c) PROVE IInv'
<1>1. /\ pc[c] = "create" /\ RecordPresence(c)
      /\ UNCHANGED <<key, conns, dispose, late, threadVars>>
  BY DEF Create
<1>2. key[c] \in Key
  BY <1>1 DEF IInv, TypeOK
<1>3. PICK l \in {"ack", "refuse"} : pc' = [pc EXCEPT ![c] = l]
  BY DEF Create, Goto
<1>4. c \notin client
  BY <1>1 DEF IInv, ClientExactly, Serving, Teardown
<1>5. ListedExactly'
  BY <1>1, <1>3 DEF IInv, TypeOK, ListedExactly, Teardown
<1>6. \A d \in Conn : RecvOK(d)' /\ ConsumOK(d)'
  BY <1>1, <1>3, NoThreads DEF threadVars, Serving, Teardown
<1>9. PresenceOK' /\ online' \in [User -> Conn \cup {NoConn}] /\ erased' \subseteq client
  <2>1. clients' = clients \/ clients' = [clients EXCEPT ![key[c]] = c]
    BY DEF Create
  <2> QED BY <1>1, <1>2, <2>1, RecordedOK DEF RecordPresence, IInv, TypeOK
<1>7. CASE clients[key[c]] # NoConn
  <2>1. pc' = [pc EXCEPT ![c] = "refuse"] /\ UNCHANGED <<client, clients>>
    BY <1>7 DEF Create, Goto
  <2>2. TypeOK'
    BY <1>1, <1>2, <1>9, <2>1
    DEF IInv, TypeOK, Location, Early, Serving, Teardown, threadVars
  <2>3. ClientExactly' /\ RegistryOwned'
    BY <1>1, <1>4, <2>1
    DEF IInv, TypeOK, ClientExactly, RegistryOwned, Serving, Teardown
  <2> QED BY <1>5, <1>6, <1>9, <2>2, <2>3 DEF IInv
<1>8. CASE clients[key[c]] = NoConn
  <2>1. /\ pc' = [pc EXCEPT ![c] = "ack"] /\ client' = client \cup {c}
        /\ clients' = [clients EXCEPT ![key[c]] = c]
    BY <1>8 DEF Create, Goto
  <2>2. TypeOK'
    BY <1>1, <1>2, <1>9, <2>1
    DEF IInv, TypeOK, Location, Early, Serving, Teardown, threadVars
  <2>3. ClientExactly'
    BY <1>1, <2>1 DEF IInv, TypeOK, ClientExactly, Serving, Teardown
  <2>4. \A d \in client : key[d] # key[c]
    BY <1>8, ConnAssumption DEF IInv, TypeOK, RegistryOwned
  <2>5. RegistryOwned'
    BY <1>1, <1>2, <2>1, <2>4 DEF IInv, TypeOK, RegistryOwned
  <2> QED BY <1>5, <1>6, <1>9, <2>2, <2>3, <2>5 DEF IInv
<1> QED BY <1>7, <1>8
-----------------------------------------------------------------------------
(* A step of a served connection, which changes nothing but its place, its *)
(* threads and, when its teardown begins, the list it is in.               *)
LEMMA ServedStepOK ==
    ASSUME IInv, NEW c \in Conn, NEW l \in Serving \cup Teardown,
           pc[c] \in {"ack"} \cup Serving \cup Teardown,
           pc[c] \in Teardown => l \in Teardown,
           pc' = [pc EXCEPT ![c] = l],
           conns' = IF l \in Teardown THEN conns \ {c} ELSE conns,
           UNCHANGED <<key, client, clients, online, erased, dispose, recvAt, consumAt>>,
           late' \in {late, late \ {c}},
           can_play' \in {can_play, can_play \cup {c}, can_play \ {c}},
           NEW r \in ThreadRecord, recv' = [recv EXCEPT ![c] = r],
           NEW q \in ThreadRecord, consum' = [consum EXCEPT ![c] = q],
           RecvOK(c)', ConsumOK(c)'
    PROVE  IInv'
<1>1. key[c] \in Key
  BY DEF IInv, TypeOK
<1>2. TypeOK'
  BY <1>1 DEF IInv, TypeOK, Location
<1>3. ListedExactly' /\ ClientExactly'
  <2>1. \A d \in Conn : pc'[d] = IF d = c THEN l ELSE pc[d]
    BY DEF IInv, TypeOK
  <2>2. ListedExactly'
    BY <2>1 DEF IInv, ListedExactly, Serving, Teardown
  <2>3. ClientExactly'
    BY <2>1 DEF IInv, ClientExactly
  <2> QED BY <2>2, <2>3
<1>4. RegistryOwned' /\ PresenceOK'
  BY DEF IInv, RegistryOwned, PresenceOK, RegisteredIsOnline
<1>5. \A d \in Conn \ {c} :
          /\ pc'[d] = pc[d] /\ recv'[d] = recv[d] /\ consum'[d] = consum[d]
          /\ d \in can_play' <=> d \in can_play
  BY DEF IInv, TypeOK
<1>6. \A d \in Conn : RecvOK(d)' /\ ConsumOK(d)'
  BY <1>5, ThreadFrame
<1> QED BY <1>2, <1>3, <1>4, <1>6 DEF IInv

(* What may be started is a thread that does not run, and is not launched  *)
(* until it is scheduled; what a start() ends with keeps its place.        *)
LEMMA MayStartOK ==
    ASSUME NEW t \in ThreadRecord, Truthful(t), t.joinable,
           NEW s \in MayStart(t)
    PROVE  /\ s \in ThreadRecord /\ Truthful(s) /\ s.joinable
           /\ s.at \in {t.at, "new"}
BY StartCallOK DEF MayStart

LEMMA LaunchOK ==
    ASSUME NEW t \in ThreadRecord, Truthful(t), t.joinable
    PROVE  /\ Launch(t) \in ThreadRecord /\ Truthful(Launch(t))
           /\ Launch(t).joinable /\ Launch(t).at = t.at
           /\ Launch(t).joining = t.joining
BY StartReturnOK DEF Launch

(* When the wait of stop() is over the coroutine has ended.                *)
LEMMA StopReadyOK ==
    ASSUME NEW t \in ThreadRecord, Truthful(t), StopReady(t),
           t.at \in Running => t.joining
    PROVE  t.at \notin Running
BY DEF Truthful, StopReady, Running

LEMMA AckedOK == ASSUME IInv, NEW c \in Conn, Acked(c) PROVE IInv'
<1> DEFINE z == Constructed(TRUE)
<1>1. z \in ThreadRecord /\ Truthful(z) /\ z.joinable /\ z.at = "none"
  BY ConstructedOK DEF Constructed
<1> HIDE DEF z
<1>2. PICK r \in MayStart(z) : recv' = [recv EXCEPT ![c] = r]
  BY DEF Acked, z
<1>3. r \in ThreadRecord /\ Truthful(r) /\ r.joinable /\ r.at \in {"none", "new"}
  BY <1>1, MayStartOK
<1>4. /\ pc[c] = "ack" /\ pc' = [pc EXCEPT ![c] = "startRecv"]
      /\ consum' = [consum EXCEPT ![c] = z]
      /\ UNCHANGED <<key, conns, client, clients, recvAt, consumAt, can_play, sessionVars>>
  BY DEF Acked, Goto, z
<1>5. recv'[c] = r /\ consum'[c] = z /\ pc'[c] = "startRecv"
  BY <1>2, <1>4 DEF IInv, TypeOK
<1>6. RecvOK(c)' /\ ConsumOK(c)'
  BY <1>1, <1>3, <1>5 DEF RecvOK, ConsumOK, Serving, Teardown, Running
<1> QED
  BY <1>1, <1>2, <1>3, <1>4, <1>6, ServedStepOK DEF sessionVars, Serving, Teardown

LEMMA RecvStartedOK == ASSUME IInv, NEW c \in Conn, RecvStarted(c) PROVE IInv'
<1> DEFINE t == recv[c]
<1> DEFINE u == consum[c]
<1>1. /\ t \in ThreadRecord /\ Truthful(t) /\ t.joinable
      /\ u \in ThreadRecord /\ Truthful(u) /\ u.joinable
      /\ RecvOK(c) /\ ConsumOK(c)
  BY DEF IInv, TypeOK, RecvOK, ConsumOK
<1> DEFINE r == Launch(t)
<1>2. r \in ThreadRecord /\ Truthful(r) /\ r.joinable /\ r.at = t.at
  BY <1>1, LaunchOK
<1>3. t.at = "cycle" => r.can_run
  BY <1>1 DEF RecvOK, Launch, StartReturn, ThreadRecord
<1>4. /\ pc[c] = "startRecv" /\ pc' = [pc EXCEPT ![c] = "startConsum"]
      /\ recv' = [recv EXCEPT ![c] = r] /\ can_play' = can_play \cup {c}
      /\ UNCHANGED <<key, conns, client, clients, recvAt, consumAt, sessionVars>>
  BY DEF RecvStarted, Goto
<1> HIDE DEF r
<1>5. PICK q \in MayStart(u) : consum' = [consum EXCEPT ![c] = q]
  BY DEF RecvStarted
<1>6. q \in ThreadRecord /\ Truthful(q) /\ q.joinable /\ q.at \in {u.at, "new"}
  BY <1>1, MayStartOK
<1>7. recv'[c] = r /\ consum'[c] = q /\ pc'[c] = "startConsum" /\ c \in can_play'
  BY <1>4, <1>5 DEF IInv, TypeOK
<1>8. RecvOK(c)' /\ ConsumOK(c)'
  BY <1>1, <1>2, <1>3, <1>4, <1>6, <1>7
  DEF RecvOK, ConsumOK, Serving, Teardown, Running
<1> QED
  BY <1>2, <1>4, <1>5, <1>6, <1>8, ServedStepOK DEF sessionVars, Serving, Teardown

LEMMA ConsumStartedOK == ASSUME IInv, NEW c \in Conn, ConsumStarted(c) PROVE IInv'
<1> DEFINE t == recv[c]
<1> DEFINE u == consum[c]
<1>1. /\ t \in ThreadRecord /\ u \in ThreadRecord /\ Truthful(u) /\ u.joinable
      /\ RecvOK(c) /\ ConsumOK(c)
  BY DEF IInv, TypeOK, RecvOK, ConsumOK
<1> DEFINE q == Launch(u)
<1>2. q \in ThreadRecord /\ Truthful(q) /\ q.joinable /\ q.at = u.at
  BY <1>1, LaunchOK
<1>3. /\ pc[c] = "startConsum" /\ pc' = [pc EXCEPT ![c] = "loop"]
      /\ consum' = [consum EXCEPT ![c] = q] /\ late' = late \ {c}
      /\ UNCHANGED <<key, conns, client, clients, recv, recvAt, consumAt,
                     can_play, online, erased, dispose>>
  BY DEF ConsumStarted, Goto
<1> HIDE DEF q
<1>4. recv' = [recv EXCEPT ![c] = t] /\ consum'[c] = q /\ pc'[c] = "loop"
  BY <1>3 DEF IInv, TypeOK
<1>5. RecvOK(c)' /\ ConsumOK(c)'
  BY <1>1, <1>2, <1>3, <1>4 DEF RecvOK, ConsumOK, Serving, Teardown, Running
<1> QED
  BY <1>1, <1>2, <1>3, <1>4, <1>5, ServedStepOK DEF Serving, Teardown

LEMMA LeaveOK == ASSUME IInv, NEW c \in Conn, Leave(c) PROVE IInv'
<1> DEFINE t == recv[c]
<1> DEFINE u == consum[c]
<1>1. /\ t \in ThreadRecord /\ Truthful(t) /\ t.joinable /\ u \in ThreadRecord
      /\ RecvOK(c) /\ ConsumOK(c)
  BY DEF IInv, TypeOK, RecvOK, ConsumOK
<1> DEFINE r == StopCall(t)
<1>2. /\ r \in ThreadRecord /\ Truthful(r) /\ r.joinable /\ r.at = t.at
      /\ r.can_run = t.can_run
      /\ t.at \in Running => r.joining
  BY <1>1, StopCallOK
<1>3. /\ pc[c] = "loop" /\ pc' = [pc EXCEPT ![c] = "joinRecv"]
      /\ recv' = [recv EXCEPT ![c] = r] /\ conns' = conns \ {c}
      /\ UNCHANGED <<key, client, clients, consum, recvAt, consumAt, can_play, sessionVars>>
  BY DEF Leave, Goto
<1> HIDE DEF r
<1>4. recv'[c] = r /\ consum' = [consum EXCEPT ![c] = u] /\ pc'[c] = "joinRecv"
  BY <1>3 DEF IInv, TypeOK
<1>5. RecvOK(c)' /\ ConsumOK(c)'
  BY <1>1, <1>2, <1>3, <1>4 DEF RecvOK, ConsumOK, Serving, Teardown, Running
<1> QED
  BY <1>1, <1>2, <1>3, <1>4, <1>5, ServedStepOK DEF Serving, Teardown, sessionVars

LEMMA RecvJoinedOK == ASSUME IInv, NEW c \in Conn, RecvJoined(c) PROVE IInv'
<1> DEFINE t == recv[c]
<1> DEFINE u == consum[c]
<1>1. /\ t \in ThreadRecord /\ Truthful(t) /\ t.joinable
      /\ u \in ThreadRecord /\ Truthful(u) /\ u.joinable
      /\ RecvOK(c) /\ ConsumOK(c)
  BY DEF IInv, TypeOK, RecvOK, ConsumOK
<1> DEFINE r == StopReturn(t)
<1> DEFINE q == StopCall(u)
<1>2. /\ pc[c] = "joinRecv" /\ StopReady(t)
      /\ pc' = [pc EXCEPT ![c] = "joinConsum"]
      /\ recv' = [recv EXCEPT ![c] = r] /\ consum' = [consum EXCEPT ![c] = q]
      /\ can_play' = can_play \ {c}
      /\ UNCHANGED <<key, conns, client, clients, recvAt, consumAt, sessionVars>>
  BY DEF RecvJoined, Goto
<1>3. t.at \notin Running
  BY <1>1, <1>2, StopReadyOK DEF RecvOK
<1>4. /\ r \in ThreadRecord /\ Truthful(r) /\ r.joinable /\ r.at = t.at
  BY <1>1, <1>3, StopReturnOK
<1>5. /\ q \in ThreadRecord /\ Truthful(q) /\ q.joinable /\ q.at = u.at
      /\ u.at \in Running => q.joining /\ ~q.loop
  BY <1>1, StopCallOK DEF Truthful
<1> HIDE DEF r, q
<1>6. recv'[c] = r /\ consum'[c] = q /\ pc'[c] = "joinConsum" /\ conns' = conns \ {c}
  BY <1>2 DEF IInv, TypeOK, ListedExactly, Teardown
<1>7. RecvOK(c)' /\ ConsumOK(c)'
  BY <1>1, <1>3, <1>4, <1>5, <1>6 DEF RecvOK, ConsumOK, Serving, Teardown, Running
<1> QED
  BY <1>2, <1>4, <1>5, <1>6, <1>7, ServedStepOK DEF Serving, Teardown, sessionVars

LEMMA ConsumJoinedOK == ASSUME IInv, NEW c \in Conn, ConsumJoined(c) PROVE IInv'
<1> DEFINE t == recv[c]
<1> DEFINE u == consum[c]
<1>1. /\ u \in ThreadRecord /\ Truthful(u) /\ RecvOK(c) /\ ConsumOK(c)
  BY DEF IInv, TypeOK, RecvOK, ConsumOK
<1>2. /\ pc[c] = "joinConsum" /\ StopReady(u) /\ Free(c)
      /\ recv' = [recv EXCEPT ![c] = Deleted(t)]
      /\ consum' = [consum EXCEPT ![c] = Deleted(u)]
      /\ UNCHANGED <<conns, online, recvAt, consumAt>>
  BY DEF ConsumJoined
<1>3. u.at \notin Running /\ t.at \notin Running
  BY <1>1, <1>2, StopReadyOK DEF RecvOK, ConsumOK, Serving
<1> DEFINE z == Constructed(TRUE)
<1>4. Deleted(t) = z /\ Deleted(u) = z
  BY <1>3 DEF Deleted, Constructed
<1>5. z \in ThreadRecord /\ Truthful(z) /\ z.joinable /\ z.at = "none"
  BY ConstructedOK DEF Constructed
<1> HIDE DEF z
<1>6. clients' \in [Key -> Conn \cup {NoConn}]
  BY <1>2 DEF IInv, TypeOK, Free, Unregister
<1>7. TypeOK'
  BY <1>2, <1>4, <1>5, <1>6 DEF IInv, TypeOK, Free, Goto, Location, Early, Serving, Teardown
<1>8. conns' = conns \ {c}
  BY <1>2 DEF IInv, ListedExactly, Teardown
<1>9. recv'[c] = z /\ consum'[c] = z /\ pc'[c] = "none"
  BY <1>2, <1>4 DEF IInv, TypeOK, Free, Goto
<1>10. RecvOK(c)' /\ ConsumOK(c)'
  BY <1>5, <1>9 DEF RecvOK, ConsumOK, Running, Teardown
<1>11. \A d \in Conn \ {c} :
          /\ pc'[d] = pc[d] /\ recv'[d] = recv[d] /\ consum'[d] = consum[d]
          /\ d \in can_play' <=> d \in can_play
  BY <1>2 DEF IInv, TypeOK, Free, Goto
<1>12. \A d \in Conn : RecvOK(d)' /\ ConsumOK(d)'
  BY <1>10, <1>11, ThreadFrame
<1> QED BY <1>2, <1>7, <1>8, <1>12, FreeOK DEF IInv
-----------------------------------------------------------------------------
LEMMA InitIInv == Init => IInv
<1> SUFFICES ASSUME Init PROVE IInv
  OBVIOUS
<1> DEFINE z == Constructed(TRUE)
<1>1. z \in ThreadRecord /\ Truthful(z) /\ z.joinable /\ z.at = "none"
  BY ConstructedOK DEF Constructed
<1>2. recv = [c \in Conn |-> z] /\ consum = [c \in Conn |-> z]
  BY DEF Init
<1> HIDE DEF z
<1>3. TypeOK
  BY <1>1, <1>2 DEF Init, TypeOK, Location, Serving, Teardown
<1>4. ListedExactly /\ ClientExactly /\ RegistryOwned /\ PresenceOK
  BY DEF Init, ListedExactly, ClientExactly, RegistryOwned, PresenceOK, RegisteredIsOnline,
         Serving, Teardown
<1>5. \A c \in Conn : RecvOK(c) /\ ConsumOK(c)
  BY <1>1, <1>2 DEF Init, RecvOK, ConsumOK, Running
<1> QED BY <1>3, <1>4, <1>5 DEF IInv

LEMMA NextIInv == IInv /\ [Next]_vars => IInv'
<1> SUFFICES ASSUME IInv, [Next]_vars PROVE IInv'
  OBVIOUS
<1>1. CASE Next
  <2>1. PICK c \in Conn : Accept(c) \/ ConnStep(c) \/ RecvStep(c) \/ ConsumStep(c)
    BY <1>1 DEF Next
  <2>2. CASE ConnStep(c)
    BY <2>2, EarlyOK, AbandonOK, CreateOK, AckedOK, RecvStartedOK,
       ConsumStartedOK, LeaveOK, RecvJoinedOK, ConsumJoinedOK DEF ConnStep
  <2> QED BY <2>1, <2>2, AcceptOK, RecvStepOK, ConsumStepOK
<1>2. CASE UNCHANGED vars
  BY <1>2 DEF IInv, TypeOK, ListedExactly, ClientExactly, RegistryOwned, RecvOK,
     ConsumOK, PresenceOK, RegisteredIsOnline, vars, connVars, threadVars, sessionVars
<1> QED BY <1>1, <1>2

(* The strengthened invariant holds of every reachable state.             *)
THEOREM Inductive == Spec => []IInv
BY InitIInv, NextIInv, PTL DEF Spec

(* Every variable keeps its type, and a connection past its handshake has  *)
(* an identity.                                                            *)
THEOREM TypeCorrect == Spec => []TypeOK
<1>1. IInv => TypeOK
  BY DEF IInv
<1> QED BY <1>1, Inductive, PTL

(* LPushServer::conns holds no freed connection and misses no served one.  *)
THEOREM ListIsExact == Spec => []ListedExactly
<1>1. IInv => ListedExactly
  BY DEF IInv
<1> QED BY <1>1, Inductive, PTL

(* LPushSource::destroy(key), called by the destructor with nothing but    *)
(* the key, only ever erases the entry of that very connection.            *)
THEOREM RegistryIsOwned == Spec => []RegistryOwned
<1>1. IInv => RegistryOwned
  BY DEF IInv
<1> QED BY <1>1, Inductive, PTL

(* A registered client that nobody disposed of is present in Redis, unless *)
(* a session of its user under another identity has removed the presence.  *)
THEOREM RegisteredIsPresent == Spec => []RegisteredIsOnline
<1>1. IInv => RegisteredIsOnline
  BY DEF IInv, PresenceOK
<1> QED BY <1>1, Inductive, PTL

(* No coroutine of a connection outlives the connection: the destructor    *)
(* has joined both before it frees the object.                             *)
THEOREM NoUseAfterFree == Spec => []ThreadsInsideObject
<1>1. IInv => ThreadsInsideObject
  <2> SUFFICES ASSUME IInv, NEW c \in Conn
               PROVE  /\ recv[c].at \in Running => c \in client /\ Active(c)
                      /\ consum[c].at \in Running
                             => c \in client /\ pc[c] \in Serving \cup Teardown
    BY DEF ThreadsInsideObject
  <2>1. RecvOK(c) /\ ConsumOK(c) /\ ClientExactly
    BY DEF IInv
  <2> QED BY <2>1 DEF RecvOK, ConsumOK, ClientExactly, Active, Serving, Teardown
<1> QED BY <1>1, Inductive, PTL

(* thread_cycle() never retries the cycle() of a connection's thread.      *)
THEOREM OneCycle == Spec => []NeverRetries
<1>1. IInv => NeverRetries
  BY DEF IInv, RecvOK, ConsumOK, NeverRetries
<1> QED BY <1>1, Inductive, PTL

(* An entry of the registry disappears only with its connection, and is    *)
(* never overwritten.                                                      *)
THEOREM HandedOver == Spec => RegistryHandover
<1> DEFINE Kept == \A k \in Key : clients[k] # NoConn /\ clients'[k] # clients[k] =>
                       clients'[k] = NoConn /\ pc'[clients[k]] = "none"
<1>1. IInv /\ [Next]_vars => [Kept]_vars
  <2> SUFFICES ASSUME IInv, Next PROVE Kept
    OBVIOUS
  <2>1. PICK c \in Conn : Accept(c) \/ ConnStep(c) \/ RecvStep(c) \/ ConsumStep(c)
    BY DEF Next
  <2>2. CASE Free(c)
    <3>1. \A k \in Key : clients'[k] # clients[k] => clients[k] = c /\ clients'[k] = NoConn
      BY <2>2 DEF Free, Unregister, IInv, TypeOK, RegistryOwned
    <3>2. pc'[c] = "none"
      BY <2>2 DEF Free, Goto, IInv, TypeOK
    <3> QED BY <3>1, <3>2
  <2>3. CASE Create(c)
    BY <2>3 DEF Create, IInv, TypeOK
  <2>4. UNCHANGED clients \/ Free(c) \/ Create(c)
    <3>1. CASE RecvStep(c)
      BY <3>1 DEF RecvStep, RecvSchedule, RecvPassGate, RecvHeartbeat, RecvClose,
         RecvOther, RecvTakes, RecvFails, RecvWakes, connVars
    <3>2. CASE ConsumStep(c)
      BY <3>2 DEF ConsumStep, ConsumSchedule, ConsumPassGate, ConsumPolls,
         ConsumPops, ConsumWrote, ConsumFails, connVars
    <3>3. CASE ConnStep(c)
      BY <3>3 DEF ConnStep, HandshakeFails, Handshake, Shaken, Abandon, Drop, Acked,
         RecvStarted, ConsumStarted, Leave, RecvJoined, ConsumJoined
    <3> QED BY <2>1, <3>1, <3>2, <3>3 DEF Accept
  <2> QED BY <2>2, <2>3, <2>4
<1> QED BY <1>1, Inductive, PTL DEF Spec, RegistryHandover
-----------------------------------------------------------------------------
(* The number of listed connections stays within conf->maxconnect.         *)
THEOREM LimitKept == Spec => []WithinLimit
<1> DEFINE Bounded == IInv /\ WithinLimit
<1>1. Init => Bounded
  <2>1. Init => conns = {}
    BY DEF Init
  <2> QED BY <2>1, InitIInv, FS_EmptySet, MaxAssumption DEF WithinLimit
<1>2. Bounded /\ [Next]_vars => Bounded'
  <2> SUFFICES ASSUME Bounded, [Next]_vars PROVE WithinLimit'
    BY NextIInv
  <2>1. IsFiniteSet(conns)
    BY ConnAssumption, FS_Subset DEF IInv, TypeOK
  <2>2. CASE conns' \subseteq conns
    BY <2>1, <2>2, FS_Subset, FS_CardinalityType, MaxAssumption DEF WithinLimit
  <2>3. CASE \E c \in Conn : Accept(c)
    <3>1. PICK c \in Conn : Cardinality(conns) < MaxConnect /\ conns' = conns \cup {c}
      BY <2>3 DEF Accept
    <3>2. Cardinality(conns) \in Nat
      BY <2>1, FS_CardinalityType
    <3>3. Cardinality(conns') \in {Cardinality(conns), Cardinality(conns) + 1}
      BY <2>1, <3>1, FS_AddElement
    <3> QED BY <3>1, <3>2, <3>3, MaxAssumption DEF WithinLimit
  <2>4. conns' \subseteq conns \/ \E c \in Conn : Accept(c)
    <3>1. ASSUME NEW c \in Conn, RecvStep(c) PROVE conns' = conns
      BY <3>1 DEF RecvStep, RecvSchedule, RecvPassGate, RecvHeartbeat, RecvClose,
         RecvOther, RecvTakes, RecvFails, RecvWakes, connVars
    <3>2. ASSUME NEW c \in Conn, ConsumStep(c) PROVE conns' = conns
      BY <3>2 DEF ConsumStep, ConsumSchedule, ConsumPassGate, ConsumPolls,
         ConsumPops, ConsumWrote, ConsumFails, connVars
    <3>3. ASSUME NEW c \in Conn, ConnStep(c) PROVE conns' \in {conns, conns \ {c}}
      BY <3>3 DEF ConnStep, HandshakeFails, Handshake, Shaken, Abandon, Drop, Create,
         Acked, RecvStarted, ConsumStarted, Leave, RecvJoined, ConsumJoined
    <3> QED BY <3>1, <3>2, <3>3 DEF Next, vars, connVars
  <2> QED BY <2>2, <2>3, <2>4
<1>3. Bounded => WithinLimit
  OBVIOUS
<1> QED BY <1>1, <1>2, <1>3, PTL DEF Spec
-----------------------------------------------------------------------------
(* A presence that is not written again.  Once the receive thread of a     *)
(* disposed connection has left its cycle() nobody is left to record its   *)
(* presence for it.                                                        *)
Session(c) ==
    /\ c \in dispose \cup late => pc[c] \in Serving \cup Teardown
    /\ c \in late => c \in dispose \/ recv[c].at = "cycle"
    /\ pc[c] \in Teardown => c \in dispose \/ recv[c].at = "cycle"
    /\ c \in dispose /\ recv[c].at # "cycle" => online[UserOf[key[c]]] # c

Sessions == \A c \in Conn : Session(c)

(* A step of connection c leaves the sessions of the others alone.         *)
LEMMA SessionFrame ==
    ASSUME IInv, Sessions, NEW c \in Conn, Session(c)',
           \A u \in User : online'[u] \in {online[u], c, NoConn},
           \A d \in Conn \ {c} :
               /\ pc'[d] = pc[d] /\ key'[d] = key[d] /\ recv'[d] = recv[d]
               /\ d \in dispose' <=> d \in dispose
               /\ d \in late' <=> d \in late
    PROVE  Sessions'
<1>1. ASSUME NEW d \in Conn \ {c} PROVE Session(d)'
  <2>1. d \in dispose => UserOf[key[d]] \in User
    BY UserAssumption DEF Sessions, Session, IInv, TypeOK
  <2>2. d # c /\ d # NoConn /\ Session(d)
    BY ConnAssumption DEF Sessions
  <2> QED BY <1>1, <2>1, <2>2 DEF Session
<1> QED BY <1>1 DEF Sessions

(* What a step writes into the presence sets names its connection or none. *)
LEMMA PresenceStep ==
    ASSUME IInv, NEW c \in Conn,
           UNCHANGED online \/ RecordPresence(c) \/ RemovePresence(c)
    PROVE  \A u \in User : online'[u] \in {online[u], c, NoConn}
BY DEF IInv, TypeOK, RecordPresence, RemovePresence

(* Outside the time it is served a connection has no session to end.       *)
LEMMA QuietSession ==
    ASSUME NEW c \in Conn, c \notin dispose', c \notin late', pc'[c] \notin Teardown
    PROVE  Session(c)'
BY DEF Session

LEMMA EarlySession ==
    ASSUME IInv, Sessions, NEW c \in Conn,
           \/ Accept(c) \/ HandshakeFails(c) \/ (\E k \in Key : Handshake(c, k))
           \/ Shaken(c) \/ Create(c) \/ Acked(c)
    PROVE  Sessions'
<1>1. /\ pc[c] \notin Serving \cup Teardown /\ UNCHANGED <<dispose, late>>
      /\ \E l \in Location \ Teardown : pc' = [pc EXCEPT ![c] = l]
      /\ \A d \in Conn \ {c} : recv'[d] = recv[d] /\ key'[d] = key[d]
      /\ UNCHANGED online \/ RecordPresence(c)
  BY DEF Accept, HandshakeFails, Handshake, Shaken, Create, Acked, Goto, IInv,
     TypeOK, Location, Early, Serving, Teardown, threadVars, sessionVars
<1>2. c \notin dispose' /\ c \notin late'
  BY <1>1 DEF Sessions, Session
<1>3. pc'[c] \notin Teardown /\ \A d \in Conn \ {c} : pc'[d] = pc[d]
  BY <1>1 DEF IInv, TypeOK
<1>4. Session(c)'
  BY <1>2, <1>3, QuietSession
<1> QED BY <1>1, <1>3, <1>4, PresenceStep, SessionFrame

LEMMA FreedSession ==
    ASSUME IInv, Sessions, NEW c \in Conn, Free(c), UNCHANGED online,
           \A d \in Conn \ {c} : recv'[d] = recv[d]
    PROVE  Sessions'
<1>1. /\ pc'[c] = "none" /\ c \notin dispose' /\ c \notin late'
      /\ \A d \in Conn \ {c} :
             /\ pc'[d] = pc[d] /\ key'[d] = key[d]
             /\ d \in dispose' <=> d \in dispose
             /\ d \in late' <=> d \in late
  BY DEF Free, Goto, IInv, TypeOK
<1>2. Session(c)'
  BY <1>1, QuietSession DEF Teardown
<1> QED BY <1>1, <1>2, PresenceStep, SessionFrame

(* The connection's own coroutine moves on; its receive thread does not.   *)
LEMMA ServedSession ==
    ASSUME IInv, Sessions, NEW c \in Conn,
           \/ RecvStarted(c) \/ ConsumStarted(c) \/ Leave(c) \/ RecvJoined(c)
    PROVE  Sessions'
<1>1. /\ recv[c] \in ThreadRecord /\ RecvOK(c) /\ Session(c)
      /\ recv[c].at \in Running /\ pc[c] = "joinRecv" => recv[c].joining
  BY DEF IInv, TypeOK, RecvOK, Sessions
<1>2. /\ UNCHANGED <<key, online, dispose>> /\ late' \in {late, late \ {c}}
      /\ pc' \in {[pc EXCEPT ![c] = l] : l \in Serving \cup Teardown}
      /\ \E r \in ThreadRecord : r.at = recv[c].at /\ recv' = [recv EXCEPT ![c] = r]
      /\ pc'[c] \in Teardown => pc[c] \in Teardown \/ c \in dispose \cup late
  <2>1. CASE RecvStarted(c)
    BY <1>1, <2>1, LaunchOK
    DEF RecvStarted, Goto, Serving, Teardown, sessionVars, RecvOK, IInv, TypeOK
  <2>2. CASE ConsumStarted(c)
    <3>1. recv' = [recv EXCEPT ![c] = recv[c]]
      BY <2>2 DEF ConsumStarted, IInv, TypeOK
    <3> QED
      BY <1>1, <2>2, <3>1 DEF ConsumStarted, Goto, Serving, Teardown, IInv, TypeOK
  <2>3. CASE Leave(c)
    BY <1>1, <2>3, StopCallOK
    DEF Leave, Goto, Serving, Teardown, sessionVars, RecvOK, IInv, TypeOK
  <2>4. CASE RecvJoined(c)
    <3>1. recv[c].at \notin Running
      BY <1>1, <2>4, StopReadyOK DEF RecvJoined, RecvOK
    <3>2. StopReturn(recv[c]) \in ThreadRecord /\ StopReturn(recv[c]).at = recv[c].at
      BY <1>1, <3>1, StopReturnOK DEF RecvOK
    <3> QED
      BY <2>4, <3>2 DEF RecvJoined, Goto, Serving, Teardown, sessionVars, IInv, TypeOK
  <2> QED BY <2>1, <2>2, <2>3, <2>4
<1>3. /\ pc'[c] \in Serving \cup Teardown /\ recv'[c].at = recv[c].at
      /\ \A d \in Conn \ {c} : pc'[d] = pc[d] /\ recv'[d] = recv[d]
  BY <1>2 DEF IInv, TypeOK
<1>4. Session(c)'
  BY <1>1, <1>2, <1>3 DEF Session
<1> QED BY <1>2, <1>3, <1>4, PresenceStep, SessionFrame

(* The receive thread leaves its cycle() only through do_dispose(): the    *)
(* other way out, an interrupted sleep, needs can_run cleared, and that is *)
(* what stop() does after the thread has ended.                            *)
LEMMA RecvSession ==
    ASSUME IInv, Sessions, NEW c \in Conn, RecvStep(c)
    PROVE  Sessions'
<1>1. recv[c] \in ThreadRecord /\ RecvOK(c) /\ Session(c)
  BY DEF IInv, TypeOK, Sessions
<1>2. /\ UNCHANGED <<pc, key>>
      /\ UNCHANGED online \/ RecordPresence(c) \/ RemovePresence(c)
      /\ \A d \in Conn \ {c} :
             /\ recv'[d] = recv[d]
             /\ d \in dispose' <=> d \in dispose
             /\ d \in late' <=> d \in late
  <2>1. CASE RecvSchedule(c) \/ RecvPassGate(c) \/ RecvWakes(c)
    BY <2>1 DEF RecvSchedule, RecvPassGate, RecvWakes, connVars, sessionVars, IInv, TypeOK
  <2>2. CASE RecvHeartbeat(c) \/ RecvClose(c) \/ RecvOther(c)
    BY <2>2 DEF RecvHeartbeat, RecvClose, RecvOther, RecvTakes, NewTimes, DoDispose,
       connVars, IInv, TypeOK
  <2>3. CASE RecvFails(c)
    BY <2>3 DEF RecvFails, NewTimes, DoDispose, connVars, IInv, TypeOK
  <2> QED BY <2>1, <2>2, <2>3 DEF RecvStep
<1>3. Session(c)'
  <2>1. CASE RecvSchedule(c) \/ RecvPassGate(c)
    BY <1>1, <1>2, <2>1 DEF RecvSchedule, RecvPassGate, sessionVars, Session
  <2>2. CASE RecvHeartbeat(c) \/ RecvClose(c) \/ RecvOther(c)
    <3>1. recv' = recv /\ recv[c].at = "cycle" /\ Active(c)
      BY <2>2 DEF RecvHeartbeat, RecvClose, RecvOther, RecvTakes
    <3> QED BY <1>2, <3>1 DEF Session, Active, Teardown
  <2>3. CASE RecvFails(c)
    <3>1. c \in dispose' /\ online'[UserOf[key[c]]] = NoConn
      BY <1>1, <2>3, UserAssumption
      DEF RecvFails, DoDispose, RemovePresence, IInv, TypeOK, RecvOK, Running, Teardown
    <3>2. pc[c] \in Serving \cup Teardown
      BY <1>1, <2>3 DEF RecvFails, RecvOK, Running, Teardown
    <3> QED BY <1>2, <3>1, <3>2, ConnAssumption DEF Session
  <2>4. CASE RecvWakes(c)
    <3>1. recv' = [recv EXCEPT ![c].intr = FALSE] /\ recv[c].at = "cycle"
      BY <1>1, <2>4 DEF RecvWakes, RecvOK, Interrupted
    <3>2. recv'[c].at = "cycle"
      BY <1>1, <3>1 DEF IInv, TypeOK, ThreadRecord
    <3> QED BY <1>1, <1>2, <2>4, <3>1, <3>2 DEF RecvWakes, sessionVars, Session
  <2> QED BY <2>1, <2>2, <2>3, <2>4 DEF RecvStep
<1> QED BY <1>2, <1>3, PresenceStep, SessionFrame

LEMMA ConsumSession ==
    ASSUME IInv, Sessions, NEW c \in Conn, ConsumStep(c)
    PROVE  Sessions'
<1>1. ConsumOK(c) /\ Session(c)
  BY DEF IInv, Sessions
<1>2. CASE ConsumFails(c)
  <2>1. /\ UNCHANGED <<pc, key, recv, late>>
        /\ dispose' = dispose \cup {c} /\ RemovePresence(c)
    BY <1>2 DEF ConsumFails, DoDispose, connVars
  <2>2. pc[c] \in Serving \cup Teardown
    BY <1>1, <1>2 DEF ConsumFails, ConsumOK, Running, Serving
  <2>3. online'[UserOf[key[c]]] = NoConn
    BY <2>1, <2>2, UserAssumption DEF RemovePresence, IInv, TypeOK
  <2>4. Session(c)'
    BY <2>1, <2>2, <2>3, ConnAssumption DEF Session
  <2> QED BY <2>1, <2>4, PresenceStep, SessionFrame
<1>3. CASE ~ConsumFails(c)
  <2>1. UNCHANGED <<pc, key, recv, sessionVars>>
    BY <1>3 DEF ConsumStep, ConsumSchedule, ConsumPassGate, ConsumPolls,
       ConsumPops, ConsumWrote, connVars
  <2> QED BY <2>1 DEF Sessions, Session, sessionVars
<1> QED BY <1>2, <1>3

LEMMA SessionsKept == IInv /\ Sessions /\ [Next]_vars => Sessions'
<1> SUFFICES ASSUME IInv, Sessions, [Next]_vars PROVE Sessions'
  OBVIOUS
<1>1. CASE Next
  <2>1. PICK c \in Conn : Accept(c) \/ ConnStep(c) \/ RecvStep(c) \/ ConsumStep(c)
    BY <1>1 DEF Next
  <2>2. CASE Abandon(c) \/ ConsumJoined(c)
    <3>1. /\ Free(c) /\ UNCHANGED online
          /\ \A d \in Conn \ {c} : recv'[d] = recv[d]
      BY <2>2 DEF Abandon, Drop, ConsumJoined, IInv, TypeOK
    <3> QED BY <3>1, FreedSession
  <2> QED BY <2>1, <2>2, EarlySession, ServedSession, RecvSession, ConsumSession
      DEF ConnStep
<1>2. CASE UNCHANGED vars
  BY <1>2 DEF Sessions, Session, vars, connVars, threadVars, sessionVars
<1> QED BY <1>1, <1>2

(* When a served connection is freed, what is left in the presence sets    *)
(* was not written by it, whichever of its coroutines failed first and     *)
(* however late a heartbeat came in.                                       *)
THEOREM LogoutIsClean == Spec => CleanLogout
<1> DEFINE Clean == \A c \in Conn :
              pc[c] = "joinConsum" /\ pc'[c] = "none" => online'[UserOf[key[c]]] # c
<1>1. Init => Sessions
  BY DEF Init, Sessions, Session, Teardown
<1>2. IInv /\ Sessions /\ [Next]_vars => [Clean]_vars
  <2> SUFFICES ASSUME IInv, Sessions, Next, NEW c \in Conn, pc[c] = "joinConsum",
                      pc'[c] = "none"
               PROVE  online'[UserOf[key[c]]] # c
    OBVIOUS
  <2>1. PICK d \in Conn : Accept(d) \/ ConnStep(d) \/ RecvStep(d) \/ ConsumStep(d)
    BY DEF Next
  <2>2. ConsumJoined(c)
    <3>1. CASE Free(d)
      <4>1. c = d
        BY <3>1 DEF Free, Goto, IInv, TypeOK
      <4> QED BY <2>1, <3>1, <4>1
          DEF Accept, ConnStep, RecvStep, ConsumStep, HandshakeFails, Handshake,
          Shaken, Abandon, Create, Acked, RecvStarted, ConsumStarted, Leave,
          RecvJoined, RecvSchedule, RecvPassGate, RecvHeartbeat, RecvClose,
          RecvOther, RecvTakes, RecvFails, RecvWakes, ConsumSchedule,
          ConsumPassGate, ConsumPolls, ConsumPops, ConsumWrote, ConsumFails, connVars
    <3>2. CASE UNCHANGED pc
      BY <3>2
    <3>3. CASE \E l \in Location \ {"none"} : pc' = [pc EXCEPT ![d] = l]
      BY <3>3 DEF IInv, TypeOK
    <3>4. RecvStep(d) \/ ConsumStep(d) => UNCHANGED pc
      BY DEF RecvStep, ConsumStep, RecvSchedule, RecvPassGate, RecvHeartbeat, RecvClose,
         RecvOther, RecvTakes, RecvFails, RecvWakes, ConsumSchedule, ConsumPassGate,
         ConsumPolls, ConsumPops, ConsumWrote, ConsumFails, connVars
    <3>5. Accept(d) \/ ConnStep(d) => \/ Free(d)
                                     \/ \E l \in Location \ {"none"} : pc' = [pc EXCEPT ![d] = l]
      BY DEF Accept, ConnStep, HandshakeFails, Handshake, Shaken, Abandon, Drop, Create,
         Acked, RecvStarted, ConsumStarted, Leave, RecvJoined, ConsumJoined, Goto,
         Location, Early, Serving, Teardown
    <3> QED BY <2>1, <3>1, <3>2, <3>3, <3>4, <3>5
  <2>3. c \in dispose /\ key[c] \in Key /\ recv[c].at # "cycle"
    BY DEF Sessions, Session, IInv, TypeOK, RecvOK, Running, Serving, Teardown
  <2> QED BY <2>2, <2>3 DEF Sessions, Session, ConsumJoined
<1> QED BY <1>1, <1>2, InitIInv, NextIInv, SessionsKept, PTL DEF Spec, CleanLogout
=============================================================================
