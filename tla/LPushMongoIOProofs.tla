------------------------- MODULE LPushMongoIOProofs -------------------------
(***************************************************************************)
(* What the history thread does, for any connections, identities, tasks    *)
(* and page size.                                                          *)
(***************************************************************************)
EXTENDS LPushMongoIO, LPushLemmas

Tasks == ToSet(Collection)

Distinct(s) == \A i, j \in 1 .. Len(s) : s[i] = s[j] => i = j

(* The owner of a request in the queue points to it and is served.         *)
Owned ==
    \A a \in ToSet(queue) : /\ heap[a] \in Conns
                            /\ mie[heap[a]] = a
                            /\ conn[heap[a]] = "served"

(* At most one session of an identity is registered at a time.             *)
Single ==
    \A c, d \in Conns :
        User[c] = User[d] /\ c \in Registered(User[c]) /\ d \in Registered(User[d])
        => c = d

(* Nothing was pushed to a connection before its request was popped.       *)
Fresh ==
    /\ history \in [Conns -> Seq(Tasks)]
    /\ \A c \in Conns : conn[c] \in {"new", "registered"} => history[c] = << >>
    /\ \A a \in ToSet(queue) : history[heap[a]] = << >>

(* The thread pages for a session that is served, that has no request left, *)
(* and whose user has more than a page.                                    *)
PagesLongHistory ==
    paging # None =>
        /\ conn[paging] = "served"
        /\ \A a \in ToSet(queue) : heap[a] # paging
        /\ Len(Matching(Collection, Query(User[paging]))) > PageSize

(* Until a first request is popped every pointer is the connection's own.  *)
OwnUntilPopped ==
    taken = {} => \A c \in Conns : conn[c] = "served" => /\ mie[c] \in ToSet(queue)
                                                         /\ heap[mie[c]] = c

IInv == /\ TypeOK /\ Distinct(queue) /\ Owned /\ Single /\ Fresh
        /\ PagesLongHistory /\ OwnUntilPopped /\ HistoryOnce
-----------------------------------------------------------------------------
(* What happens to the elements of a queue that has none twice.            *)
LEMMA EmptyQueue ==
    ASSUME NEW S
    PROVE  << >> \in Seq(S) /\ Distinct(<< >>) /\ ToSet(<< >>) = {}
BY DEF Distinct, ToSet

LEMMA ElementOfQueue ==
    ASSUME NEW S, NEW s \in Seq(S), NEW i \in 1 .. Len(s)
    PROVE  s[i] \in S /\ s[i] \in ToSet(s)
BY DEF ToSet

LEMMA QueueOfElements ==
    ASSUME NEW S, NEW s \in Seq(S)
    PROVE  ToSet(s) \subseteq S /\ \A a \in ToSet(s) : \E i \in 1 .. Len(s) : s[i] = a
BY DEF ToSet

LEMMA PushedQueue ==
    ASSUME NEW S, NEW s \in Seq(S), NEW a \in S, Distinct(s), a \notin ToSet(s)
    PROVE  /\ Append(s, a) \in Seq(S)
           /\ Distinct(Append(s, a))
           /\ ToSet(Append(s, a)) = ToSet(s) \cup {a}
<1>1. /\ Append(s, a) \in Seq(S)
      /\ Len(s) \in Nat /\ Len(Append(s, a)) = Len(s) + 1
      /\ \A i \in 1 .. Len(s) : Append(s, a)[i] = s[i] /\ s[i] # a
      /\ Append(s, a)[Len(s) + 1] = a
    BY DEF ToSet
<1>2. Distinct(Append(s, a))
    BY <1>1 DEF Distinct
<1>3. ToSet(Append(s, a)) = ToSet(s) \cup {a}
    BY <1>1 DEF ToSet
<1> QED BY <1>1, <1>2, <1>3

LEMMA PoppedQueue ==
    ASSUME NEW S, NEW s \in Seq(S), Distinct(s), s # << >>
    PROVE  /\ Tail(s) \in Seq(S)
           /\ Distinct(Tail(s))
           /\ Head(s) \in ToSet(s)
           /\ ToSet(Tail(s)) = ToSet(s) \ {Head(s)}
<1>1. /\ Tail(s) \in Seq(S) /\ Len(s) \in Nat \ {0} /\ Len(Tail(s)) = Len(s) - 1
      /\ \A i \in 1 .. Len(s) - 1 : Tail(s)[i] = s[i + 1]
      /\ Head(s) = s[1]
    OBVIOUS
<1>2. Distinct(Tail(s))
    <2> SUFFICES ASSUME NEW i \in 1 .. Len(Tail(s)), NEW j \in 1 .. Len(Tail(s)),
                        Tail(s)[i] = Tail(s)[j]
                 PROVE  i = j
        BY DEF Distinct
    <2>1. i + 1 \in 1 .. Len(s) /\ j + 1 \in 1 .. Len(s) /\ s[i + 1] = s[j + 1]
        BY <1>1
    <2>2. i + 1 = j + 1
        BY <2>1 DEF Distinct
    <2> QED BY <1>1, <2>2
<1>3. Head(s) \in ToSet(s)
    BY <1>1 DEF ToSet
<1>4. ASSUME NEW a \in ToSet(Tail(s)) PROVE a \in ToSet(s) \ {Head(s)}
    <2>1. PICK i \in 1 .. Len(Tail(s)) : Tail(s)[i] = a
        BY <1>1, <1>4 DEF ToSet
    <2>2. i + 1 \in 1 .. Len(s) /\ s[i + 1] = a /\ 1 \in 1 .. Len(s) /\ i + 1 # 1
        BY <1>1, <2>1
    <2>3. s[i + 1] # s[1]
        BY <2>2 DEF Distinct
    <2> QED BY <1>1, <2>2, <2>3, ElementOfQueue
<1>5. ASSUME NEW a \in ToSet(s) \ {Head(s)} PROVE a \in ToSet(Tail(s))
    <2>1. PICK i \in 1 .. Len(s) : s[i] = a
        BY QueueOfElements
    <2>2. i # 1
        BY <1>1, <1>5, <2>1
    <2>3. i - 1 \in 1 .. Len(Tail(s)) /\ Tail(s)[i - 1] = a
        BY <1>1, <2>1, <2>2
    <2> QED BY <1>1, <2>3, ElementOfQueue
<1> QED BY <1>1, <1>2, <1>3, <1>4, <1>5

LEMMA TakenFromQueue ==
    ASSUME NEW S, NEW s \in Seq(S), NEW k \in 1 .. Len(s), Distinct(s)
    PROVE  /\ RemoveAt(s, k) \in Seq(S)
           /\ Distinct(RemoveAt(s, k))
           /\ ToSet(RemoveAt(s, k)) = ToSet(s) \ {s[k]}
<1> DEFINE r == RemoveAt(s, k)
           old(i) == IF i < k THEN i ELSE i + 1
<1>1. /\ r \in Seq(S) /\ Len(s) \in Nat /\ Len(r) = Len(s) - 1
      /\ \A i \in 1 .. Len(s) - 1 : r[i] = s[old(i)]
    <2> DEFINE f == SubSeq(s, 1, k - 1)
               g == SubSeq(s, k + 1, Len(s))
    <2>1. f \in Seq(S) /\ Len(f) = k - 1 /\ \A i \in 1 .. k - 1 : f[i] = s[i]
        OBVIOUS
    <2>2. /\ g \in Seq(S) /\ Len(g) = Len(s) - k
          /\ \A i \in 1 .. Len(s) - k : g[i] = s[k + i]
        OBVIOUS
    <2>3. r = f \o g
        BY DEF RemoveAt
    <2> HIDE DEF f, g, r
    <2>4. r \in Seq(S) /\ Len(r) = Len(s) - 1
        BY <2>1, <2>2, <2>3
    <2>5. ASSUME NEW i \in 1 .. Len(s) - 1 PROVE r[i] = s[old(i)]
        <3>1. CASE i < k
            BY <2>1, <2>2, <2>3, <3>1
        <3>2. CASE i >= k
            <4>1. i - (k - 1) \in 1 .. Len(s) - k /\ r[i] = g[i - (k - 1)]
                BY <2>1, <2>2, <2>3, <3>2
            <4>2. k + (i - (k - 1)) = i + 1
                OBVIOUS
            <4> QED BY <2>2, <3>2, <4>1, <4>2
        <3> QED BY <3>1, <3>2
    <2> QED BY <2>4, <2>5
<1> HIDE DEF r
<1>2. Distinct(r)
    <2> SUFFICES ASSUME NEW i \in 1 .. Len(r), NEW j \in 1 .. Len(r), r[i] = r[j]
                 PROVE  i = j
        BY DEF Distinct
    <2>1. old(i) \in 1 .. Len(s) /\ old(j) \in 1 .. Len(s) /\ s[old(i)] = s[old(j)]
        BY <1>1
    <2>2. old(i) = old(j)
        BY <2>1 DEF Distinct
    <2> QED BY <2>2
<1>3. ASSUME NEW a \in ToSet(r) PROVE a \in ToSet(s) \ {s[k]}
    <2>1. PICK i \in 1 .. Len(r) : r[i] = a
        BY <1>1, <1>3, QueueOfElements
    <2>2. old(i) \in 1 .. Len(s) /\ s[old(i)] = a /\ old(i) # k
        BY <1>1, <2>1
    <2>3. s[old(i)] # s[k]
        BY <2>2 DEF Distinct
    <2> QED BY <2>2, <2>3, ElementOfQueue
<1>4. ASSUME NEW a \in ToSet(s) \ {s[k]} PROVE a \in ToSet(r)
    <2>1. PICK i \in 1 .. Len(s) : s[i] = a
        BY QueueOfElements
    <2>2. i # k
        BY <1>4, <2>1
    <2> DEFINE j == IF i < k THEN i ELSE i - 1
    <2>3. j \in 1 .. Len(r) /\ old(j) = i
        BY <1>1, <2>2
    <2>4. r[j] = a
        BY <1>1, <2>1, <2>3
    <2> QED BY <1>1, <2>3, <2>4, ElementOfQueue
<1> QED BY <1>1, <1>2, <1>3, <1>4 DEF r

(* A page holds tasks of the collection, and of a user with at most a page *)
(* it holds all, or none when the query fails.                             *)
LEMMA PageFacts ==
    ASSUME NEW ok \in BOOLEAN, NEW u
    PROVE  /\ Page(ok, u) \in Seq(Tasks)
           /\ Len(Matching(Collection, Query(u))) <= PageSize
                => Page(ok, u) \in {<< >>, Matching(Collection, Query(u))}
<1> DEFINE m == Matching(Collection, Query(u))
           all == IF ok THEN m ELSE << >>
           last == IF PageSize < Len(all) THEN PageSize ELSE Len(all)
<1>1. m \in Seq(Tasks)
    BY CollectionAssumption, MatchingFacts DEF Tasks
<1> HIDE DEF m
<1>2. all \in Seq(Tasks)
    BY <1>1
<1>3. PageSize \in Nat
    BY BoundAssumption
<1>4. Page(ok, u) = SubSeq(all, 1, last)
    <2>1. 1 * PageSize = PageSize /\ (1 - 1) * PageSize + 1 = 1
        BY <1>3
    <2> QED BY <2>1 DEF Page, QueryToListJsonLimit, QueryToListJson, m
<1> HIDE DEF all
<1>5. last \in 0 .. Len(all)
    BY <1>2, <1>3
<1>6. SubSeq(all, 1, last) \in Seq(Tasks)
    BY <1>2, <1>5
<1>7. ASSUME Len(m) <= PageSize PROVE SubSeq(all, 1, last) = all
    <2>1. last = Len(all)
        BY <1>1, <1>2, <1>3, <1>7 DEF all
    <2> QED BY <1>2, <2>1
<1> QED BY <1>4, <1>6, <1>7 DEF m, all
-----------------------------------------------------------------------------
(* A session is alone with its identity, and remains so while the others   *)
(* only move along, out of the registry in the end.                        *)
LEMMA SingleKept ==
    ASSUME Single, NEW c \in Conns, NEW stage,
           conn \in [Conns -> Stage],
           stage \in {"registered", "served", "leaving"} =>
               \/ conn[c] \in {"registered", "served", "leaving"}
               \/ Registered(User[c]) = {},
           conn' = [conn EXCEPT ![c] = stage]
    PROVE  Single'
BY DEF Single, Registered

(* Nobody is there yet, and nothing is queued.                             *)
LEMMA InitIInv == Init => IInv
<1> SUFFICES ASSUME Init PROVE IInv
    OBVIOUS
<1>1. queue \in Seq(Addr) /\ Distinct(queue) /\ ToSet(queue) = {}
    BY EmptyQueue DEF Init
<1>2. TypeOK
    BY <1>1 DEF Init, TypeOK, Stage
<1>3. Owned /\ Single /\ PagesLongHistory /\ OwnUntilPopped
    BY <1>1 DEF Init, Owned, Single, Registered, PagesLongHistory, OwnUntilPopped
<1>4. Fresh
    <2>1. << >> \in Seq(Tasks)
        OBVIOUS
    <2> QED BY <1>1, <2>1 DEF Init, Fresh
<1>5. HistoryOnce
    BY DEF Init, HistoryOnce
<1> QED BY <1>1, <1>2, <1>3, <1>4, <1>5 DEF IInv

LEMMA RegisterKeeps ==
    ASSUME IInv, NEW c \in Conns, Register(c) PROVE IInv'
<1>1. ToSet(queue)' = ToSet(queue) /\ Distinct(queue)'
    BY DEF IInv, Register, Distinct
<1>2. TypeOK'
    BY DEF IInv, Register, TypeOK, Stage
<1>3. Single'
    BY SingleKept DEF IInv, Register, TypeOK
<1>4. Owned'
    BY <1>1 DEF IInv, Register, Owned, TypeOK
<1>5. Fresh'
    BY <1>1 DEF IInv, Register, Fresh, TypeOK
<1>6. PagesLongHistory' /\ OwnUntilPopped'
    BY <1>1 DEF IInv, Register, PagesLongHistory, OwnUntilPopped, TypeOK
<1>7. HistoryOnce'
    BY DEF IInv, Register, HistoryOnce
<1> QED BY <1>1, <1>2, <1>3, <1>4, <1>5, <1>6, <1>7 DEF IInv

LEMMA RequestKeeps ==
    ASSUME IInv, NEW c \in Conns, Request(c) PROVE IInv'
<1>1. PICK a \in Addr : /\ heap[a] = None
                        /\ heap' = [heap EXCEPT ![a] = c]
                        /\ mie' = [mie EXCEPT ![c] = a]
                        /\ queue' = Append(queue, a)
    BY DEF Request
<1>2. /\ conn[c] = "registered" /\ conn' = [conn EXCEPT ![c] = "served"]
      /\ paging = None /\ UNCHANGED <<paging, history, taken>>
    BY DEF Request
<1>3. a \notin ToSet(queue)
    BY <1>1, NoneAssumption DEF IInv, Owned
<1>4. /\ queue' \in Seq(Addr) /\ Distinct(queue')
      /\ ToSet(queue') = ToSet(queue) \cup {a}
    BY <1>1, <1>3, PushedQueue DEF IInv, TypeOK
<1>5. TypeOK'
    BY <1>1, <1>2, <1>4 DEF IInv, TypeOK, Stage
<1>6. Single'
    BY <1>2, SingleKept DEF IInv, TypeOK
<1>7. Owned'
    BY <1>1, <1>2, <1>3, <1>4 DEF IInv, TypeOK, Owned
<1>8. Fresh'
    BY <1>1, <1>2, <1>3, <1>4 DEF IInv, TypeOK, Fresh
<1>9. PagesLongHistory'
    BY <1>2 DEF PagesLongHistory
<1>10. OwnUntilPopped'
    BY <1>1, <1>2, <1>4, NoneAssumption DEF IInv, TypeOK, OwnUntilPopped
<1>11. HistoryOnce'
    BY <1>2 DEF IInv, HistoryOnce
<1> QED BY <1>4, <1>5, <1>6, <1>7, <1>8, <1>9, <1>10, <1>11 DEF IInv

(* A connection that only moves on, from a stage without a request.        *)
LEMMA MovesKeep ==
    ASSUME IInv, NEW c \in Conns, AckFails(c) \/ Close(c) PROVE IInv'
<1>1. PICK stage \in {"leaving", "closed"} :
          /\ conn' = [conn EXCEPT ![c] = stage]
          /\ conn[c] \in {"registered", "leaving"} /\ paging = None
          /\ UNCHANGED <<mie, heap, queue, paging, history, taken>>
    BY DEF AckFails, Close
<1>2. ToSet(queue)' = ToSet(queue) /\ Distinct(queue)'
    BY <1>1 DEF IInv, Distinct
<1>3. TypeOK'
    BY <1>1 DEF IInv, TypeOK, Stage
<1>4. Single'
    BY <1>1, SingleKept DEF IInv, TypeOK
<1>5. Owned'
    BY <1>1, <1>2 DEF IInv, Owned, TypeOK
<1>6. Fresh'
    BY <1>1, <1>2 DEF IInv, Fresh, TypeOK
<1>7. PagesLongHistory' /\ OwnUntilPopped'
    BY <1>1, <1>2 DEF IInv, PagesLongHistory, OwnUntilPopped, TypeOK
<1>8. HistoryOnce'
    BY <1>1 DEF IInv, HistoryOnce
<1> QED BY <1>2, <1>3, <1>4, <1>5, <1>6, <1>7, <1>8 DEF IInv

(* The end of a connection takes what its pointer points to out of the     *)
(* queue, if it is there, and nothing else.                                *)
LEMMA LeaveTakes ==
    ASSUME IInv, NEW c \in Conns, Leave(c)
    PROVE  /\ queue' \in Seq(Addr) /\ Distinct(queue')
           /\ ToSet(queue') = ToSet(queue) \ {mie[c]}
           /\ \/ mie[c] \in ToSet(queue) /\ heap' = [heap EXCEPT ![mie[c]] = None]
              \/ mie[c] \notin ToSet(queue) /\ heap' = heap
<1>1. ToSet(queue) = {queue[i] : i \in DOMAIN queue}
    BY DEF ToSet
<1>2. CASE mie[c] \in ToSet(queue)
    <2>1. PICK i \in DOMAIN queue : queue[i] = mie[c] /\ queue' = RemoveAt(queue, i)
        BY <1>1, <1>2 DEF Leave
    <2>2. i \in 1 .. Len(queue)
        BY DEF IInv, TypeOK
    <2>3. heap' = [heap EXCEPT ![mie[c]] = None]
        BY <1>1, <1>2 DEF Leave
    <2> QED BY <1>2, <2>1, <2>2, <2>3, TakenFromQueue DEF IInv, TypeOK
<1>3. CASE mie[c] \notin ToSet(queue)
    <2>1. queue' = queue /\ heap' = heap
        BY <1>1, <1>3 DEF Leave
    <2> QED BY <1>3, <2>1 DEF IInv, TypeOK
<1> QED BY <1>2, <1>3

LEMMA LeaveKeeps ==
    ASSUME IInv, NEW c \in Conns, Leave(c) PROVE IInv'
<1>1. /\ conn[c] = "served" /\ conn' = [conn EXCEPT ![c] = "leaving"]
      /\ paging = None /\ UNCHANGED <<mie, paging, history, taken>>
    BY DEF Leave
<1>2. /\ queue' \in Seq(Addr) /\ Distinct(queue')
      /\ ToSet(queue') = ToSet(queue) \ {mie[c]}
    BY LeaveTakes
<1>3. heap' \in [Addr -> Conns \cup {None}]
    BY LeaveTakes DEF IInv, TypeOK
<1>4. \A a \in ToSet(queue') : /\ a \in ToSet(queue) /\ heap'[a] = heap[a]
                                /\ heap[a] \in Conns /\ heap[a] # c
    <2> SUFFICES ASSUME NEW a \in ToSet(queue')
                 PROVE  /\ a \in ToSet(queue) /\ heap'[a] = heap[a]
                        /\ heap[a] \in Conns /\ heap[a] # c
        OBVIOUS
    <2>1. a \in ToSet(queue) /\ a # mie[c]
        BY <1>2
    <2>2. heap[a] \in Conns /\ heap[a] # c
        BY <2>1 DEF IInv, Owned
    <2>3. heap'[a] = heap[a]
        <3>1. heap' = heap \/ heap' = [heap EXCEPT ![mie[c]] = None]
            BY LeaveTakes
        <3>2. a \in Addr
            BY <2>1, QueueOfElements DEF IInv, TypeOK
        <3> QED BY <2>1, <3>1, <3>2 DEF IInv, TypeOK
    <2> QED BY <2>1, <2>2, <2>3
<1>5. TypeOK'
    BY <1>1, <1>2, <1>3 DEF IInv, TypeOK, Stage
<1>6. Single'
    BY <1>1, SingleKept DEF IInv, TypeOK
<1>7. Owned'
    BY <1>1, <1>4 DEF IInv, TypeOK, Owned
<1>8. Fresh'
    BY <1>1, <1>4 DEF IInv, TypeOK, Fresh
<1>9. PagesLongHistory'
    BY <1>1 DEF PagesLongHistory
<1>10. OwnUntilPopped'
    <2> SUFFICES ASSUME taken' = {}, NEW d \in Conns, conn'[d] = "served"
                 PROVE  mie'[d] \in ToSet(queue') /\ heap'[mie'[d]] = d
        BY DEF OwnUntilPopped
    <2>1. d # c /\ conn[d] = "served" /\ taken = {} /\ mie' = mie
        BY <1>1 DEF IInv, TypeOK
    <2>2. mie[d] \in ToSet(queue) /\ heap[mie[d]] = d /\ heap[mie[c]] = c
        BY <1>1, <2>1 DEF IInv, OwnUntilPopped
    <2>3. mie[d] \in ToSet(queue')
        BY <1>2, <2>1, <2>2
    <2> QED BY <1>4, <2>1, <2>2, <2>3
<1>11. HistoryOnce'
    BY <1>1 DEF IInv, HistoryOnce
<1> QED BY <1>2, <1>5, <1>6, <1>7, <1>8, <1>9, <1>10, <1>11 DEF IInv

(* The thread pops a request of a session that is served, so the client    *)
(* found under its identity is that of this session, and it has nothing.   *)
LEMMA DoCycleKeeps ==
    ASSUME IInv, DoCycle PROVE IInv'
<1> DEFINE a == Head(queue)
           o == heap[a]
           u == User[o]
           own == Matching(Collection, Query(u))
<1>1. /\ queue # << >> /\ queue' = Tail(queue)
      /\ heap' = [heap EXCEPT ![a] = None] /\ taken' = taken \cup {o}
      /\ paging = None /\ conn' = conn /\ mie' = mie
    BY DEF DoCycle
<1>2. /\ queue' \in Seq(Addr) /\ Distinct(queue') /\ a \in ToSet(queue)
      /\ ToSet(queue') = ToSet(queue) \ {a}
    BY <1>1, PoppedQueue DEF IInv, TypeOK
<1>3. a \in Addr /\ ToSet(queue) \subseteq Addr
    BY <1>2, QueueOfElements DEF IInv, TypeOK
<1>4. o \in Conns /\ mie[o] = a /\ conn[o] = "served" /\ history[o] = << >>
    BY <1>2 DEF IInv, Owned, Fresh
<1>5. Registered(u) = {o}
    BY <1>4 DEF IInv, Single, Registered
<1>6. \A e \in ToSet(queue') : /\ e \in ToSet(queue) /\ e \in Addr /\ heap'[e] = heap[e]
                                /\ heap[e] \in Conns /\ heap[e] # o
    BY <1>1, <1>2, <1>3, <1>4 DEF IInv, TypeOK, Owned
<1> HIDE DEF a, o
<1>7. \/ UNCHANGED <<paging, history>>
      \/ \E got, up \in BOOLEAN :
             /\ history' = [history EXCEPT ![o] = @ \o Page(got, u)]
             /\ paging' = IF up /\ Len(own) > PageSize THEN o ELSE None
    <2>1. PICK ok, up, got \in QueryOK :
              \/ UNCHANGED <<paging, history>>
              \/ \E c \in Registered(u) :
                     /\ history' = [history EXCEPT ![c] = @ \o Page(got, u)]
                     /\ paging' = IF SkipParamsIsExist(up, Collection, Query(u), PageSize)
                                  THEN c ELSE None
        BY DEF DoCycle, a, o
    <2>2. up \in BOOLEAN /\ got \in BOOLEAN
        BY DEF QueryOK
    <2> QED BY <1>5, <2>1, <2>2 DEF SkipParamsIsExist
<1> HIDE DEF u, own
<1>8. \/ UNCHANGED <<paging, history>>
      \/ \E page \in Seq(Tasks) :
             /\ Len(own) <= PageSize => page \in {<< >>, own}
             /\ history' = [history EXCEPT ![o] = page]
             /\ paging' \in {o, None} /\ (paging' = o => Len(own) > PageSize)
    <2> SUFFICES ASSUME ~UNCHANGED <<paging, history>>
                 PROVE  \E page \in Seq(Tasks) :
                            /\ Len(own) <= PageSize => page \in {<< >>, own}
                            /\ history' = [history EXCEPT ![o] = page]
                            /\ paging' \in {o, None} /\ (paging' = o => Len(own) > PageSize)
        OBVIOUS
    <2>1. PICK got, up \in BOOLEAN :
              /\ history' = [history EXCEPT ![o] = @ \o Page(got, u)]
              /\ paging' = IF up /\ Len(own) > PageSize THEN o ELSE None
        BY <1>7
    <2>2. Page(got, u) \in Seq(Tasks)
        BY PageFacts
    <2>3. Len(own) <= PageSize => Page(got, u) \in {<< >>, own}
        BY PageFacts DEF own
    <2>4. << >> \o Page(got, u) = Page(got, u)
        BY <2>2
    <2>5. history' = [history EXCEPT ![o] = Page(got, u)]
        BY <1>4, <2>1, <2>4
    <2>6. None # o
        BY <1>4, NoneAssumption
    <2> QED BY <2>1, <2>2, <2>3, <2>5, <2>6
<1>9. TypeOK'
    <2>1. paging' \in Conns \cup {None}
        BY <1>1, <1>4, <1>8
    <2>2. heap' \in [Addr -> Conns \cup {None}]
        BY <1>1, <1>3 DEF IInv, TypeOK
    <2> QED BY <1>1, <1>2, <1>4, <2>1, <2>2 DEF IInv, TypeOK
<1>10. Single'
    BY <1>1 DEF IInv, Single, Registered
<1>11. Owned'
    BY <1>1, <1>6 DEF IInv, Owned
<1>12. Fresh'
    <2>1. history' \in [Conns -> Seq(Tasks)]
        BY <1>4, <1>8 DEF IInv, Fresh
    <2>2. \A c \in Conns : c # o => history'[c] = history[c]
        BY <1>4, <1>8 DEF IInv, Fresh
    <2>3. \A c \in Conns : conn'[c] \in {"new", "registered"} => history'[c] = << >>
        BY <1>1, <1>4, <2>2 DEF IInv, Fresh
    <2>4. \A e \in ToSet(queue') : history'[heap'[e]] = << >>
        BY <1>6, <2>2 DEF IInv, Fresh
    <2> QED BY <2>1, <2>3, <2>4 DEF Fresh
<1>13. PagesLongHistory'
    BY <1>1, <1>4, <1>6, <1>8 DEF PagesLongHistory, own, u
<1>14. OwnUntilPopped'
    BY <1>1 DEF OwnUntilPopped
<1>15. HistoryOnce'
    BY <1>1, <1>4, <1>8 DEF IInv, HistoryOnce, Fresh, own, u
<1> QED BY <1>2, <1>9, <1>10, <1>11, <1>12, <1>13, <1>14, <1>15 DEF IInv

(* The paging loop pushes the first page again, to a session whose user    *)
(* has more than a page and has no request left.                           *)
LEMMA PageAgainKeeps ==
    ASSUME IInv, PageAgain PROVE IInv'
<1> DEFINE u == User[paging]
           own == Matching(Collection, Query(u))
<1>1. /\ paging # None /\ UNCHANGED <<conn, mie, heap, queue, taken>>
      /\ paging \in Conns /\ conn[paging] = "served" /\ Len(own) > PageSize
      /\ \A a \in ToSet(queue) : heap[a] # paging
    BY DEF IInv, PageAgain, TypeOK, PagesLongHistory
<1>2. PICK page \in Seq(Tasks) :
          /\ history' = [history EXCEPT ![paging] = @ \o page]
          /\ paging' \in {paging, None}
    <2>1. PICK up, got \in QueryOK :
              /\ history' = [history EXCEPT ![paging] = @ \o Page(got, u)]
              /\ paging' \in {paging, None}
        BY DEF PageAgain
    <2>2. got \in BOOLEAN
        BY DEF QueryOK
    <2> QED BY <2>1, <2>2, PageFacts
<1>3. ToSet(queue)' = ToSet(queue) /\ Distinct(queue)'
    BY <1>1 DEF IInv, Distinct
<1>4. TypeOK'
    BY <1>1, <1>2 DEF IInv, TypeOK
<1>5. Single' /\ Owned' /\ OwnUntilPopped'
    BY <1>1, <1>3 DEF IInv, Single, Registered, Owned, OwnUntilPopped
<1>6. Fresh'
    <2>1. history[paging] \o page \in Seq(Tasks)
        BY <1>1, <1>2 DEF IInv, Fresh
    <2>2. history' \in [Conns -> Seq(Tasks)]
        BY <1>1, <1>2, <2>1 DEF IInv, Fresh
    <2>3. \A c \in Conns : c # paging => history'[c] = history[c]
        BY <1>1, <1>2 DEF IInv, Fresh
    <2>4. \A a \in ToSet(queue) : heap[a] \in Conns /\ heap[a] # paging
        BY <1>1 DEF IInv, Owned
    <2> QED BY <1>1, <1>3, <2>2, <2>3, <2>4 DEF IInv, Fresh
<1>7. PagesLongHistory'
    BY <1>1, <1>2, <1>3 DEF IInv, PagesLongHistory
<1>8. HistoryOnce'
    <2> SUFFICES ASSUME NEW c \in Conns,
                        Len(Matching(Collection, Query(User[c]))) <= PageSize
                 PROVE  history'[c] \in {<< >>, Matching(Collection, Query(User[c]))}
        BY DEF HistoryOnce
    <2>1. Matching(Collection, Query(User[c])) \in Seq(Tasks)
        BY CollectionAssumption, MatchingFacts DEF Tasks
    <2>2. own \in Seq(Tasks)
        BY CollectionAssumption, MatchingFacts DEF Tasks
    <2>3. c # paging
        BY <1>1, <2>1, <2>2, BoundAssumption
    <2>4. history'[c] = history[c]
        BY <1>1, <1>2, <2>3 DEF IInv, Fresh
    <2> QED BY <2>4 DEF IInv, HistoryOnce
<1> QED BY <1>3, <1>4, <1>5, <1>6, <1>7, <1>8 DEF IInv

LEMMA StutterKeeps ==
    ASSUME IInv, UNCHANGED vars PROVE IInv'
<1>1. ToSet(queue)' = ToSet(queue) /\ Distinct(queue)'
    BY DEF IInv, Distinct, vars
<1> QED BY <1>1 DEF IInv, TypeOK, Owned, Single, Registered, Fresh, PagesLongHistory,
                   OwnUntilPopped, HistoryOnce, vars

THEOREM HistoryInductive == Spec => []IInv
<1>1. Init => IInv
    BY InitIInv
<1>2. IInv /\ [Next]_vars => IInv'
    <2> SUFFICES ASSUME IInv, [Next]_vars PROVE IInv'
        OBVIOUS
    <2>1. CASE DoCycle
        BY <2>1, DoCycleKeeps
    <2>2. CASE PageAgain
        BY <2>2, PageAgainKeeps
    <2>3. ASSUME NEW c \in Conns, Session(c) PROVE IInv'
        BY <2>3, RegisterKeeps, RequestKeeps, MovesKeep, LeaveKeeps DEF Session
    <2>4. CASE UNCHANGED vars
        BY <2>4, StutterKeeps
    <2> QED BY <2>1, <2>2, <2>3, <2>4 DEF Next
<1> QED BY <1>1, <1>2, PTL DEF Spec

(* A request in the queue belongs to a session that is still served, and   *)
(* no address freed or given to another request is left in it.             *)
THEOREM RequestsBelong == Spec => []RequestsHaveSessions
<1>1. IInv => RequestsHaveSessions
    <2> SUFFICES ASSUME IInv PROVE RequestsHaveSessions
        OBVIOUS
    <2>1. \A i \in 1 .. Len(queue) : queue[i] \in ToSet(queue)
        BY ElementOfQueue DEF IInv, TypeOK
    <2>2. \A i \in 1 .. Len(queue) :
              \E c \in Conns : heap[queue[i]] = c /\ mie[c] = queue[i] /\ conn[c] = "served"
        BY <2>1 DEF IInv, Owned
    <2> QED BY <2>2 DEF IInv, Distinct, RequestsHaveSessions
<1> QED BY <1>1, HistoryInductive, PTL

(* A session gets its user's tasks at most once, all together, and never   *)
(* another user's, unless there is more than a page of them.               *)
THEOREM HistoryAtMostOnce == Spec => []HistoryOnce
<1>1. IInv => HistoryOnce
    BY DEF IInv
<1> QED BY <1>1, HistoryInductive, PTL

(* The process stands still only over a user with more than a page.        *)
THEOREM LongHistoryStops == Spec => []StopsOnlyOverLongHistory
<1>1. IInv => StopsOnlyOverLongHistory
    BY DEF IInv, PagesLongHistory, StopsOnlyOverLongHistory
<1> QED BY <1>1, HistoryInductive, PTL

(* A connection takes another's request out of the queue only when its own *)
(* is gone, and not before a first request was popped.                     *)
THEOREM StaleStealOnly == Spec => OnlyStalePointersSteal
<1>1. ASSUME IInv, NEW c \in Conns, NEW d \in Conns,
             Leave(c), c # d, conn[d] = "served", Waiting(d), ~Waiting(d)'
      PROVE  heap[mie[c]] # c /\ taken # {}
    <2>1. PICK i \in DOMAIN queue : heap[queue[i]] = d
        BY <1>1 DEF Waiting
    <2>2. queue[i] \in ToSet(queue)
        BY DEF ToSet
    <2>3. ASSUME queue[i] # mie[c] PROVE FALSE
        <3>1. queue[i] \in ToSet(queue') /\ heap'[queue[i]] = heap[queue[i]]
            BY <1>1, <2>2, <2>3, LeaveTakes DEF IInv, TypeOK
        <3>2. \E j \in DOMAIN queue' : queue'[j] = queue[i]
            BY <3>1 DEF ToSet
        <3> QED BY <1>1, <2>1, <3>1, <3>2 DEF Waiting
    <2>4. heap[mie[c]] = d
        BY <2>1, <2>3
    <2>5. conn[c] = "served"
        BY <1>1 DEF Leave
    <2>6. taken # {}
        BY <1>1, <2>4, <2>5 DEF IInv, OwnUntilPopped
    <2> QED BY <1>1, <2>4, <2>6
<1>2. IInv /\ [Next]_vars =>
          [\A c, d \in Conns :
               (Leave(c) /\ c # d /\ conn[d] = "served" /\ Waiting(d) /\ ~Waiting(d)')
               => heap[mie[c]] # c /\ taken # {}]_vars
    BY <1>1
<1> QED BY <1>2, HistoryInductive, PTL DEF Spec, OnlyStalePointersSteal
=============================================================================
