----------------------------- MODULE LPushLemmas ----------------------------
(***************************************************************************)
(* Facts that the proofs about more than one module need: induction over   *)
(* the naturals, what the operations of one LPushThread preserve, whatever *)
(* its flags, and what a query in MongoDB returns.                         *)
(***************************************************************************)
EXTENDS ThreadOps, MongoClient, WellFoundedInduction, TLAPS

(* Induction over the naturals for a set, by its least missing element.    *)
LEMMA Induction ==
    ASSUME NEW S, 0 \in S, \A n \in Nat : n \in S => n + 1 \in S
    PROVE  Nat \subseteq S
<1> DEFINE T == Nat \ S
           R == {ss \in Nat \X Nat : ss[1] < ss[2]}
<1>1. IsWellFoundedOn(R, Nat)
    BY NatLessThanWellFounded, Zenon DEF OpToRel
<1>2. \A x, y \in Nat : <<y, x>> \in R <=> y < x
    OBVIOUS
<1> HIDE DEF R
<1>3. SUFFICES ASSUME T # {} PROVE FALSE
    OBVIOUS
<1>4. PICK x \in T : \A y \in T : ~(<<y, x>> \in R)
    BY <1>1, <1>3, WFMin
<1>5. x \in Nat /\ x # 0 /\ x - 1 \in Nat /\ x - 1 < x
    BY <1>4
<1>6. x - 1 \notin S
    BY <1>4, <1>5
<1>7. x - 1 \in T
    BY <1>5, <1>6
<1> QED BY <1>2, <1>4, <1>5, <1>7
-----------------------------------------------------------------------------
(* The flags tell the truth about the coroutine: a running one has a tid   *)
(* and is not disposed, one that has started its cycle is not terminated,  *)
(* and one that was never scheduled has not published its _cid.            *)
Truthful(t) ==
    /\ t.at \in Running => t.tid /\ ~t.disposed
    /\ t.at \in {"gate", "cycle", "pause"} => ~t.really_terminated
    /\ t.at = "new" => ~t.cid
    /\ ~t.tid => ~t.cid

LEMMA ConstructedOK ==
    ASSUME NEW j \in BOOLEAN
    PROVE  /\ Constructed(j) \in ThreadRecord
           /\ Truthful(Constructed(j))
BY DEF Constructed, ThreadRecord, Place, Truthful, Running

LEMMA StartCallOK ==
    ASSUME NEW t \in ThreadRecord, Truthful(t)
    PROVE  /\ StartCall(t) \in ThreadRecord
           /\ Truthful(StartCall(t))
           /\ StartCall(t).joinable = t.joinable
           /\ ~t.tid => StartCall(t).at = "new"
           /\ t.tid => StartCall(t) = t
BY DEF StartCall, ThreadRecord, Place, Truthful, Running

LEMMA StartReturnOK ==
    ASSUME NEW t \in ThreadRecord, Truthful(t)
    PROVE  /\ StartReturn(t) \in ThreadRecord
           /\ Truthful(StartReturn(t))
           /\ StartReturn(t).at = t.at
           /\ StartReturn(t).tid = t.tid
           /\ StartReturn(t).joinable = t.joinable
           /\ StartReturn(t).joining = t.joining
BY DEF StartReturn, ThreadRecord, Place, Truthful, Running

LEMMA StopCallOK ==
    ASSUME NEW t \in ThreadRecord, Truthful(t)
    PROVE  /\ StopCall(t) \in ThreadRecord
           /\ Truthful(StopCall(t))
           /\ StopCall(t).at = t.at
           /\ StopCall(t).tid = t.tid
           /\ StopCall(t).joinable = t.joinable
           /\ StopCall(t).can_run = t.can_run
           /\ t.tid => ~StopCall(t).loop
           /\ t.joinable /\ t.at \in Running => StopCall(t).joining
BY DEF StopCall, ThreadRecord, Place, Truthful, Running

(* The end of stop(): the caller must know that the coroutine has ended.   *)
LEMMA StopReturnOK ==
    ASSUME NEW t \in ThreadRecord, Truthful(t), t.at \notin Running
    PROVE  /\ StopReturn(t) \in ThreadRecord
           /\ Truthful(StopReturn(t))
           /\ StopReturn(t).at = t.at
           /\ StopReturn(t).joinable = t.joinable
           /\ ~StopReturn(t).tid
BY DEF StopReturn, ThreadRecord, Place, Truthful, Running

LEMMA StopLoopOK ==
    ASSUME NEW t \in ThreadRecord, Truthful(t)
    PROVE  /\ StopLoop(t) \in ThreadRecord
           /\ Truthful(StopLoop(t))
           /\ StopLoop(t).at = t.at
           /\ ~StopLoop(t).loop
           /\ StopLoop(t).joinable = t.joinable
           /\ StopLoop(t).joining = t.joining
BY DEF StopLoop, ThreadRecord, Place, Truthful, Running

LEMMA InterruptSeenOK ==
    ASSUME NEW t \in ThreadRecord, Truthful(t)
    PROVE  /\ [t EXCEPT !.intr = FALSE] \in ThreadRecord
           /\ Truthful([t EXCEPT !.intr = FALSE])
           /\ [t EXCEPT !.intr = FALSE].at = t.at
           /\ [t EXCEPT !.intr = FALSE].tid = t.tid
           /\ [t EXCEPT !.intr = FALSE].loop = t.loop
           /\ [t EXCEPT !.intr = FALSE].can_run = t.can_run
           /\ [t EXCEPT !.intr = FALSE].joinable = t.joinable
           /\ [t EXCEPT !.intr = FALSE].joining = t.joining
BY DEF ThreadRecord, Place, Truthful, Running

LEMMA ExitOK ==
    ASSUME NEW t \in ThreadRecord, Truthful(t)
    PROVE  /\ Exit(t) \in ThreadRecord
           /\ Truthful(Exit(t))
           /\ Exit(t).at \notin Running
BY DEF Exit, ThreadRecord, Place, Truthful, Running

(* A coroutine that is past its gate cannot come back to "new", and the    *)
(* one that sleeps at it needs can_run, or a cleared loop, to leave.       *)
LEMMA EnterOK ==
    ASSUME NEW t \in ThreadRecord, Truthful(t), t.at = "new"
    PROVE  /\ Enter(t) \in ThreadRecord
           /\ Truthful(Enter(t))
           /\ Enter(t).at # "new"
           /\ Enter(t).joining = t.joining
           /\ Enter(t).can_run = t.can_run
           /\ Enter(t).tid = t.tid
           /\ Enter(t).loop = t.loop
           /\ ~t.can_run /\ t.loop => Enter(t).at = "gate"
           /\ Enter(t).at = "cycle" => t.can_run
           /\ Enter(t).at # "pause"
           /\ Enter(t).joinable = t.joinable
BY DEF Enter, Gate, LoopTest, Exit, ThreadRecord, Place, Truthful, Running

LEMMA GateOK ==
    ASSUME NEW t \in ThreadRecord, Truthful(t), t.at = "gate"
    PROVE  /\ Gate(t) \in ThreadRecord
           /\ Truthful(Gate(t))
           /\ Gate(t).at # "new"
           /\ Gate(t).joining = t.joining
           /\ Gate(t).can_run = t.can_run
           /\ Gate(t).tid = t.tid
           /\ Gate(t).loop = t.loop
           /\ ~t.can_run /\ t.loop => Gate(t).at = "gate"
           /\ Gate(t).at = "cycle" => t.can_run
           /\ Gate(t).at # "pause"
           /\ Gate(t).joinable = t.joinable
BY DEF Gate, LoopTest, Exit, ThreadRecord, Place, Truthful, Running

LEMMA CycleReturnOK ==
    ASSUME NEW t \in ThreadRecord, Truthful(t), t.at = "cycle"
    PROVE  /\ CycleReturn(t) \in ThreadRecord
           /\ Truthful(CycleReturn(t))
           /\ CycleReturn(t).at # "new"
           /\ CycleReturn(t).joining = t.joining
           /\ CycleReturn(t).can_run = t.can_run
           /\ CycleReturn(t).tid = t.tid
           /\ CycleReturn(t).joinable = t.joinable
           /\ ~t.loop => CycleReturn(t).at \in {"zombie", "gone"}
BY DEF CycleReturn, Exit, ThreadRecord, Place, Truthful, Running

LEMMA UnpauseOK ==
    ASSUME NEW t \in ThreadRecord, Truthful(t), t.at = "pause"
    PROVE  /\ Unpause(t) \in ThreadRecord
           /\ Truthful(Unpause(t))
           /\ Unpause(t).at # "new"
           /\ Unpause(t).can_run = t.can_run
           /\ Unpause(t).tid = t.tid
BY DEF Unpause, LoopTest, Exit, ThreadRecord, Place, Truthful, Running
-----------------------------------------------------------------------------
(* The documents found among the first n: f is what excute() has appended  *)
(* after each of them.                                                     *)
Finds(coll, params, n, f) ==
    f = [i \in 0 .. n |->
            IF i = 0 THEN << >>
            ELSE IF \A p \in DOMAIN params :
                        p \in DOMAIN coll[i] /\ coll[i][p] = params[p]
                 THEN Append(f[i - 1], coll[i])
                 ELSE f[i - 1]]

LEMMA FindsExist ==
    ASSUME NEW coll, NEW params
    PROVE  \A n \in Nat : \E f : Finds(coll, params, n, f)
<1> DEFINE S == {n \in Nat : \E f : Finds(coll, params, n, f)}
<1> DEFINE Fits(i) == \A p \in DOMAIN params :
                          p \in DOMAIN coll[i] /\ coll[i][p] = params[p]
<1>1. 0 \in S
    <2> DEFINE f == [i \in 0 .. 0 |-> << >>]
    <2>1. Finds(coll, params, 0, f)
        BY DEF Finds
    <2> QED BY <2>1
<1>2. ASSUME NEW n \in Nat, n \in S PROVE n + 1 \in S
    <2>1. PICK f : Finds(coll, params, n, f)
        BY <1>2
    <2>2. f = [i \in 0 .. n |-> IF i = 0 THEN << >>
                                ELSE IF Fits(i) THEN Append(f[i - 1], coll[i])
                                     ELSE f[i - 1]]
        BY <2>1 DEF Finds
    <2> DEFINE e == IF Fits(n + 1) THEN Append(f[n], coll[n + 1]) ELSE f[n]
               g == [i \in 0 .. n + 1 |-> IF i = n + 1 THEN e ELSE f[i]]
               h == [i \in 0 .. n + 1 |-> IF i = 0 THEN << >>
                                          ELSE IF Fits(i) THEN Append(g[i - 1], coll[i])
                                               ELSE g[i - 1]]
    <2> HIDE DEF Fits
    <2>3. ASSUME NEW i \in 0 .. n + 1 PROVE g[i] = h[i]
        <3>1. CASE i = n + 1
            <4>1. g[i] = e /\ g[n] = f[n] /\ i - 1 = n /\ i # 0
                BY <3>1
            <4> QED BY <3>1, <4>1
        <3>2. CASE i = 0
            <4>1. f[0] = << >> /\ g[0] = f[0]
                BY <2>2
            <4> QED BY <3>2, <4>1
        <3>3. CASE i \in 1 .. n
            <4>1. i \in 0 .. n /\ i # 0
                BY <3>3
            <4>2. f[i] = IF Fits(i) THEN Append(f[i - 1], coll[i]) ELSE f[i - 1]
                BY <2>2, <4>1
            <4>3. g[i] = f[i] /\ g[i - 1] = f[i - 1]
                BY <3>3
            <4>4. h[i] = IF Fits(i) THEN Append(g[i - 1], coll[i]) ELSE g[i - 1]
                BY <4>1
            <4> QED BY <4>2, <4>3, <4>4
        <3> QED BY <3>1, <3>2, <3>3
    <2>4. g = h
        <3> HIDE DEF e
        <3> QED BY <2>3
    <2>5. Finds(coll, params, n + 1, g)
        BY <2>4 DEF Finds, Fits
    <2> HIDE DEF g
    <2> QED BY <2>5
<1> HIDE DEF S
<1>3. Nat \subseteq S
    BY <1>1, <1>2, Induction
<1> QED BY <1>3 DEF S

LEMMA ElementOfAppend ==
    ASSUME NEW D, NEW s \in Seq(D), NEW d \in D
    PROVE  Append(s, d) \in Seq(D) /\ Append(s, d) # << >>
<1>1. Append(s, d) \in Seq(D) /\ Len(Append(s, d)) = Len(s) + 1 /\ Len(s) \in Nat
    OBVIOUS
<1>2. Len(<< >>) = 0
    OBVIOUS
<1> QED BY <1>1, <1>2

(* A query returns a sequence of the collection's documents, and finds     *)
(* something when the last document fits.                                  *)
LEMMA MatchingFacts ==
    ASSUME NEW D, NEW coll \in Seq(D), NEW params
    PROVE  /\ Matching(coll, params) \in Seq(D)
           /\ /\ Len(coll) > 0
              /\ \A p \in DOMAIN params : p \in DOMAIN coll[Len(coll)]
                                          /\ coll[Len(coll)][p] = params[p]
              => Matching(coll, params) # << >>
<1> DEFINE m == Len(coll)
           Fits(i) == \A p \in DOMAIN params :
                          p \in DOMAIN coll[i] /\ coll[i][p] = params[p]
           F == CHOOSE f : Finds(coll, params, m, f)
<1>1. m \in Nat /\ (\A i \in 1 .. m : coll[i] \in D) /\ << >> \in Seq(D)
    OBVIOUS
<1>2. Matching(coll, params) = F[m]
    BY DEF Matching, Finds
<1>3. Finds(coll, params, m, F)
    BY <1>1, FindsExist
<1> HIDE DEF F
<1>4. F = [i \in 0 .. m |-> IF i = 0 THEN << >>
                            ELSE IF Fits(i) THEN Append(F[i - 1], coll[i])
                                 ELSE F[i - 1]]
    BY <1>3 DEF Finds
<1> HIDE DEF Fits, m
<1>5. F[0] = << >>
    BY <1>1, <1>4
<1>6. ASSUME NEW i \in 1 .. m
      PROVE  F[i] = IF Fits(i) THEN Append(F[i - 1], coll[i]) ELSE F[i - 1]
    <2>1. i \in 0 .. m /\ i # 0
        BY <1>1
    <2> QED BY <1>4, <2>1, Zenon
<1> DEFINE S == {n \in Nat : n <= m => F[n] \in Seq(D)}
<1>7. 0 \in S
    BY <1>1, <1>5
<1>8. ASSUME NEW n \in Nat, n \in S PROVE n + 1 \in S
    <2> SUFFICES ASSUME n + 1 <= m PROVE F[n + 1] \in Seq(D)
        OBVIOUS
    <2>1. n + 1 \in 1 .. m /\ (n + 1) - 1 = n /\ F[n] \in Seq(D)
        BY <1>1, <1>8
    <2>2. F[n + 1] = IF Fits(n + 1) THEN Append(F[n], coll[n + 1]) ELSE F[n]
        BY <1>6, <2>1
    <2>3. coll[n + 1] \in D
        BY <1>1, <2>1
    <2>4. Append(F[n], coll[n + 1]) \in Seq(D)
        BY <2>1, <2>3, ElementOfAppend
    <2> QED BY <2>1, <2>2, <2>4
<1> HIDE DEF S
<1>9. Nat \subseteq S
    BY <1>7, <1>8, Induction
<1>10. \A n \in 0 .. m : F[n] \in Seq(D)
    BY <1>1, <1>9 DEF S
<1>11. ASSUME m > 0, Fits(m) PROVE F[m] # << >>
    <2>1. m \in 1 .. m /\ m - 1 \in 0 .. m
        BY <1>1, <1>11
    <2>2. F[m] = Append(F[m - 1], coll[m])
        BY <1>6, <1>11, <2>1
    <2>3. F[m - 1] \in Seq(D) /\ coll[m] \in D
        BY <1>1, <1>10, <2>1
    <2> QED BY <2>2, <2>3, ElementOfAppend
<1>12. F[m] \in Seq(D)
    BY <1>1, <1>10
<1> QED BY <1>2, <1>11, <1>12 DEF Fits, m
-----------------------------------------------------------------------------
(* Division is unique, and dividing by a product is dividing twice.       *)
LEMMA DivFacts ==
    ASSUME NEW x \in Int, NEW d \in Nat, d > 0
    PROVE  /\ x \div d \in Int /\ x % d \in 0 .. d - 1
           /\ x = (x \div d) * d + (x % d)
OBVIOUS

LEMMA DivUnique ==
    ASSUME NEW x \in Int, NEW q \in Int, NEW r \in Int, NEW d \in Nat, d > 0,
           x = q * d + r, 0 <= r, r < d
    PROVE  x \div d = q
<1> DEFINE p == x \div d
           s == x % d
<1>1. p \in Int /\ s \in 0 .. d - 1 /\ x = p * d + s
    BY DivFacts
<1> HIDE DEF p, s
<1>2. (p - q) * d = r - s
    BY <1>1
<1>3. CASE p >= q + 1
    <2>1. (p - q) * d >= d
        BY <1>1, <1>3
    <2> QED BY <1>1, <1>2, <2>1
<1>4. CASE p <= q - 1
    <2>1. (p - q) * d <= -d
        BY <1>1, <1>4
    <2> QED BY <1>1, <1>2, <2>1
<1> QED BY <1>1, <1>3, <1>4 DEF p

LEMMA DivTwice ==
    ASSUME NEW x \in Int, NEW d \in Nat, d > 0, NEW e \in Nat, e > 0
    PROVE  d * e \in Nat /\ d * e > 0 /\ x \div (d * e) = (x \div d) \div e
<1> DEFINE q == x \div d
           r == x % d
           p == q \div e
           s == q % e
<1>1. q \in Int /\ r \in 0 .. d - 1 /\ x = q * d + r
    BY DivFacts
<1>2. p \in Int /\ s \in 0 .. e - 1 /\ q = p * e + s
    BY <1>1, DivFacts
<1> HIDE DEF q, r, p, s
<1> DEFINE t == s * d + r
<1>3. d * e \in Nat /\ d * e > 0
    OBVIOUS
<1>4. x = p * (d * e) + t
    <2>1. x = (p * e + s) * d + r
        BY <1>1, <1>2
    <2> QED BY <1>1, <1>2, <2>1
<1>5. t \in Int /\ 0 <= t /\ t < d * e
    <2>1. s * d \in Int /\ s * d >= 0 /\ s * d <= (e - 1) * d
        BY <1>2
    <2>2. (e - 1) * d = d * e - d
        OBVIOUS
    <2> QED BY <1>1, <2>1, <2>2
<1> HIDE DEF t
<1>6. x \div (d * e) = p
    BY <1>2, <1>3, <1>4, <1>5, DivUnique
<1> QED BY <1>3, <1>6 DEF p, q
=============================================================================
