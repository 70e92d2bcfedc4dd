-------------------------- MODULE LPushDeliveryProofs ------------------------
(***************************************************************************)
(* The order in which tasks reach a user, for any tasks, users, batches,   *)
(* crashes and failures of LTRIM.                                          *)
(***************************************************************************)
EXTENDS LPushDelivery, SequenceTheorems, TLAPS

LEMMA SeqWider ==
    ASSUME NEW S, NEW T, S \subseteq T, NEW s \in Seq(S)
    PROVE  s \in Seq(T)
OBVIOUS

LEMMA Element ==
    ASSUME NEW S, NEW s \in Seq(S), NEW i \in 1 .. Len(s)
    PROVE  s[i] \in S
OBVIOUS

LEMMA HeadTail ==
    ASSUME NEW S, NEW s \in Seq(S), s # << >>
    PROVE  /\ Len(s) >= 1 /\ Head(s) = s[1] /\ Head(s) \in S
           /\ Tail(s) \in Seq(S) /\ Len(Tail(s)) = Len(s) - 1
           /\ \A i \in 1 .. Len(s) - 1 : Tail(s)[i] = s[i + 1]
OBVIOUS

LEMMA Appended ==
    ASSUME NEW S, NEW s \in Seq(S), NEW e \in S
    PROVE  /\ Append(s, e) \in Seq(S) /\ Len(Append(s, e)) = Len(s) + 1
           /\ \A i \in 1 .. Len(s) : Append(s, e)[i] = s[i]
           /\ Append(s, e)[Len(s) + 1] = e
OBVIOUS

(* What SubSeq(s, 1, n) and SubSeq(s, n + 1, Len(s)) are.                  *)
LEMMA Front ==
    ASSUME NEW S, NEW s \in Seq(S), NEW n \in 0 .. Len(s)
    PROVE  /\ SubSeq(s, 1, n) \in Seq(S) /\ Len(SubSeq(s, 1, n)) = n
           /\ \A i \in 1 .. n : SubSeq(s, 1, n)[i] = s[i]
<1>1. \A i \in 1 .. n : s[i] \in S
    OBVIOUS
<1> QED BY <1>1, SubSeqProperties

LEMMA Rest ==
    ASSUME NEW S, NEW s \in Seq(S), NEW n \in 0 .. Len(s)
    PROVE  /\ SubSeq(s, n + 1, Len(s)) \in Seq(S)
           /\ Len(SubSeq(s, n + 1, Len(s))) = Len(s) - n
           /\ \A i \in 1 .. Len(s) - n : SubSeq(s, n + 1, Len(s))[i] = s[n + i]
<1>1. \A i \in 1 .. Len(s) : s[i] \in S
    OBVIOUS
<1> QED BY <1>1, SubSeqProperties
-----------------------------------------------------------------------------
Sorted(s) == \A i, j \in 1 .. Len(s) : i < j => s[i] < s[j]

(* The tasks sent to k that are to be in order: those of this process, or  *)
(* all of them if no LTRIM fails.                                          *)
From(k) == IF BreakingRedis THEN earlier[k] ELSE 0

TasksSorted == Sorted(tasks)

Shape == /\ ~cycling => index = 0 /\ works = <<>>
         /\ cycling \/ ~BreakingRedis => redis

(* What was sent, what is being written, what is in the queue, and what    *)
(* is still to be read follow each other in posting order.                 *)
SentRun(k) ==
    \A i, j \in From(k) + 1 .. Len(sent[k]) : i < j => sent[k][i] < sent[k][j]

SentBefore(k) ==
    \A i \in From(k) + 1 .. Len(sent[k]) :
        /\ writing[k] # NoTask => sent[k][i] < writing[k]
        /\ \A j \in 1 .. Len(queue[k]) : sent[k][i] < queue[k][j]
        /\ redis => \A j \in 1 .. Len(tasks) : sent[k][i] < tasks[j]

WritingBefore(k) ==
    writing[k] # NoTask =>
        /\ \A j \in 1 .. Len(queue[k]) : writing[k] < queue[k][j]
        /\ redis => \A j \in 1 .. Len(tasks) : writing[k] < tasks[j]

QueueBefore(k) ==
    redis => \A i \in 1 .. Len(queue[k]), j \in index + 1 .. Len(tasks) :
                 queue[k][i] < tasks[j]

Flow(k) == SentRun(k) /\ SentBefore(k) /\ WritingBefore(k) /\ Sorted(queue[k]) /\ QueueBefore(k)

(* A task of Poison stays in the list, and what is on its way came before. *)
Unread == /\ \A p \in Poison : p <= posted => \E i \in 1 .. Len(tasks) : tasks[i] = p
          /\ \A i \in 1 .. index : works[i] \notin Poison

Below(k) == \A p \in Poison :
                /\ \A i \in 1 .. Len(sent[k]) : sent[k][i] < p
                /\ \A i \in 1 .. Len(queue[k]) : queue[k][i] < p
                /\ writing[k] < p

(* What cycle_all() has dealt with is queued, if its user is registered.   *)
Dealt == \A i \in 1 .. index :
             stage[To[works[i]]] # "off" => works[i] \in InSeq(queue[To[works[i]]])

(* A user is offered only its own tasks.                                   *)
Addressed(k) == /\ \A m \in InSeq(queue[k]) : To[m] = k
                /\ writing[k] # NoTask => To[writing[k]] = k

IInv == /\ TypeOK /\ Shape /\ WorksAreHead /\ TasksSorted
        /\ (\A k \in Key : Flow(k)) /\ Unread /\ (\A k \in Key : Below(k)) /\ Dealt
        /\ \A k \in Key : Addressed(k)

USE BoundAssumption, ToAssumption, BatchAssumption, PoisonAssumption, RedisAssumption
-----------------------------------------------------------------------------
(* Types.                                                                  *)
LEMMA NoWorks ==
    ASSUME NEW S PROVE << >> \in Seq(S) /\ Len(<< >>) = 0 /\ 0 \in 0 .. Len(<< >>)
OBVIOUS

LEMMA RestartTypes ==
    ASSUME TypeOK, Restart, UNCHANGED <<posted, tasks, sent>>, crashes' \in 0 .. MaxCrash
    PROVE  TypeOK'
<1>1. /\ works' \in Seq(1 .. posted) /\ index' \in 0 .. Len(works') /\ cycling' \in BOOLEAN
      /\ redis' \in BOOLEAN
    BY NoWorks DEF Restart
<1>2. stage' \in [Key -> Stage]
    BY DEF Restart, Stage
<1>3. queue' \in [Key -> Seq(1 .. posted)] /\ writing' \in [Key -> 0 .. posted]
    BY NoWorks DEF Restart, TypeOK, NoTask
<1>4. \A k \in Key : earlier'[k] \in 0 .. Len(sent'[k])
    BY DEF Restart, TypeOK
<1> QED BY <1>1, <1>2, <1>3, <1>4 DEF TypeOK

LEMMA ReadTypes ==
    ASSUME TypeOK, CycleRead
    PROVE  /\ works' \in Seq(1 .. posted) /\ Len(works') <= Len(tasks)
           /\ \A i \in 1 .. Len(works') : works'[i] = tasks[i]
<1> DEFINE n == IF Len(tasks) < Batch THEN Len(tasks) ELSE Batch
<1>1. tasks \in Seq(1 .. posted) /\ works' = SubSeq(tasks, 1, n)
    BY DEF TypeOK, CycleRead
<1>2. n \in 0 .. Len(tasks)
    BY <1>1
<1> HIDE DEF n
<1>3. /\ SubSeq(tasks, 1, n) \in Seq(1 .. posted) /\ Len(SubSeq(tasks, 1, n)) = n
      /\ \A i \in 1 .. n : SubSeq(tasks, 1, n)[i] = tasks[i]
    BY <1>1, <1>2, Front
<1> QED BY <1>1, <1>2, <1>3

LEMMA TrimTypes ==
    ASSUME TypeOK, WorksAreHead, index = Len(works)
    PROVE  /\ index \in 0 .. Len(tasks)
           /\ SubSeq(tasks, index + 1, Len(tasks)) \in Seq(1 .. posted)
           /\ Len(SubSeq(tasks, index + 1, Len(tasks))) = Len(tasks) - index
           /\ \A i \in 1 .. Len(tasks) - index :
                  SubSeq(tasks, index + 1, Len(tasks))[i] = tasks[index + i]
<1>1. tasks \in Seq(1 .. posted) /\ index \in 0 .. Len(tasks)
    BY DEF TypeOK, WorksAreHead
<1> QED BY <1>1, Rest

LEMMA TypeInv == TypeOK /\ Shape /\ WorksAreHead /\ [Next]_vars => TypeOK'
<1> SUFFICES ASSUME TypeOK, Shape, WorksAreHead, [Next]_vars PROVE TypeOK'
    OBVIOUS
<1> USE DEF TypeOK
<1>1. CASE UNCHANGED vars
    BY <1>1 DEF vars, cycleVars, sessionVars, runVars
<1>2. CASE Produce
    <2>1. /\ posted' \in 0 .. MaxTask /\ 1 .. posted \subseteq 1 .. posted'
          /\ posted' \in 1 .. posted'
        BY <1>2 DEF Produce
    <2>2. /\ tasks \in Seq(1 .. posted') /\ works \in Seq(1 .. posted')
          /\ \A k \in Key : queue[k] \in Seq(1 .. posted') /\ sent[k] \in Seq(1 .. posted')
        BY <2>1, SeqWider
    <2>3. tasks' \in Seq(1 .. posted')
        BY <2>1, <2>2, <1>2 DEF Produce
    <2>4. queue \in [Key -> Seq(1 .. posted')] /\ sent \in [Key -> Seq(1 .. posted')]
        BY <2>2
    <2>5. writing \in [Key -> 0 .. posted']
        BY <1>2 DEF Produce
    <2> QED BY <2>1, <2>2, <2>3, <2>4, <2>5, <1>2
            DEF Produce, cycleVars, sessionVars, runVars
<1>3. CASE CycleRead
    <2>1. works' \in Seq(1 .. posted) /\ index' = 0
        BY <1>3, ReadTypes DEF CycleRead
    <2>2. index' \in 0 .. Len(works')
        <3> HIDE DEF TypeOK
        <3> QED BY <2>1
    <2> QED BY <2>1, <2>2, <1>3 DEF CycleRead, sessionVars, runVars
<1>4. CASE CyclePush
    <2>1. works[index + 1] \in 1 .. posted /\ index' \in 0 .. Len(works)
        <3>1. works \in Seq(1 .. posted) /\ index + 1 \in 1 .. Len(works) /\ index' = index + 1
            BY <1>4 DEF CyclePush
        <3> HIDE DEF TypeOK
        <3>2. works[index + 1] \in 1 .. posted
            BY <3>1, Element
        <3> QED BY <3>1, <3>2
    <2>2. To[works[index + 1]] \in Key
        BY <2>1
    <2>3. queue' \in [Key -> Seq(1 .. posted)]
        <3>1. Append(queue[To[works[index + 1]]], works[index + 1]) \in Seq(1 .. posted)
            BY <2>1, <2>2
        <3> QED BY <3>1, <2>2, <1>4 DEF CyclePush
    <2> QED BY <2>1, <2>3, <1>4 DEF CyclePush, runVars
<1>5. CASE CyclePoison
    BY <1>5, RestartTypes DEF CyclePoison
<1>6. CASE CycleTrim
    BY <1>6, TrimTypes, NoWorks DEF CycleTrim, sessionVars, runVars
<1>7. CASE CycleTrimBreaks
    <2>1. tasks' \in Seq(1 .. posted)
        BY <1>7, TrimTypes DEF CycleTrimBreaks
    <2> QED BY <2>1, <1>7, NoWorks DEF CycleTrimBreaks, sessionVars
<1>8. CASE Crash
    <2>1. crashes' \in 0 .. MaxCrash
        BY <1>8 DEF Crash
    <2> QED BY <2>1, <1>8, RestartTypes DEF Crash
<1>9. ASSUME NEW k \in Key, Session(k) PROVE TypeOK'
    <2>1. stage' \in [Key -> Stage]
        BY <1>9 DEF Session, Login, Serve, Leave, Free, Stage
    <2>2. queue' \in [Key -> Seq(1 .. posted)]
        <3>1. << >> \in Seq(1 .. posted) /\ queue \in [Key -> Seq(1 .. posted)]
            BY NoWorks
        <3>2. UNCHANGED queue \/ queue' = [queue EXCEPT ![k] = << >>]
            BY <1>9 DEF Session, Login, Serve, Leave, Free
        <3> HIDE DEF TypeOK
        <3> QED BY <3>1, <3>2
    <2>3. UNCHANGED <<posted, tasks, cycleVars, writing, sent, runVars>>
        BY <1>9 DEF Session, Login, Serve, Leave, Free
    <2> QED BY <2>1, <2>2, <2>3 DEF cycleVars, runVars
<1>10. ASSUME NEW k \in Key, Pop(k) PROVE TypeOK'
    <2>1. Head(queue[k]) \in 1 .. posted /\ Tail(queue[k]) \in Seq(1 .. posted)
        <3>1. queue[k] \in Seq(1 .. posted) /\ queue[k] # << >>
            BY <1>10 DEF Pop
        <3> HIDE DEF TypeOK
        <3> QED BY <3>1, HeadTail
    <2>2. writing' \in [Key -> 0 .. posted] /\ queue' \in [Key -> Seq(1 .. posted)]
        <3>1. /\ writing' = [writing EXCEPT ![k] = Head(queue[k])]
              /\ queue' = [queue EXCEPT ![k] = Tail(queue[k])]
            BY <1>10 DEF Pop
        <3>2. writing \in [Key -> 0 .. posted] /\ queue \in [Key -> Seq(1 .. posted)]
            OBVIOUS
        <3> HIDE DEF TypeOK
        <3>3. Head(queue[k]) \in 0 .. posted
            BY <2>1
        <3> QED BY <2>1, <3>1, <3>2, <3>3
    <2> QED BY <2>2, <1>10 DEF Pop, cycleVars, runVars
<1>11. ASSUME NEW k \in Key, Write(k) PROVE TypeOK'
    <2>1. Append(sent[k], writing[k]) \in Seq(1 .. posted)
          /\ Len(Append(sent[k], writing[k])) = Len(sent[k]) + 1
        BY <1>11 DEF Write, NoTask
    <2>2. sent' \in [Key -> Seq(1 .. posted)]
        BY <2>1, <1>11 DEF Write
    <2>3. \A c \in Key : earlier'[c] \in 0 .. Len(sent'[c])
        <3>1. UNCHANGED earlier /\ sent' = [sent EXCEPT ![k] = Append(@, writing[k])]
            BY <1>11 DEF Write, runVars
        <3>2. /\ \A c \in Key : Len(sent[c]) \in Nat /\ earlier[c] \in 0 .. Len(sent[c])
              /\ sent \in [Key -> Seq(1 .. posted)]
            OBVIOUS
        <3> HIDE DEF TypeOK
        <3>3. \A c \in Key :
                  sent'[c] = IF c = k THEN Append(sent[k], writing[k]) ELSE sent[c]
            BY <3>1, <3>2
        <3> QED BY <2>1, <3>1, <3>2, <3>3
    <2>4. writing' \in [Key -> 0 .. posted]
        BY <1>11 DEF Write, NoTask
    <2> QED BY <2>2, <2>3, <2>4, <1>11 DEF Write, cycleVars, runVars
<1>12. ASSUME NEW k \in Key, WriteFails(k) PROVE TypeOK'
    BY <1>12 DEF WriteFails, NoTask, Stage, cycleVars, runVars
<1> QED BY <1>1, <1>2, <1>3, <1>4, <1>5, <1>6, <1>7, <1>8, <1>9, <1>10, <1>11, <1>12
        DEF Next, Consume
-----------------------------------------------------------------------------
(* The list and the result of LRANGE.                                      *)
LEMMA Facts ==
    ASSUME TypeOK
    PROVE  /\ tasks \in Seq(1 .. posted) /\ works \in Seq(1 .. posted)
           /\ posted \in Nat /\ index \in Nat /\ index <= Len(works)
           /\ Len(tasks) \in Nat /\ Len(works) \in Nat
           /\ \A i \in 1 .. Len(tasks) : tasks[i] \in 1 .. posted
           /\ \A i \in 1 .. Len(works) : works[i] \in 1 .. posted
           /\ cycling \in BOOLEAN /\ redis \in BOOLEAN
<1>1. /\ tasks \in Seq(1 .. posted) /\ works \in Seq(1 .. posted)
      /\ posted \in 0 .. MaxTask /\ index \in 0 .. Len(works)
      /\ cycling \in BOOLEAN /\ redis \in BOOLEAN
    BY DEF TypeOK
<1>2. Len(tasks) \in Nat /\ Len(works) \in Nat
    BY <1>1
<1>3. /\ \A i \in 1 .. Len(tasks) : tasks[i] \in 1 .. posted
      /\ \A i \in 1 .. Len(works) : works[i] \in 1 .. posted
    BY <1>1, Element
<1> QED BY <1>1, <1>2, <1>3

LEMMA ProduceFacts ==
    ASSUME TypeOK, Produce
    PROVE  /\ posted' = posted + 1 /\ Len(tasks') = Len(tasks) + 1
           /\ \A i \in 1 .. Len(tasks) : tasks'[i] = tasks[i]
           /\ tasks'[Len(tasks) + 1] = posted + 1
<1>1. posted \in Nat /\ tasks \in Seq(1 .. posted)
    BY Facts
<1>2. 1 .. posted \subseteq 1 .. posted + 1 /\ posted + 1 \in 1 .. posted + 1
    BY <1>1
<1>3. tasks \in Seq(1 .. posted + 1)
    BY <1>1, <1>2, SeqWider
<1>4. posted' = posted + 1 /\ tasks' = Append(tasks, posted + 1)
    BY DEF Produce
<1> QED BY <1>2, <1>3, <1>4, Appended

LEMMA ListStep ==
    ASSUME TypeOK, Shape, WorksAreHead, TasksSorted, [Next]_vars
    PROVE  Shape' /\ WorksAreHead' /\ TasksSorted'
<1>1. CASE UNCHANGED <<tasks, cycleVars, redis>>
    BY <1>1 DEF cycleVars, Shape, WorksAreHead, TasksSorted, Sorted
<1>2. CASE Produce
    BY <1>2, ProduceFacts, Facts
       DEF Produce, cycleVars, runVars, Shape, WorksAreHead, TasksSorted, Sorted
<1>3. CASE CycleRead
    <2>1. Shape' /\ TasksSorted'
        BY <1>3 DEF CycleRead, runVars, Shape, TasksSorted, Sorted
    <2>2. WorksAreHead'
        BY <1>3, ReadTypes DEF CycleRead, WorksAreHead
    <2> QED BY <2>1, <2>2
<1>4. CASE CyclePush
    BY <1>4 DEF CyclePush, runVars, Shape, WorksAreHead, TasksSorted, Sorted
<1>5. CASE Restart /\ UNCHANGED tasks
    BY <1>5, Facts, NoWorks DEF Restart, Shape, WorksAreHead, TasksSorted, Sorted
<1>6. CASE CycleTrim \/ CycleTrimBreaks
    <2>1. /\ works' = << >> /\ index' = 0 /\ cycling' = FALSE /\ index = Len(works)
          /\ BreakingRedis \/ UNCHANGED redis
          /\ tasks' = tasks \/ tasks' = SubSeq(tasks, index + 1, Len(tasks))
        BY <1>6 DEF CycleTrim, CycleTrimBreaks, runVars
    <2>2. Shape'
        BY <2>1 DEF Shape
    <2>3. WorksAreHead' /\ TasksSorted'
        <3>1. CASE tasks' = tasks
            BY <2>1, <3>1, Facts, NoWorks DEF WorksAreHead, TasksSorted, Sorted
        <3>2. CASE tasks' = SubSeq(tasks, index + 1, Len(tasks))
            BY <2>1, <3>2, Facts, TrimTypes, NoWorks DEF WorksAreHead, TasksSorted, Sorted
        <3> QED BY <2>1, <3>1, <3>2
    <2> QED BY <2>2, <2>3
<1>7. ASSUME NEW k \in Key, Session(k) \/ Consume(k) PROVE UNCHANGED <<tasks, cycleVars, redis>>
    BY <1>7 DEF Session, Login, Serve, Leave, Free, Consume, Pop, Write, WriteFails, runVars
<1>8. CASE UNCHANGED vars
    BY <1>8, <1>1 DEF vars, runVars
<1> QED BY <1>1, <1>2, <1>3, <1>4, <1>5, <1>6, <1>7, <1>8 DEF Next, CyclePoison, Crash

(* A task that cannot be read stays in the list.                           *)
LEMMA UnreadStep ==
    ASSUME TypeOK, Shape, WorksAreHead, TasksSorted, Unread, [Next]_vars
    PROVE  Unread'
<1> USE Facts DEF Unread
<1>1. CASE UNCHANGED <<posted, tasks, cycleVars>>
    BY <1>1 DEF cycleVars
<1>2. CASE Produce
    <2>1. UNCHANGED <<works, index>>
        BY <1>2 DEF Produce, cycleVars
    <2>2. ASSUME NEW p \in Poison, p <= posted'
          PROVE  \E i \in 1 .. Len(tasks') : tasks'[i] = p
        <3>1. p \in Nat /\ posted' = posted + 1
            BY <1>2, ProduceFacts
        <3>4. /\ Len(tasks') = Len(tasks) + 1 /\ Len(tasks) \in Nat
              /\ \A i \in 1 .. Len(tasks) : tasks'[i] = tasks[i]
              /\ tasks'[Len(tasks) + 1] = posted + 1
            BY <1>2, ProduceFacts
        <3>2. CASE p = posted + 1
            <4>1. Len(tasks) + 1 \in 1 .. Len(tasks')
                BY <3>4
            <4> QED BY <4>1, <3>2, <3>4
        <3>3. CASE p <= posted
            <4>1. PICK i \in 1 .. Len(tasks) : tasks[i] = p
                BY <3>3
            <4>2. i \in 1 .. Len(tasks') /\ tasks'[i] = p
                BY <4>1, <3>4
            <4> QED BY <4>2
        <3> QED BY <2>2, <3>1, <3>2, <3>3
    <2> QED BY <2>1, <2>2
<1>3. CASE CycleRead
    BY <1>3 DEF CycleRead
<1>4. CASE CyclePush
    <2>1. UNCHANGED <<posted, tasks, works>> /\ index' = index + 1 /\ works[index + 1] \notin Poison
        BY <1>4 DEF CyclePush
    <2> QED BY <2>1
<1>5. CASE Restart /\ UNCHANGED <<posted, tasks>>
    BY <1>5 DEF Restart
<1>6. CASE CycleTrim \/ CycleTrimBreaks
    <2>1. /\ index' = 0 /\ index = Len(works) /\ UNCHANGED posted
          /\ tasks' = tasks \/ tasks' = SubSeq(tasks, index + 1, Len(tasks))
        BY <1>6 DEF CycleTrim, CycleTrimBreaks
    <2>2. CASE tasks' = tasks
        BY <2>1, <2>2
    <2>3. CASE tasks' = SubSeq(tasks, index + 1, Len(tasks))
        <3>1. ASSUME NEW p \in Poison, p <= posted
              PROVE  \E i \in 1 .. Len(tasks') : tasks'[i] = p
            <4>1. PICK i \in 1 .. Len(tasks) : tasks[i] = p
                BY <3>1
            <4>2. ~(i <= index)
                BY <4>1, <2>1 DEF WorksAreHead
            <4>3. i - index \in 1 .. Len(tasks) - index
                BY <4>1, <4>2
            <4>4. Len(tasks') = Len(tasks) - index /\ tasks'[i - index] = tasks[index + (i - index)]
                BY <4>3, <2>1, <2>3, TrimTypes
            <4>5. index + (i - index) = i
                BY <4>1
            <4> QED BY <4>1, <4>3, <4>4, <4>5
        <3> QED BY <2>1, <3>1
    <2> QED BY <2>1, <2>2, <2>3
<1>7. ASSUME NEW k \in Key, Session(k) \/ Consume(k) PROVE UNCHANGED <<posted, tasks, cycleVars>>
    BY <1>7 DEF Session, Login, Serve, Leave, Free, Consume, Pop, Write, WriteFails
<1>8. CASE UNCHANGED vars
    BY <1>8, <1>1 DEF vars
<1> QED BY <1>1, <1>2, <1>3, <1>4, <1>5, <1>6, <1>7, <1>8 DEF Next, CyclePoison, Crash
-----------------------------------------------------------------------------
(* One user.                                                               *)
LEMMA KeyFacts ==
    ASSUME TypeOK, NEW k \in Key
    PROVE  /\ sent[k] \in Seq(1 .. posted) /\ queue[k] \in Seq(1 .. posted)
           /\ writing[k] \in 0 .. posted /\ writing[k] \in Nat
           /\ Len(sent[k]) \in Nat /\ Len(queue[k]) \in Nat
           /\ earlier[k] \in 0 .. Len(sent[k]) /\ From(k) \in 0 .. Len(sent[k])
           /\ \A i \in 1 .. Len(sent[k]) : sent[k][i] \in 1 .. posted
           /\ \A i \in 1 .. Len(queue[k]) : queue[k][i] \in 1 .. posted
<1>1. /\ sent[k] \in Seq(1 .. posted) /\ queue[k] \in Seq(1 .. posted)
      /\ writing[k] \in 0 .. posted /\ earlier[k] \in 0 .. Len(sent[k]) /\ posted \in Nat
    BY DEF TypeOK
<1>2. Len(sent[k]) \in Nat /\ Len(queue[k]) \in Nat
    BY <1>1
<1>3. /\ \A i \in 1 .. Len(sent[k]) : sent[k][i] \in 1 .. posted
      /\ \A i \in 1 .. Len(queue[k]) : queue[k][i] \in 1 .. posted
    BY <1>1, Element
<1>4. From(k) \in 0 .. Len(sent[k])
    BY <1>1, <1>2 DEF From
<1> QED BY <1>1, <1>2, <1>3, <1>4

(* The tasks of a user that nothing happens to stay in order, when the     *)
(* list is read, trimmed or extended.                                      *)
LEMMA FlowKeeps ==
    ASSUME TypeOK, NEW k \in Key, Flow(k), index' \in Nat, Len(tasks') \in Nat,
           \A j \in 1 .. Len(tasks') : tasks'[j] \in Nat,
           UNCHANGED <<sent[k], writing[k], queue[k], earlier[k]>>,
           \A j \in 1 .. Len(tasks') :
               redis' => \/ tasks'[j] > posted
                         \/ redis /\ \E i \in 1 .. Len(tasks) :
                                tasks'[j] = tasks[i] /\ (j > index' => i > index)
    PROVE  Flow(k)'
<1>1. /\ From(k)' = From(k) /\ sent'[k] = sent[k] /\ writing'[k] = writing[k]
      /\ queue'[k] = queue[k]
    BY DEF From
<1>2. /\ posted \in Nat /\ From(k) \in Nat /\ Len(sent[k]) \in Nat /\ Len(queue[k]) \in Nat
      /\ writing[k] \in 0 .. posted /\ redis \in BOOLEAN
      /\ \A i \in 1 .. Len(sent[k]) : sent[k][i] \in 1 .. posted
      /\ \A i \in 1 .. Len(queue[k]) : queue[k][i] \in 1 .. posted
    BY Facts, KeyFacts
<1>3. SentRun(k)' /\ Sorted(queue'[k])
    BY <1>1 DEF Flow, SentRun, Sorted
<1>4. ASSUME NEW e \in 0 .. posted, redis => \A i \in 1 .. Len(tasks) : e < tasks[i], redis',
             NEW j \in 1 .. Len(tasks')
      PROVE  e < tasks'[j]
    <2>1. CASE tasks'[j] > posted
        <3>1. e \in Nat /\ e <= posted /\ tasks'[j] \in Nat
            BY <1>2, <1>4
        <3> QED BY <2>1, <3>1, <1>2
    <2>2. CASE redis /\ \E i \in 1 .. Len(tasks) : tasks'[j] = tasks[i]
        BY <2>2, <1>4
    <2> QED BY <2>1, <2>2, <1>4
<1>5. SentBefore(k)'
    <2> SUFFICES ASSUME NEW i \in From(k) + 1 .. Len(sent[k])
                 PROVE  /\ writing[k] # NoTask => sent[k][i] < writing[k]
                        /\ \A j \in 1 .. Len(queue[k]) : sent[k][i] < queue[k][j]
                        /\ redis' => \A j \in 1 .. Len(tasks') : sent[k][i] < tasks'[j]
        BY <1>1 DEF SentBefore
    <2>1. i \in 1 .. Len(sent[k])
        BY <1>2
    <2>2. sent[k][i] \in 0 .. posted
        BY <2>1, <1>2
    <2> QED BY <2>2, <1>4 DEF Flow, SentBefore
<1>6. WritingBefore(k)'
    <2> SUFFICES ASSUME writing[k] # NoTask
                 PROVE  /\ \A j \in 1 .. Len(queue[k]) : writing[k] < queue[k][j]
                        /\ redis' => \A j \in 1 .. Len(tasks') : writing[k] < tasks'[j]
        BY <1>1 DEF WritingBefore
    <2> QED BY <1>2, <1>4 DEF Flow, WritingBefore
<1>7. QueueBefore(k)'
    <2> SUFFICES ASSUME redis', NEW i \in 1 .. Len(queue[k]),
                        NEW j \in index' + 1 .. Len(tasks')
                 PROVE  queue[k][i] < tasks'[j]
        BY <1>1 DEF QueueBefore
    <2>1. j \in 1 .. Len(tasks') /\ j > index'
        <3>1. index' \in Nat /\ Len(tasks') \in Nat
            OBVIOUS
        <3> QED BY <3>1
    <2>2. CASE tasks'[j] > posted
        <3>1. queue[k][i] \in 1 .. posted /\ tasks'[j] \in Nat
            BY <1>2, <2>1
        <3> QED BY <2>2, <3>1, <1>2
    <2>3. CASE redis /\ \E n \in 1 .. Len(tasks) : tasks'[j] = tasks[n] /\ n > index
        <3>1. PICK n \in 1 .. Len(tasks) : tasks'[j] = tasks[n] /\ n > index
            BY <2>3
        <3>2. index \in Nat /\ Len(tasks) \in Nat
            BY Facts
        <3>3. n \in index + 1 .. Len(tasks)
            BY <3>1, <3>2
        <3> QED BY <2>3, <3>1, <3>3 DEF Flow, QueueBefore
    <2> QED BY <2>1, <2>2, <2>3
<1> QED BY <1>3, <1>5, <1>6, <1>7, <1>1 DEF Flow

(* The steps of cycle_all() and of the session that touch the user.        *)
LEMMA FlowPush ==
    ASSUME TypeOK, Shape, WorksAreHead, TasksSorted, NEW k \in Key, Flow(k),
           CyclePush, queue'[k] = Append(queue[k], works[index + 1])
    PROVE  Flow(k)'
<1> DEFINE m == works[index + 1]
<1>1. /\ sent' = sent /\ writing' = writing /\ earlier' = earlier /\ tasks' = tasks
      /\ redis' = redis /\ index' = index + 1 /\ index + 1 \in 1 .. Len(works) /\ redis
    BY Facts DEF CyclePush, runVars, Shape
<1>2. index + 1 \in 1 .. Len(tasks) /\ m = tasks[index + 1] /\ m \in 1 .. posted
    BY <1>1, Facts DEF WorksAreHead
<1>3. /\ Len(queue'[k]) = Len(queue[k]) + 1 /\ queue'[k][Len(queue[k]) + 1] = m
      /\ \A i \in 1 .. Len(queue[k]) : queue'[k][i] = queue[k][i]
    BY <1>2, KeyFacts, Appended
<1>4. /\ index \in Nat /\ Len(queue[k]) \in Nat /\ Len(tasks) \in Nat /\ From(k)' = From(k)
      /\ \A i \in 1 .. Len(queue'[k]) : i \in 1 .. Len(queue[k]) \/ i = Len(queue[k]) + 1
    <2>1. index \in Nat /\ Len(queue[k]) \in Nat /\ Len(tasks) \in Nat
        BY Facts, KeyFacts
    <2>2. From(k)' = From(k)
        BY <1>1 DEF From
    <2> QED BY <2>1, <2>2, <1>3
<1>5. \A i \in 1 .. Len(queue[k]) : queue[k][i] < tasks[index + 1]
    BY <1>1, <1>2, <1>4 DEF Flow, QueueBefore
<1> HIDE DEF m
<1>6. Sorted(queue'[k])
    <2> SUFFICES ASSUME NEW i \in 1 .. Len(queue'[k]), NEW j \in 1 .. Len(queue'[k]), i < j
                 PROVE  queue'[k][i] < queue'[k][j]
        BY DEF Sorted
    <2>1. i \in 1 .. Len(queue[k])
        BY <1>3, <1>4
    <2>2. CASE j \in 1 .. Len(queue[k])
        BY <2>1, <2>2, <1>3 DEF Flow, Sorted
    <2>3. CASE j = Len(queue[k]) + 1
        BY <2>1, <2>3, <1>2, <1>3, <1>5
    <2> QED BY <2>2, <2>3, <1>4
<1>7. SentRun(k)'
    BY <1>1, <1>4 DEF Flow, SentRun
<1>8. SentBefore(k)'
    <2> SUFFICES ASSUME NEW i \in From(k) + 1 .. Len(sent[k])
                 PROVE  /\ writing[k] # NoTask => sent[k][i] < writing[k]
                        /\ \A j \in 1 .. Len(queue'[k]) : sent[k][i] < queue'[k][j]
                        /\ \A j \in 1 .. Len(tasks) : sent[k][i] < tasks[j]
        BY <1>1, <1>4 DEF SentBefore
    <2> QED BY <1>1, <1>2, <1>3, <1>4 DEF Flow, SentBefore
<1>9. WritingBefore(k)'
    BY <1>1, <1>2, <1>3, <1>4 DEF Flow, WritingBefore
<1>10. QueueBefore(k)'
    <2> SUFFICES ASSUME NEW i \in 1 .. Len(queue'[k]), NEW j \in index + 2 .. Len(tasks)
                 PROVE  queue'[k][i] < tasks[j]
        BY <1>1, <1>4 DEF QueueBefore
    <2>1. CASE i \in 1 .. Len(queue[k])
        BY <2>1, <1>1, <1>3, <1>4 DEF Flow, QueueBefore
    <2>2. CASE i = Len(queue[k]) + 1
        BY <2>2, <1>2, <1>3, <1>4 DEF TasksSorted, Sorted
    <2> QED BY <2>1, <2>2, <1>4
<1> QED BY <1>6, <1>7, <1>8, <1>9, <1>10 DEF Flow

(* What is kept when the queue loses its head to the write, when what is   *)
(* being written is lost, and when the queue is emptied.                   *)
LEMMA FlowLess ==
    ASSUME TypeOK, NEW k \in Key, Flow(k),
           UNCHANGED <<sent[k], earlier[k], tasks, index, redis>>,
           writing'[k] = writing[k] \/ writing'[k] = NoTask,
           queue'[k] = queue[k] \/ queue'[k] = << >>
    PROVE  Flow(k)'
<1>1. Len(<< >>) = 0 /\ From(k)' = From(k) /\ sent'[k] = sent[k]
      /\ tasks' = tasks /\ index' = index /\ redis' = redis
    BY NoWorks DEF From
<1>2. Len(queue[k]) \in Nat
    BY KeyFacts
<1>3. Sorted(queue'[k])
    BY <1>1 DEF Flow, Sorted
<1>4. \A j \in 1 .. Len(queue'[k]) : queue'[k] = queue[k]
    BY <1>1
<1>5. SentRun(k)'
    BY <1>1 DEF Flow, SentRun
<1>6. SentBefore(k)'
    BY <1>1, <1>4 DEF Flow, SentBefore
<1>7. WritingBefore(k)'
    BY <1>1, <1>4 DEF Flow, WritingBefore
<1>8. QueueBefore(k)'
    BY <1>1, <1>4 DEF Flow, QueueBefore
<1> QED BY <1>3, <1>5, <1>6, <1>7, <1>8 DEF Flow

LEMMA FlowPop ==
    ASSUME TypeOK, Shape, NEW k \in Key, Flow(k), Pop(k)
    PROVE  Flow(k)'
<1>1. /\ sent' = sent /\ earlier' = earlier /\ tasks' = tasks /\ index' = index
      /\ redis' = redis /\ index = 0 /\ queue[k] # << >> /\ writing[k] = NoTask
      /\ writing'[k] = Head(queue[k]) /\ queue'[k] = Tail(queue[k])
    BY DEF Pop, cycleVars, runVars, TypeOK, Shape
<1>2. /\ Len(queue[k]) >= 1 /\ writing'[k] = queue[k][1] /\ Len(queue'[k]) = Len(queue[k]) - 1
      /\ \A i \in 1 .. Len(queue[k]) - 1 : queue'[k][i] = queue[k][i + 1]
    BY <1>1, KeyFacts, HeadTail
<1>3. Len(queue[k]) \in Nat /\ Len(tasks) \in Nat /\ From(k)' = From(k) /\ 1 \in 1 .. Len(queue[k])
    BY <1>1, <1>2, KeyFacts, Facts DEF From
<1>4. \A i \in 1 .. Len(queue'[k]) : i + 1 \in 1 .. Len(queue[k]) /\ queue'[k][i] = queue[k][i + 1]
    BY <1>2, <1>3
<1>5. \A i, j \in 1 .. Len(queue[k]) : i < j => queue[k][i] < queue[k][j]
    BY DEF Flow, Sorted
<1>6. Sorted(queue'[k])
    <2> SUFFICES ASSUME NEW i \in 1 .. Len(queue'[k]), NEW j \in 1 .. Len(queue'[k]), i < j
                 PROVE  queue'[k][i] < queue'[k][j]
        BY DEF Sorted
    <2>1. i + 1 < j + 1
        BY <1>2, <1>3
    <2> QED BY <2>1, <1>4, <1>5
<1>7. SentRun(k)'
    BY <1>1, <1>3 DEF Flow, SentRun
<1>8. SentBefore(k)'
    <2> SUFFICES ASSUME NEW i \in From(k) + 1 .. Len(sent[k])
                 PROVE  /\ sent[k][i] < queue[k][1]
                        /\ \A j \in 1 .. Len(queue'[k]) : sent[k][i] < queue'[k][j]
                        /\ redis => \A j \in 1 .. Len(tasks) : sent[k][i] < tasks[j]
        BY <1>1, <1>2, <1>3 DEF SentBefore
    <2> QED BY <1>3, <1>4 DEF Flow, SentBefore
<1>9. WritingBefore(k)'
    <2>1. \A j \in 1 .. Len(queue'[k]) : queue[k][1] < queue'[k][j]
        <3> TAKE j \in 1 .. Len(queue'[k])
        <3>1. 1 < j + 1
            BY <1>2, <1>3
        <3> QED BY <3>1, <1>3, <1>4, <1>5
    <2>2. redis => \A j \in 1 .. Len(tasks) : queue[k][1] < tasks[j]
        BY <1>1, <1>3 DEF Flow, QueueBefore
    <2> QED BY <2>1, <2>2, <1>1, <1>2 DEF WritingBefore
<1>10. QueueBefore(k)'
    BY <1>1, <1>4 DEF Flow, QueueBefore
<1> QED BY <1>6, <1>7, <1>8, <1>9, <1>10 DEF Flow

LEMMA FlowWrite ==
    ASSUME TypeOK, NEW k \in Key, Flow(k), Write(k)
    PROVE  Flow(k)'
<1>1. /\ queue' = queue /\ earlier' = earlier /\ tasks' = tasks /\ index' = index /\ redis' = redis
      /\ writing[k] # NoTask /\ writing'[k] = NoTask /\ sent'[k] = Append(sent[k], writing[k])
    BY DEF Write, cycleVars, runVars, TypeOK
<1>2. writing[k] \in 1 .. posted
    BY <1>1, KeyFacts DEF NoTask
<1>3. /\ Len(sent'[k]) = Len(sent[k]) + 1 /\ sent'[k][Len(sent[k]) + 1] = writing[k]
      /\ \A i \in 1 .. Len(sent[k]) : sent'[k][i] = sent[k][i]
    BY <1>1, <1>2, KeyFacts, Appended
<1>4. From(k)' = From(k) /\ From(k) \in Nat /\ Len(sent[k]) \in Nat
    BY <1>1, KeyFacts DEF From
<1>5. \A i \in From(k) + 1 .. Len(sent'[k]) :
          \/ i \in From(k) + 1 .. Len(sent[k]) /\ sent'[k][i] = sent[k][i]
          \/ i = Len(sent[k]) + 1 /\ sent'[k][i] = writing[k]
    BY <1>3, <1>4
<1>6. SentRun(k)'
    <2> SUFFICES ASSUME NEW i \in From(k) + 1 .. Len(sent'[k]),
                        NEW j \in From(k) + 1 .. Len(sent'[k]), i < j
                 PROVE  sent'[k][i] < sent'[k][j]
        BY <1>4 DEF SentRun
    <2>1. i \in From(k) + 1 .. Len(sent[k]) /\ sent'[k][i] = sent[k][i]
        BY <1>3, <1>4
    <2>2. CASE j \in From(k) + 1 .. Len(sent[k]) /\ sent'[k][j] = sent[k][j]
        BY <2>1, <2>2 DEF Flow, SentRun
    <2>3. CASE sent'[k][j] = writing[k]
        BY <2>1, <2>3, <1>1 DEF Flow, SentBefore
    <2> QED BY <2>2, <2>3, <1>5
<1>7. SentBefore(k)'
    <2> SUFFICES ASSUME NEW i \in From(k) + 1 .. Len(sent'[k])
                 PROVE  /\ \A j \in 1 .. Len(queue[k]) : sent'[k][i] < queue[k][j]
                        /\ redis => \A j \in 1 .. Len(tasks) : sent'[k][i] < tasks[j]
        BY <1>1, <1>4 DEF SentBefore
    <2>1. CASE i \in From(k) + 1 .. Len(sent[k]) /\ sent'[k][i] = sent[k][i]
        BY <2>1 DEF Flow, SentBefore
    <2>2. CASE sent'[k][i] = writing[k]
        BY <2>2, <1>1 DEF Flow, WritingBefore
    <2> QED BY <2>1, <2>2, <1>5
<1>8. WritingBefore(k)' /\ Sorted(queue'[k]) /\ QueueBefore(k)'
    BY <1>1 DEF Flow, WritingBefore, Sorted, QueueBefore
<1> QED BY <1>6, <1>7, <1>8 DEF Flow

(* Without failures of LTRIM what was sent to k is before what is to come, *)
(* with them the list is read again, but what was sent is behind From(k).  *)
LEMMA FlowRestart ==
    ASSUME TypeOK, Shape, NEW k \in Key, Flow(k), Restart, UNCHANGED <<tasks, sent>>
    PROVE  Flow(k)'
<1>1. /\ queue'[k] = << >> /\ writing'[k] = NoTask /\ earlier'[k] = Len(sent[k]) /\ sent' = sent
      /\ tasks' = tasks /\ index' = 0 /\ Len(<< >>) = 0 /\ Len(sent[k]) \in Nat
    BY NoWorks, KeyFacts DEF Restart
<1>2. WritingBefore(k)' /\ Sorted(queue'[k]) /\ QueueBefore(k)'
    BY <1>1 DEF WritingBefore, Sorted, QueueBefore
<1>3. CASE BreakingRedis
    <2>1. \A i \in From(k)' + 1 .. Len(sent'[k]) : FALSE
        BY <1>1, <1>3 DEF From
    <2> QED BY <2>1, <1>2 DEF Flow, SentRun, SentBefore
<1>4. CASE ~BreakingRedis
    <2>1. From(k)' = From(k) /\ redis
        BY <1>4, Facts DEF From, Shape
    <2>2. SentRun(k)'
        BY <1>1, <2>1 DEF Flow, SentRun
    <2>3. SentBefore(k)'
        BY <1>1, <2>1 DEF Flow, SentBefore
    <2> QED BY <1>2, <2>2, <2>3 DEF Flow
<1> QED BY <1>3, <1>4

LEMMA FlowStep ==
    ASSUME TypeOK, Shape, WorksAreHead, TasksSorted, TypeOK', NEW k \in Key, Flow(k), [Next]_vars
    PROVE  Flow(k)'
<1>0. index' \in Nat /\ Len(tasks') \in Nat /\ \A j \in 1 .. Len(tasks') : tasks'[j] \in Nat
    <2>1. posted' \in Nat /\ tasks' \in Seq(1 .. posted') /\ index' \in Nat
        BY DEF TypeOK
    <2>2. \A j \in 1 .. Len(tasks') : tasks'[j] \in 1 .. posted'
        BY <2>1, Element
    <2> QED BY <2>1, <2>2
<1>1. CASE UNCHANGED <<sent[k], writing[k], queue[k], earlier[k], tasks, index, redis>>
    BY <1>1, FlowLess
<1>2. CASE Produce
    <2>1. UNCHANGED <<sent[k], writing[k], queue[k], earlier[k]>> /\ index' = index /\ redis' = redis
        BY <1>2 DEF Produce, cycleVars, sessionVars, runVars
    <2>2. \A j \in 1 .. Len(tasks') : tasks'[j] > posted \/
              (j \in 1 .. Len(tasks) /\ tasks'[j] = tasks[j])
        BY <1>2, ProduceFacts, Facts
    <2> QED BY <1>0, <2>1, <2>2, FlowKeeps
<1>3. CASE CycleRead
    <2>1. UNCHANGED <<sent[k], writing[k], queue[k], earlier[k], tasks, index, redis>>
        BY <1>3 DEF CycleRead, sessionVars, runVars, Shape
    <2> QED BY <2>1, <1>1
<1>4. CASE CyclePush
    <2>1. CASE queue'[k] = Append(queue[k], works[index + 1])
        BY <1>4, <2>1, FlowPush
    <2>2. CASE queue'[k] = queue[k]
        <3>1. /\ UNCHANGED <<sent[k], writing[k], queue[k], earlier[k]>>
              /\ tasks' = tasks /\ redis' = redis /\ index' = index + 1 /\ index \in Nat
            BY <1>4, <2>2, Facts DEF CyclePush, runVars
        <3>2. redis \in BOOLEAN /\ \A j \in 1 .. Len(tasks) : j > index + 1 => j > index
            BY <3>1, Facts
        <3>3. \A j \in 1 .. Len(tasks') :
                  redis' => redis /\ \E i \in 1 .. Len(tasks) :
                                tasks'[j] = tasks[i] /\ (j > index' => i > index)
            BY <3>1, <3>2
        <3> QED BY <1>0, <3>1, <3>3, FlowKeeps
    <2> QED BY <1>4, <2>1, <2>2 DEF CyclePush, TypeOK
<1>5. CASE Restart /\ UNCHANGED <<tasks, sent>>
    BY <1>5, FlowRestart
<1>6. CASE CycleTrim \/ CycleTrimBreaks
    <2>1. /\ UNCHANGED <<sent[k], writing[k], queue[k], earlier[k]>>
          /\ index' = 0 /\ index = Len(works)
          /\ redis' => tasks' = SubSeq(tasks, index + 1, Len(tasks)) /\ redis
        BY <1>6 DEF CycleTrim, CycleTrimBreaks, sessionVars, runVars
    <2>2. ASSUME redis', NEW j \in 1 .. Len(tasks')
          PROVE  redis /\ \E i \in 1 .. Len(tasks) :
                     tasks'[j] = tasks[i] /\ (j > index' => i > index)
        <3>1. /\ tasks' = SubSeq(tasks, index + 1, Len(tasks)) /\ redis
              /\ Len(tasks') = Len(tasks) - index /\ index \in 0 .. Len(tasks)
              /\ \A i \in 1 .. Len(tasks) - index : tasks'[i] = tasks[index + i]
            BY <2>1, <2>2, TrimTypes
        <3>2. j \in 1 .. Len(tasks) - index
            BY <3>1
        <3>3. index + j \in 1 .. Len(tasks) /\ index + j > index
            BY <3>2, Facts
        <3> QED BY <3>1, <3>2, <3>3
    <2> QED BY <1>0, <2>1, <2>2, FlowKeeps
<1>7. ASSUME NEW c \in Key, Session(c) PROVE Flow(k)'
    <2>1. /\ UNCHANGED <<sent, writing, earlier, tasks, index, redis>>
          /\ UNCHANGED queue \/ queue' = [queue EXCEPT ![c] = << >>]
        BY <1>7 DEF Session, Login, Serve, Leave, Free, cycleVars, runVars
    <2>2. queue'[k] = queue[k] \/ queue'[k] = << >>
        BY <2>1 DEF TypeOK
    <2> QED BY <2>1, <2>2, FlowLess
<1>8. ASSUME NEW c \in Key, Consume(c), c # k PROVE Flow(k)'
    <2>1. UNCHANGED <<sent[k], writing[k], queue[k], earlier[k], tasks, index, redis>>
        BY <1>8 DEF Consume, Pop, Write, WriteFails, cycleVars, runVars, TypeOK
    <2> QED BY <2>1, <1>1
<1>9. CASE Pop(k)
    BY <1>9, FlowPop
<1>10. CASE Write(k)
    BY <1>10, FlowWrite
<1>11. CASE WriteFails(k)
    <2>1. UNCHANGED <<sent, queue, earlier, tasks, index, redis>> /\ writing'[k] = NoTask
        BY <1>11 DEF WriteFails, cycleVars, runVars, TypeOK
    <2> QED BY <2>1, FlowLess
<1>12. CASE UNCHANGED vars
    BY <1>12, <1>1 DEF vars, cycleVars, sessionVars, runVars
<1> QED BY <1>2, <1>3, <1>4, <1>5, <1>6, <1>7, <1>8, <1>9, <1>10, <1>11, <1>12
        DEF Next, CyclePoison, Crash, Consume
-----------------------------------------------------------------------------
(* No task that cannot be read is overtaken.                               *)
LEMMA NextIsBelow ==
    ASSUME TypeOK, WorksAreHead, TasksSorted, Unread, CyclePush, NEW p \in Poison
    PROVE  works[index + 1] < p
<1>1. /\ index + 1 \in 1 .. Len(works) /\ index \in Nat /\ Len(works) \in Nat
      /\ works[index + 1] \notin Poison
    BY Facts DEF CyclePush
<1>2. /\ Len(works) <= Len(tasks) /\ Len(tasks) \in Nat
      /\ \A i \in 1 .. Len(works) : works[i] = tasks[i]
    BY Facts DEF WorksAreHead
<1>3. works[index + 1] \in 1 .. posted /\ posted \in Nat /\ p \in Nat
    BY <1>1, Facts
<1>4. CASE p > posted
    BY <1>3, <1>4
<1>5. CASE p <= posted
    <2>1. PICK i \in 1 .. Len(tasks) : tasks[i] = p
        BY <1>5 DEF Unread
    <2>2. i # index + 1
        BY <2>1, <1>1, <1>2
    <2>3. ~(i <= index)
        <3> SUFFICES ASSUME i <= index PROVE FALSE
            OBVIOUS
        <3>1. i \in 1 .. index /\ i \in 1 .. Len(works)
            BY <1>1, <2>1
        <3> QED BY <3>1, <2>1, <1>2 DEF Unread
    <2>4. index + 1 \in 1 .. Len(tasks) /\ index + 1 < i
        BY <2>1, <2>2, <2>3, <1>1, <1>2
    <2>5. tasks[index + 1] < tasks[i]
        BY <2>1, <2>4 DEF TasksSorted, Sorted
    <2> QED BY <2>1, <2>5, <1>1, <1>2
<1> QED BY <1>3, <1>4, <1>5

LEMMA BelowStep ==
    ASSUME TypeOK, WorksAreHead, TasksSorted, Unread, NEW k \in Key, Below(k), [Next]_vars
    PROVE  Below(k)'
<1>1. /\ Len(sent[k]) \in Nat /\ Len(queue[k]) \in Nat /\ Len(<< >>) = 0
      /\ \A p \in Poison : p \in Nat /\ p > 0
    BY KeyFacts, NoWorks
<1>2. CASE UNCHANGED <<sent[k], queue[k], writing[k]>>
    BY <1>2 DEF Below
<1>3. CASE CyclePush
    <2> DEFINE m == works[index + 1]
    <2>1. sent' = sent /\ writing' = writing
        BY <1>3 DEF CyclePush
    <2>2. CASE queue'[k] = queue[k]
        BY <2>1, <2>2 DEF Below
    <2>3. CASE queue'[k] = Append(queue[k], m)
        <3>1. m \in 1 .. posted /\ queue[k] \in Seq(1 .. posted)
            BY <1>3, Facts, KeyFacts DEF CyclePush
        <3>2. \A p \in Poison : m < p
            BY <1>3, NextIsBelow
        <3> HIDE DEF m
        <3>3. /\ Len(queue'[k]) = Len(queue[k]) + 1 /\ queue'[k][Len(queue[k]) + 1] = m
              /\ \A i \in 1 .. Len(queue[k]) : queue'[k][i] = queue[k][i]
            BY <3>1, <2>3, Appended
        <3>4. \A i \in 1 .. Len(queue'[k]) : i \in 1 .. Len(queue[k]) \/ i = Len(queue[k]) + 1
            BY <3>3, <1>1
        <3>5. \A p \in Poison : \A i \in 1 .. Len(queue'[k]) : queue'[k][i] < p
            BY <3>2, <3>3, <3>4 DEF Below
        <3> QED BY <3>5, <2>1 DEF Below
    <2> QED BY <1>3, <2>2, <2>3 DEF CyclePush, TypeOK
<1>4. CASE Restart /\ UNCHANGED sent
    <2>1. sent' = sent /\ queue'[k] = << >> /\ writing'[k] = NoTask
        BY <1>4 DEF Restart
    <2>2. \A i \in 1 .. Len(queue'[k]) : FALSE
        BY <2>1, <1>1
    <2>3. \A p \in Poison : writing'[k] < p
        BY <2>1, <1>1 DEF NoTask
    <2> QED BY <2>1, <2>2, <2>3 DEF Below
<1>5. ASSUME NEW c \in Key, Session(c) PROVE Below(k)'
    <2>1. /\ sent' = sent /\ writing' = writing
          /\ queue'[k] = queue[k] \/ queue'[k] = << >>
        BY <1>5 DEF Session, Login, Serve, Leave, Free, TypeOK
    <2> QED BY <2>1, <1>1 DEF Below
<1>6. ASSUME NEW c \in Key, Consume(c), c # k PROVE UNCHANGED <<sent[k], queue[k], writing[k]>>
    BY <1>6 DEF Consume, Pop, Write, WriteFails, TypeOK
<1>7. CASE Pop(k)
    <2>1. /\ sent' = sent /\ queue[k] # << >> /\ queue[k] \in Seq(1 .. posted)
          /\ writing'[k] = Head(queue[k]) /\ queue'[k] = Tail(queue[k])
        BY <1>7 DEF Pop, TypeOK
    <2>2. /\ Len(queue[k]) >= 1 /\ writing'[k] = queue[k][1] /\ Len(queue'[k]) = Len(queue[k]) - 1
          /\ \A i \in 1 .. Len(queue[k]) - 1 : queue'[k][i] = queue[k][i + 1]
        BY <2>1, HeadTail
    <2>3. \A i \in 1 .. Len(queue'[k]) : i + 1 \in 1 .. Len(queue[k]) /\ queue'[k][i] = queue[k][i + 1]
        BY <2>2, <1>1
    <2>4. 1 \in 1 .. Len(queue[k])
        BY <2>2, <1>1
    <2> QED BY <2>1, <2>2, <2>3, <2>4 DEF Below
<1>8. CASE Write(k)
    <2>1. /\ queue' = queue /\ writing[k] # NoTask /\ writing'[k] = NoTask
          /\ sent'[k] = Append(sent[k], writing[k])
        BY <1>8 DEF Write, TypeOK
    <2>0. sent[k] \in Seq(1 .. posted) /\ writing[k] \in 1 .. posted
        BY <2>1, KeyFacts DEF NoTask
    <2>2. /\ Len(sent'[k]) = Len(sent[k]) + 1 /\ sent'[k][Len(sent[k]) + 1] = writing[k]
          /\ \A i \in 1 .. Len(sent[k]) : sent'[k][i] = sent[k][i]
        BY <2>0, <2>1, Appended
    <2>3. \A i \in 1 .. Len(sent'[k]) : i \in 1 .. Len(sent[k]) \/ i = Len(sent[k]) + 1
        BY <2>2, <1>1
    <2>4. \A p \in Poison : \A i \in 1 .. Len(sent'[k]) : sent'[k][i] < p
        BY <2>2, <2>3 DEF Below
    <2> QED BY <2>1, <2>4, <1>1 DEF Below, NoTask
<1>9. CASE WriteFails(k)
    <2>1. sent' = sent /\ queue' = queue /\ writing'[k] = NoTask
        BY <1>9 DEF WriteFails, TypeOK
    <2> QED BY <2>1, <1>1 DEF Below, NoTask
<1>10. CASE Produce \/ CycleRead \/ CycleTrim \/ CycleTrimBreaks \/ UNCHANGED vars
    BY <1>10, <1>2 DEF Produce, CycleRead, CycleTrim, CycleTrimBreaks, vars, sessionVars
<1> QED BY <1>2, <1>3, <1>4, <1>5, <1>6, <1>7, <1>8, <1>9, <1>10
        DEF Next, CyclePoison, Crash, Consume
-----------------------------------------------------------------------------
(* What cycle_all() has dealt with.                                        *)
LEMMA DealtStep ==
    ASSUME TypeOK, Shape, Dealt, [Next]_vars
    PROVE  Dealt'
<1>1. CASE index' = 0
    BY <1>1 DEF Dealt
<1>2. CASE UNCHANGED <<index, works, stage, queue>>
    BY <1>2 DEF Dealt, InSeq
<1>3. CASE CyclePush
    <2> DEFINE m == works[index + 1]
    <2>1. /\ index' = index + 1 /\ index \in Nat /\ works' = works /\ stage' = stage
          /\ index + 1 \in 1 .. Len(works)
          /\ queue' = IF stage[To[m]] = "off" THEN queue
                      ELSE [queue EXCEPT ![To[m]] = Append(queue[To[m]], m)]
        BY <1>3, Facts DEF CyclePush
    <2>0. m \in 1 .. posted /\ m \in 1 .. MaxTask /\ To[m] \in Key
        <3>1. m \in 1 .. posted
            BY <2>1, Facts
        <3>2. posted \in Nat /\ posted <= MaxTask
            BY DEF TypeOK
        <3>3. m \in 1 .. MaxTask
            BY <3>1, <3>2
        <3> QED BY <3>1, <3>3
    <2> HIDE DEF m
    <2>2. \A c \in Key : queue'[c] = queue[c] \/ queue'[c] = Append(queue[c], m)
        BY <2>0, <2>1 DEF TypeOK
    <2>3. ASSUME NEW c \in Key PROVE InSeq(queue[c]) \subseteq InSeq(queue'[c])
        <3>1. queue[c] \in Seq(1 .. posted) /\ Len(queue[c]) \in Nat
            BY KeyFacts
        <3>2. /\ Len(Append(queue[c], m)) = Len(queue[c]) + 1
              /\ \A i \in 1 .. Len(queue[c]) : Append(queue[c], m)[i] = queue[c][i]
            BY <3>1, <2>0, Appended
        <3>3. InSeq(queue[c]) \subseteq InSeq(Append(queue[c], m))
            BY <3>1, <3>2 DEF InSeq
        <3> QED BY <2>2, <3>3
    <2>4. stage[To[m]] # "off" => m \in InSeq(queue'[To[m]])
        <3> SUFFICES ASSUME stage[To[m]] # "off" PROVE m \in InSeq(queue'[To[m]])
            OBVIOUS
        <3>1. queue[To[m]] \in Seq(1 .. posted) /\ Len(queue[To[m]]) \in Nat
            BY <2>0, KeyFacts
        <3>2. queue'[To[m]] = Append(queue[To[m]], m)
            BY <2>0, <2>1 DEF TypeOK
        <3>3. /\ Len(queue'[To[m]]) = Len(queue[To[m]]) + 1
              /\ queue'[To[m]][Len(queue[To[m]]) + 1] = m
            BY <2>0, <3>1, <3>2, Appended
        <3>4. Len(queue[To[m]]) + 1 \in 1 .. Len(queue'[To[m]])
            BY <3>1, <3>3
        <3> QED BY <3>3, <3>4 DEF InSeq
    <2>5. \A i \in 1 .. index' : i \in 1 .. index \/ i = index + 1
        BY <2>1
    <2>6. \A i \in 1 .. index : To[works[i]] \in Key
        <3>1. /\ posted <= MaxTask /\ posted \in Nat /\ index <= Len(works) /\ Len(works) \in Nat
              /\ \A i \in 1 .. Len(works) : works[i] \in 1 .. posted
            <4>1. posted <= MaxTask
                BY DEF TypeOK
            <4> QED BY <4>1, Facts
        <3>2. \A i \in 1 .. index : works[i] \in 1 .. MaxTask
            BY <2>1, <3>1
        <3> QED BY <3>2
    <2>7. ASSUME NEW i \in 1 .. index', stage[To[works[i]]] # "off"
          PROVE  works[i] \in InSeq(queue'[To[works[i]]])
        <3>1. CASE i \in 1 .. index
            BY <3>1, <2>3, <2>6, <2>7 DEF Dealt
        <3>2. CASE i = index + 1
            BY <3>2, <2>4, <2>7 DEF m
        <3> QED BY <2>5, <3>1, <3>2
    <2> QED BY <2>1, <2>7 DEF Dealt
<1>4. ASSUME NEW k \in Key, Session(k) \/ Consume(k) PROVE index' = 0
    BY <1>4 DEF Session, Login, Serve, Leave, Free, Consume, Pop, Write, WriteFails,
                cycleVars, Shape
<1>5. CASE Produce
    BY <1>5, <1>2 DEF Produce, cycleVars, sessionVars
<1>6. CASE CycleRead \/ CyclePoison \/ CycleTrim \/ CycleTrimBreaks \/ Crash
    BY <1>6, <1>1 DEF CycleRead, CyclePoison, CycleTrim, CycleTrimBreaks, Crash, Restart
<1>7. CASE UNCHANGED vars
    BY <1>7, <1>2 DEF vars, cycleVars, sessionVars
<1> QED BY <1>1, <1>3, <1>4, <1>5, <1>6, <1>7 DEF Next
-----------------------------------------------------------------------------
(* Whose tasks are on their way.                                           *)
LEMMA Emptied == InSeq(<< >>) = {}
BY DEF InSeq

LEMMA AppendedSet ==
    ASSUME NEW S, NEW s \in Seq(S), NEW e
    PROVE  InSeq(Append(s, e)) = InSeq(s) \cup {e}
<1> DEFINE t == Append(s, e)
<1>1. /\ Len(s) \in Nat /\ Len(t) = Len(s) + 1 /\ t[Len(s) + 1] = e
      /\ \A i \in 1 .. Len(s) : t[i] = s[i]
    OBVIOUS
<1>2. /\ \A i \in 1 .. Len(t) : i \in 1 .. Len(s) \/ i = Len(s) + 1
      /\ \A i \in 1 .. Len(s) : i \in 1 .. Len(t)
      /\ Len(s) + 1 \in 1 .. Len(t)
    BY <1>1
<1> HIDE DEF t
<1>3. InSeq(t) \subseteq InSeq(s) \cup {e}
    BY <1>1, <1>2, Zenon DEF InSeq
<1>4. InSeq(s) \subseteq InSeq(t)
    BY <1>1, <1>2, Zenon DEF InSeq
<1>5. e \in InSeq(t)
    BY <1>1, <1>2, Zenon DEF InSeq
<1>6. InSeq(t) = InSeq(s) \cup {e}
    BY <1>3, <1>4, <1>5
<1> QED BY <1>6, Zenon DEF t

LEMMA HeadTailSet ==
    ASSUME NEW S, NEW s \in Seq(S), s # << >>
    PROVE  InSeq(s) = InSeq(Tail(s)) \cup {Head(s)}
<1>1. /\ Len(s) \in Nat /\ Len(s) >= 1 /\ Head(s) = s[1] /\ Len(Tail(s)) = Len(s) - 1
      /\ \A i \in 1 .. Len(s) - 1 : Tail(s)[i] = s[i + 1]
    BY HeadTail
<1>2. \A i \in 1 .. Len(s) : i = 1 \/ (i - 1 \in 1 .. Len(Tail(s)) /\ s[i] = Tail(s)[i - 1])
    BY <1>1
<1>3. \A i \in 1 .. Len(Tail(s)) : i + 1 \in 1 .. Len(s) /\ Tail(s)[i] = s[i + 1]
    BY <1>1
<1>4. 1 \in 1 .. Len(s) /\ Head(s) = s[1]
    BY <1>1
<1>5. ASSUME NEW i \in 1 .. Len(s) PROVE s[i] \in InSeq(Tail(s)) \cup {Head(s)}
    BY <1>2, <1>4, <1>5, Zenon DEF InSeq
<1>6. ASSUME NEW i \in 1 .. Len(Tail(s)) PROVE Tail(s)[i] \in InSeq(s)
    BY <1>3, <1>6, Zenon DEF InSeq
<1>7. Head(s) \in InSeq(s)
    BY <1>4, Zenon DEF InSeq
<1>8. InSeq(s) \subseteq InSeq(Tail(s)) \cup {Head(s)}
    BY <1>5, Zenon DEF InSeq
<1>9. InSeq(Tail(s)) \subseteq InSeq(s)
    BY <1>6, Zenon DEF InSeq
<1> QED BY <1>7, <1>8, <1>9

LEMMA ToKey == ASSUME TypeOK PROVE \A m \in 1 .. posted : m \in 1 .. MaxTask /\ To[m] \in Key
<1>1. posted \in 0 .. MaxTask
    BY DEF TypeOK
<1> QED BY <1>1

LEMMA AddressedStep ==
    ASSUME TypeOK, NEW k \in Key, Addressed(k), [Next]_vars
    PROVE  Addressed(k)'
<1>1. CASE /\ writing'[k] = writing[k] \/ writing'[k] = NoTask
           /\ queue'[k] = queue[k] \/ queue'[k] = << >>
    BY <1>1, Emptied DEF Addressed
<1>2. CASE CyclePush
    <2> DEFINE m == works[index + 1]
    <2>1. m \in 1 .. posted /\ To[m] \in Key /\ writing' = writing
        BY <1>2, Facts, ToKey DEF CyclePush
    <2>2. \/ queue' = queue
          \/ queue' = [queue EXCEPT ![To[m]] = Append(queue[To[m]], m)]
        BY <1>2 DEF CyclePush
    <2>3. CASE To[m] = k /\ queue'[k] = Append(queue[k], m)
        <3>1. InSeq(queue'[k]) = InSeq(queue[k]) \cup {m}
            BY <2>3, KeyFacts, AppendedSet, Zenon
        <3> QED BY <2>1, <2>3, <3>1 DEF Addressed
    <2> QED BY <2>1, <2>2, <2>3, <1>1, KeyFacts DEF TypeOK
<1>3. CASE Pop(k)
    <2>1. /\ queue[k] # << >> /\ writing'[k] = Head(queue[k]) /\ queue'[k] = Tail(queue[k])
        BY <1>3 DEF Pop, TypeOK
    <2>2. InSeq(queue[k]) = InSeq(queue'[k]) \cup {writing'[k]}
        BY <2>1, KeyFacts, HeadTailSet
    <2> QED BY <2>2 DEF Addressed
<1>4. ASSUME NEW c \in Key, Pop(c), c # k PROVE Addressed(k)'
    BY <1>1, <1>4 DEF Pop, TypeOK
<1>5. ASSUME NEW c \in Key, Session(c) \/ Write(c) \/ WriteFails(c) PROVE Addressed(k)'
    BY <1>1, <1>5 DEF Session, Login, Serve, Leave, Free, Write, WriteFails, TypeOK
<1>6. CASE Produce \/ CycleRead \/ CycleTrim \/ CycleTrimBreaks \/ UNCHANGED vars
    BY <1>1, <1>6 DEF Produce, CycleRead, CycleTrim, CycleTrimBreaks, vars, sessionVars
<1>7. CASE Restart
    BY <1>1, <1>7 DEF Restart
<1> QED BY <1>2, <1>3, <1>4, <1>5, <1>6, <1>7 DEF Next, CyclePoison, Crash, Consume
-----------------------------------------------------------------------------
LEMMA Invariance == Spec => []IInv
<1>1. Init => IInv
    <2> SUFFICES ASSUME Init PROVE IInv
        OBVIOUS
    <2>1. /\ posted = 0 /\ tasks = << >> /\ works = << >> /\ index = 0 /\ Len(<< >>) = 0
          /\ \A k \in Key : sent[k] = << >> /\ queue[k] = << >> /\ writing[k] = 0
        BY NoWorks DEF Init, NoTask
    <2>2. TypeOK
        <3>1. /\ posted \in 0 .. MaxTask /\ crashes \in 0 .. MaxCrash
            BY DEF Init
        <3>5. cycling \in BOOLEAN /\ redis \in BOOLEAN
            BY Zenon DEF Init
        <3>6. stage \in [Key -> Stage] /\ writing \in [Key -> 0 .. posted]
            BY DEF Init, NoTask, Stage
        <3>2. /\ tasks \in Seq(1 .. posted) /\ works \in Seq(1 .. posted)
              /\ index \in 0 .. Len(works)
            BY <2>1, NoWorks
        <3>3. queue \in [Key -> Seq(1 .. posted)] /\ sent \in [Key -> Seq(1 .. posted)]
            BY NoWorks DEF Init
        <3>4. \A k \in Key : earlier[k] \in 0 .. Len(sent[k])
            <4>1. \A k \in Key : earlier[k] = 0 /\ sent[k] = << >>
                BY DEF Init
            <4>2. 0 \in 0 .. Len(<< >>)
                BY NoWorks
            <4> QED BY <4>1, <4>2, Zenon
        <3> QED BY <3>1, <3>2, <3>3, <3>4, <3>5, <3>6 DEF TypeOK
    <2>3. Shape /\ WorksAreHead /\ TasksSorted
        BY <2>1 DEF Init, Shape, WorksAreHead, TasksSorted, Sorted
    <2>4. ASSUME NEW k \in Key PROVE Flow(k)
        <3>1. sent[k] = << >> /\ queue[k] = << >> /\ writing[k] = NoTask /\ From(k) = 0
            BY <2>1 DEF From, Init, NoTask
        <3> QED BY <2>1, <3>1
                DEF Flow, SentRun, SentBefore, WritingBefore, Sorted, QueueBefore
    <2>5. Unread /\ Dealt
        BY <2>1 DEF Unread, Dealt
    <2>6. ASSUME NEW k \in Key PROVE Below(k) /\ Addressed(k)
        BY <2>1, Emptied DEF Below, Addressed, NoTask
    <2> QED BY <2>2, <2>3, <2>4, <2>5, <2>6 DEF IInv
<1>2. IInv /\ [Next]_vars => IInv'
    <2> SUFFICES ASSUME IInv, [Next]_vars PROVE IInv'
        OBVIOUS
    <2>1. /\ TypeOK /\ Shape /\ WorksAreHead /\ TasksSorted /\ Unread /\ Dealt
          /\ \A k \in Key : Flow(k) /\ Below(k) /\ Addressed(k)
        BY DEF IInv
    <2>2. TypeOK' /\ Shape' /\ WorksAreHead' /\ TasksSorted'
        BY <2>1, TypeInv, ListStep
    <2>3. \A k \in Key : Flow(k)'
        BY <2>1, <2>2, FlowStep
    <2>4. \A k \in Key : Below(k)'
        BY <2>1, BelowStep
    <2>5. Unread' /\ Dealt'
        BY <2>1, UnreadStep, DealtStep
    <2>6. \A k \in Key : Addressed(k)'
        BY <2>1, AddressedStep
    <2> QED BY <2>2, <2>3, <2>4, <2>5, <2>6 DEF IInv
<1> QED BY <1>1, <1>2, PTL DEF Spec

(* Every variable has its type: the indices of cycle_all() stay within the *)
(* reply of LRANGE.                                                        *)
THEOREM Types == Spec => []TypeOK
<1>1. IInv => TypeOK
    BY DEF IInv
<1> QED BY <1>1, Invariance, PTL

(* The reply of LRANGE stays the head of the list until LTRIM.             *)
THEOREM Heads == Spec => []WorksAreHead
<1>1. IInv => WorksAreHead
    BY DEF IInv
<1> QED BY <1>1, Invariance, PTL

(* Without failures of LTRIM a user receives tasks in posting order and    *)
(* once, whatever dies or fails otherwise.                                 *)
THEOREM InOrder == ASSUME ~BreakingRedis PROVE Spec => []SentInOrder
<1>1. IInv => SentInOrder
    <2> SUFFICES ASSUME IInv PROVE SentInOrder
        OBVIOUS
    <2>1. \A k \in Key : SentRun(k) /\ From(k) = 0
        BY DEF IInv, Flow, From
    <2> QED BY <2>1 DEF SentRun, SentInOrder
<1> QED BY <1>1, Invariance, PTL

(* With them, the same holds of what one process sends.                    *)
THEOREM Once == Spec => []OncePerRun
<1>1. IInv => OncePerRun
    <2> SUFFICES ASSUME IInv, NEW k \in Key, NEW i \in earlier[k] + 1 .. Len(sent[k]),
                        NEW j \in earlier[k] + 1 .. Len(sent[k]), i < j
                 PROVE  sent[k][i] < sent[k][j]
        BY DEF OncePerRun
    <2>1. SentRun(k) /\ TypeOK
        BY DEF IInv, Flow
    <2>2. From(k) \in Nat /\ earlier[k] \in Nat /\ From(k) <= earlier[k] /\ Len(sent[k]) \in Nat
        BY <2>1, KeyFacts DEF From
    <2>3. i \in From(k) + 1 .. Len(sent[k]) /\ j \in From(k) + 1 .. Len(sent[k])
        BY <2>2
    <2> QED BY <2>1, <2>3 DEF SentRun
<1> QED BY <1>1, Invariance, PTL

(* A task that cannot be read ends the deliveries of every user.           *)
THEOREM PoisonStops == Spec => []NothingPassesPoison
<1>1. IInv => NothingPassesPoison
    BY DEF IInv, Below, NothingPassesPoison
<1> QED BY <1>1, Invariance, PTL

(* LTRIM removes nothing that was not offered to the registered clients.   *)
THEOREM Kept == Spec => KeptUnlessOffline
<1>1. IInv /\ [Next]_vars =>
          \A m \in InSeq(tasks) \ InSeq(tasks') :
              stage[To[m]] # "off" => m \in InSeq(queue'[To[m]])
    <2> SUFFICES ASSUME IInv, [Next]_vars, NEW m \in InSeq(tasks) \ InSeq(tasks'),
                        stage[To[m]] # "off"
                 PROVE  m \in InSeq(queue'[To[m]])
        OBVIOUS
    <2>1. TypeOK /\ WorksAreHead /\ Dealt
        BY DEF IInv
    <2>2. PICK i \in 1 .. Len(tasks) : tasks[i] = m
        BY DEF InSeq
    <2>3. CASE tasks' = tasks
        BY <2>3
    <2>4. CASE Produce
        <3>1. /\ Len(tasks') = Len(tasks) + 1 /\ tasks'[i] = tasks[i] /\ Len(tasks) \in Nat
            BY <2>1, <2>2, <2>4, ProduceFacts, Facts
        <3>2. i \in 1 .. Len(tasks')
            BY <2>2, <3>1
        <3> QED BY <2>2, <3>1, <3>2 DEF InSeq
    <2>5. CASE (CycleTrim \/ CycleTrimBreaks) /\ tasks' # tasks
        <3>1. /\ queue' = queue /\ index = Len(works)
              /\ tasks' = SubSeq(tasks, index + 1, Len(tasks))
            BY <2>5 DEF CycleTrim, CycleTrimBreaks, sessionVars
        <3>2. /\ index \in 0 .. Len(tasks) /\ Len(tasks') = Len(tasks) - index
              /\ \A j \in 1 .. Len(tasks) - index : tasks'[j] = tasks[index + j]
            BY <2>1, <3>1, TrimTypes
        <3>3. index \in Nat /\ Len(tasks) \in Nat
            BY <2>1, Facts
        <3>4. ~(i > index)
            <4> SUFFICES ASSUME i > index PROVE FALSE
                OBVIOUS
            <4>1. i - index \in 1 .. Len(tasks) - index /\ index + (i - index) = i
                BY <2>2, <3>3
            <4>2. i - index \in 1 .. Len(tasks') /\ tasks'[i - index] = m
                BY <4>1, <3>2, <2>2
            <4> QED BY <4>2 DEF InSeq
        <3>5. i \in 1 .. index /\ i \in 1 .. Len(works)
            BY <3>1, <3>3, <3>4, <2>2
        <3>6. works[i] = m
            BY <2>1, <2>2, <3>5 DEF WorksAreHead
        <3> QED BY <2>1, <3>1, <3>5, <3>6 DEF Dealt
    <2>6. ASSUME NEW k \in Key, Session(k) \/ Consume(k) PROVE tasks' = tasks
        BY <2>6 DEF Session, Login, Serve, Leave, Free, Consume, Pop, Write, WriteFails
    <2>7. CASE CycleRead \/ CyclePush \/ CyclePoison \/ Crash \/ UNCHANGED vars
        BY <2>7, <2>3 DEF CycleRead, CyclePush, CyclePoison, Crash, vars
    <2> QED BY <2>3, <2>4, <2>5, <2>6, <2>7 DEF Next
<1> QED BY <1>1, Invariance, PTL DEF Spec, KeptUnlessOffline
-----------------------------------------------------------------------------
(* The server as a mailbox, as long as every LTRIM is carried out.         *)
LEMMA WaySets ==
    ASSUME TypeOK, WorksAreHead
    PROVE  /\ InSeq(tasks) \subseteq 1 .. posted /\ InSeq(works) \subseteq InSeq(tasks)
           /\ \A k \in Key : /\ InSeq(queue[k]) \subseteq 1 .. posted
                            /\ Pending(k) \subseteq 1 .. posted
<1>1. InSeq(tasks) \subseteq 1 .. posted
    BY Facts, Zenon DEF InSeq
<1>2. InSeq(works) \subseteq InSeq(tasks)
    <2>1. \A i \in 1 .. Len(works) : i \in 1 .. Len(tasks) /\ works[i] = tasks[i]
        BY Facts DEF WorksAreHead
    <2> QED BY <2>1, Zenon DEF InSeq
<1>3. ASSUME NEW k \in Key PROVE InSeq(queue[k]) \subseteq 1 .. posted
    BY KeyFacts, Zenon DEF InSeq
<1>4. ASSUME NEW k \in Key PROVE writing[k] # NoTask => writing[k] \in 1 .. posted
    BY KeyFacts DEF NoTask
<1> QED BY <1>1, <1>2, <1>3, <1>4 DEF Pending

(* What is on its way to a user comes before what is still to be read.     *)
LEMMA WayOrder ==
    ASSUME IInv, ~BreakingRedis, NEW k \in Key
    PROVE  /\ writing[k] # NoTask =>
                  \A n \in InSeq(queue[k]) \cup InSeq(tasks) : writing[k] < n
           /\ \A m \in InSeq(queue[k]), n \in InSeq(tasks) \ InSeq(works) : m < n
<1>1. TypeOK /\ WorksAreHead /\ redis /\ Flow(k)
    BY DEF IInv, Shape
<1>2. writing[k] # NoTask =>
          /\ \A j \in 1 .. Len(queue[k]) : writing[k] < queue[k][j]
          /\ \A j \in 1 .. Len(tasks) : writing[k] < tasks[j]
    BY <1>1, Zenon DEF Flow, WritingBefore
<1>3. ASSUME NEW j \in 1 .. Len(tasks), tasks[j] \notin InSeq(works)
      PROVE  j \in index + 1 .. Len(tasks)
    <2>1. index \in Nat /\ index <= Len(works) /\ Len(works) \in Nat /\ Len(tasks) \in Nat
        BY <1>1, Facts
    <2>2. j \notin 1 .. Len(works)
        BY <1>1, <1>3, Zenon DEF WorksAreHead, InSeq
    <2> QED BY <2>1, <2>2
<1>4. \A i \in 1 .. Len(queue[k]), j \in 1 .. Len(tasks) :
          tasks[j] \notin InSeq(works) => queue[k][i] < tasks[j]
    BY <1>1, <1>3, Zenon DEF Flow, QueueBefore
<1> QED BY <1>2, <1>4, Zenon DEF InSeq

LEMMA Irreflexive == \A m \in Nat : ~(m < m)
OBVIOUS

(* What is in the list is on its way to nobody yet, unless it was read.    *)
LEMMA WayApart ==
    ASSUME IInv, ~BreakingRedis, NEW k \in Key
    PROVE  /\ writing[k] # NoTask => writing[k] \notin InSeq(queue[k]) \cup InSeq(tasks)
           /\ InSeq(queue[k]) \cap InSeq(tasks) \subseteq InSeq(works)
<1>1. TypeOK /\ WorksAreHead
    BY DEF IInv
<1>0. InSeq(queue[k]) \subseteq 1 .. posted /\ InSeq(tasks) \subseteq 1 .. posted /\ posted \in Nat
    BY <1>1, WaySets, Facts, Zenon
<1>2. /\ \A m \in InSeq(queue[k]) : ~(m < m)
      /\ \A m \in InSeq(tasks) : ~(m < m)
    BY <1>0
<1>3. writing[k] # NoTask =>
          \A n \in InSeq(queue[k]) \cup InSeq(tasks) : writing[k] < n
    BY WayOrder
<1>4. \A m \in InSeq(queue[k]), n \in InSeq(tasks) \ InSeq(works) : m < n
    BY WayOrder
<1> QED BY <1>2, <1>3, <1>4

(* LTRIM leaves what was not read.                                         *)
LEMMA TrimmedSet ==
    ASSUME TypeOK, WorksAreHead, TasksSorted, CycleTrim
    PROVE  InSeq(tasks') = InSeq(tasks) \ InSeq(works)
<1>1. /\ Len(tasks') = Len(tasks) - index /\ index = Len(works)
      /\ \A i \in 1 .. Len(tasks) - index : tasks'[i] = tasks[index + i]
    BY TrimTypes DEF CycleTrim
<1>2. /\ index \in Nat /\ Len(tasks) \in Nat /\ Len(works) <= Len(tasks)
      /\ \A i \in 1 .. Len(tasks) : tasks[i] \in Nat
    BY Facts DEF WorksAreHead
<1>3. ASSUME NEW i \in 1 .. Len(tasks') PROVE tasks'[i] \in InSeq(tasks) \ InSeq(works)
    <2>1. index + i \in 1 .. Len(tasks) /\ tasks'[i] = tasks[index + i]
        BY <1>1, <1>2
    <2>2. ASSUME NEW j \in 1 .. Len(works) PROVE works[j] # tasks[index + i]
        <3>1. j \in 1 .. Len(tasks) /\ j < index + i /\ works[j] = tasks[j]
            BY <1>1, <1>2 DEF WorksAreHead
        <3>2. tasks[j] < tasks[index + i]
            BY <2>1, <3>1 DEF TasksSorted, Sorted
        <3> QED BY <2>1, <3>1, <3>2, <1>2
    <2> QED BY <2>1, <2>2, Zenon DEF InSeq
<1>4. ASSUME NEW i \in 1 .. Len(tasks), tasks[i] \notin InSeq(works)
      PROVE  tasks[i] \in InSeq(tasks')
    <2>1. i \notin 1 .. Len(works)
        BY <1>4, Zenon DEF WorksAreHead, InSeq
    <2>4. i - index \in 1 .. Len(tasks) - index /\ index + (i - index) = i
        BY <1>1, <1>2, <2>1
    <2>2. i - index \in 1 .. Len(tasks') /\ tasks'[i - index] = tasks[i]
        BY <1>1, <2>4
    <2>3. \E j \in 1 .. Len(tasks') : tasks[i] = tasks'[j]
        BY <2>2
    <2> QED BY <2>3 DEF InSeq
<1>5. InSeq(tasks') \subseteq InSeq(tasks) \ InSeq(works)
    BY <1>3, Zenon DEF InSeq
<1>6. \A m \in InSeq(tasks) : m \notin InSeq(works) => m \in InSeq(tasks')
    BY <1>4, Zenon DEF InSeq
<1> QED BY <1>5, <1>6

LEMMA Discarded ==
    ASSUME NEW lost \in SUBSET (1 .. posted), UNCHANGED <<posted, sent>>,
           \A k \in Key : Pending(k)' = Pending(k) \ lost
    PROVE  AbstractMailbox!Next
BY DEF AbstractMailbox!Next, AbstractMailbox!Discard

LEMMA Stuttered ==
    ASSUME UNCHANGED <<posted, sent>>, \A k \in Key : Pending(k)' = Pending(k)
    PROVE  UNCHANGED AbstractMailbox!vars
BY DEF AbstractMailbox!vars

LEMMA PostStep ==
    ASSUME IInv, Produce
    PROVE  AbstractMailbox!Next
<1>1. /\ posted < MaxTask /\ posted' = posted + 1 /\ sent' = sent
      /\ UNCHANGED <<works, queue, writing>> /\ posted \in Nat /\ TypeOK
    BY Facts DEF IInv, Produce, cycleVars, sessionVars
<1>2. InSeq(tasks') = InSeq(tasks) \cup {posted'}
    BY <1>1, Facts, AppendedSet, Zenon DEF Produce
<1>3. To[posted'] \in Key
    BY <1>1
<1>4. ASSUME NEW k \in Key
      PROVE  Pending(k)' = IF k = To[posted'] THEN Pending(k) \cup {posted'} ELSE Pending(k)
    BY <1>1, <1>2 DEF Pending
<1>5. [k \in Key |-> Pending(k)]' =
          [[k \in Key |-> Pending(k)] EXCEPT ![To[posted']] = @ \cup {posted'}]
    BY <1>3, <1>4, Zenon
<1> QED BY <1>1, <1>5 DEF AbstractMailbox!Next, AbstractMailbox!Post

LEMMA RestartDiscards ==
    ASSUME IInv, ~BreakingRedis, Restart, UNCHANGED <<posted, tasks, sent>>
    PROVE  AbstractMailbox!Next
<1> DEFINE lost == (1 .. posted) \ InSeq(tasks)
<1>1. \A k \in Key : queue'[k] = << >> /\ writing'[k] = NoTask
    BY DEF Restart
<1>2. ASSUME NEW k \in Key PROVE Pending(k)' = {m \in InSeq(tasks) : To[m] = k}
    BY <1>1, Emptied DEF Pending
<1>3. ASSUME NEW k \in Key PROVE Pending(k) \ lost = {m \in InSeq(tasks) : To[m] = k}
    <2>1. Pending(k) \subseteq 1 .. posted
        BY WaySets, Zenon DEF IInv
    <2>2. /\ writing[k] # NoTask => writing[k] \notin InSeq(tasks)
          /\ InSeq(queue[k]) \cap InSeq(tasks) \subseteq InSeq(works)
        BY WayApart
    <2> QED BY <2>1, <2>2 DEF Pending
<1>4. lost \in SUBSET (1 .. posted)
    OBVIOUS
<1> HIDE DEF lost
<1> QED BY <1>2, <1>3, <1>4, Discarded

LEMMA ReadStutters ==
    ASSUME IInv, ~BreakingRedis, CycleRead
    PROVE  UNCHANGED AbstractMailbox!vars
<1>1. UNCHANGED <<posted, tasks, queue, writing, sent>> /\ works = << >> /\ TypeOK
    BY DEF CycleRead, IInv, Shape, sessionVars
<1>2. InSeq(works') \subseteq InSeq(tasks)
    <2>1. /\ Len(works') <= Len(tasks) /\ \A i \in 1 .. Len(works') : works'[i] = tasks[i]
          /\ Len(works') \in Nat /\ Len(tasks) \in Nat
        BY <1>1, ReadTypes, Facts
    <2>2. \A i \in 1 .. Len(works') : i \in 1 .. Len(tasks) /\ works'[i] = tasks[i]
        BY <2>1
    <2> QED BY <2>2, Zenon DEF InSeq
<1>3. ASSUME NEW k \in Key PROVE InSeq(queue[k]) \cap InSeq(tasks) = {}
    BY <1>1, WayApart, Emptied
<1>4. ASSUME NEW k \in Key PROVE Pending(k)' = Pending(k)
    BY <1>1, <1>2, <1>3, Emptied DEF Pending
<1> QED BY <1>1, <1>4, Stuttered

LEMMA PushStutters ==
    ASSUME IInv, CyclePush
    PROVE  UNCHANGED AbstractMailbox!vars
<1> DEFINE m == works[index + 1]
<1>1. /\ UNCHANGED <<posted, tasks, works, writing, sent>> /\ TypeOK
      /\ queue' = queue \/ queue' = [queue EXCEPT ![To[m]] = Append(queue[To[m]], m)]
    BY DEF CyclePush, IInv
<1>2. m \in InSeq(works)
    <2>1. index + 1 \in 1 .. Len(works)
        BY <1>1, Facts DEF CyclePush
    <2> QED BY <2>1, Zenon DEF InSeq
<1>3. ASSUME NEW k \in Key PROVE InSeq(queue'[k]) \ InSeq(works) = InSeq(queue[k]) \ InSeq(works)
    <2>1. queue'[k] = queue[k] \/ queue'[k] = Append(queue[k], m)
        BY <1>1 DEF TypeOK
    <2>2. CASE queue'[k] = Append(queue[k], m)
        <3>1. InSeq(queue'[k]) = InSeq(queue[k]) \cup {m}
            BY <1>1, <2>2, KeyFacts, AppendedSet, Zenon
        <3> QED BY <1>2, <3>1
    <2> QED BY <2>1, <2>2
<1>4. ASSUME NEW k \in Key PROVE Pending(k)' = Pending(k)
    BY <1>1, <1>3 DEF Pending
<1> QED BY <1>1, <1>4, Stuttered

(* LTRIM: what was read is in the queue of its user, or is discarded.      *)
LEMMA TrimDiscards ==
    ASSUME IInv, ~BreakingRedis, CycleTrim
    PROVE  AbstractMailbox!Next
<1> DEFINE lost == {m \in InSeq(works) : m \notin InSeq(queue[To[m]])}
<1>1. /\ UNCHANGED <<posted, queue, writing, sent>> /\ works' = << >>
      /\ TypeOK /\ WorksAreHead /\ TasksSorted
    BY DEF CycleTrim, IInv, sessionVars
<1>2. InSeq(tasks') = InSeq(tasks) \ InSeq(works) /\ InSeq(works') = {}
    BY <1>1, TrimmedSet, Emptied
<1>3. InSeq(works) \subseteq InSeq(tasks) /\ InSeq(tasks) \subseteq 1 .. posted
    BY <1>1, WaySets
<1>4. ASSUME NEW k \in Key PROVE Pending(k)' = Pending(k) \ lost
    <2>1. writing[k] # NoTask => writing[k] \notin InSeq(tasks)
        BY WayApart
    <2>2. \A m \in InSeq(queue[k]) : To[m] = k
        BY DEF IInv, Addressed
    <2>3. Pending(k)' = ({writing[k]} \ {NoTask}) \cup InSeq(queue[k])
                            \cup {m \in InSeq(tasks) \ InSeq(works) : To[m] = k}
        BY <1>1, <1>2 DEF Pending
    <2>4. ({writing[k]} \ {NoTask}) \ lost = {writing[k]} \ {NoTask}
        BY <1>3, <2>1
    <2>5. (InSeq(queue[k]) \ InSeq(works)) \ lost = InSeq(queue[k]) \ InSeq(works)
        OBVIOUS
    <2>6. {m \in InSeq(tasks) : To[m] = k} \ lost =
              {m \in InSeq(tasks) \ InSeq(works) : To[m] = k}
              \cup (InSeq(works) \cap InSeq(queue[k]))
        BY <1>3, <2>2
    <2> HIDE DEF lost
    <2>7. Pending(k) \ lost = (({writing[k]} \ {NoTask}) \ lost)
              \cup ((InSeq(queue[k]) \ InSeq(works)) \ lost)
              \cup ({m \in InSeq(tasks) : To[m] = k} \ lost)
        BY DEF Pending
    <2> QED BY <2>3, <2>4, <2>5, <2>6, <2>7
<1>5. lost \in SUBSET (1 .. posted)
    BY <1>3
<1> HIDE DEF lost
<1> QED BY <1>1, <1>4, <1>5, Discarded

(* The client is freed: the tasks in its queue are nobody else's.          *)
LEMMA FreeDiscards ==
    ASSUME IInv, ~BreakingRedis, NEW c \in Key, Free(c)
    PROVE  AbstractMailbox!Next
<1> DEFINE lost == InSeq(queue[c])
<1>1. /\ UNCHANGED <<posted, tasks, works, writing, sent>> /\ works = << >> /\ TypeOK
      /\ writing[c] = NoTask /\ queue' = [queue EXCEPT ![c] = << >>]
    BY DEF Free, IInv, Shape, cycleVars
<1>2. ASSUME NEW k \in Key PROVE Pending(k)' = Pending(k) \ lost
    <2>1. CASE k = c
        <3>1. InSeq(queue[c]) \cap InSeq(tasks) = {}
            BY <1>1, WayApart, Emptied
        <3>2. InSeq(queue'[c]) = {}
            BY <1>1, Emptied DEF TypeOK
        <3> QED BY <1>1, <2>1, <3>1, <3>2, Emptied DEF Pending
    <2>2. CASE k # c
        <3>1. queue'[k] = queue[k]
            BY <1>1, <2>2 DEF TypeOK
        <3>2. Addressed(k) /\ Addressed(c)
            BY DEF IInv
        <3>3. Pending(k)' = Pending(k)
            BY <1>1, <3>1 DEF Pending
        <3>4. \A m \in Pending(k) : To[m] = k
            BY <3>2 DEF Pending, Addressed
        <3>5. \A m \in lost : To[m] = c
            BY <3>2 DEF Addressed
        <3> QED BY <2>2, <3>3, <3>4, <3>5
    <2> QED BY <2>1, <2>2
<1>3. lost \in SUBSET (1 .. posted)
    BY WaySets DEF IInv
<1> HIDE DEF lost
<1> QED BY <1>1, <1>2, <1>3, Discarded

LEMMA PopStutters ==
    ASSUME IInv, NEW c \in Key, Pop(c)
    PROVE  UNCHANGED AbstractMailbox!vars
<1>1. /\ UNCHANGED <<posted, tasks, works, sent>> /\ works = << >> /\ TypeOK
      /\ writing[c] = NoTask /\ queue[c] # << >>
      /\ writing' = [writing EXCEPT ![c] = Head(queue[c])]
      /\ queue' = [queue EXCEPT ![c] = Tail(queue[c])]
    BY DEF Pop, IInv, Shape, cycleVars
<1>2. ASSUME NEW k \in Key PROVE Pending(k)' = Pending(k)
    <2>1. CASE k = c
        <3>1. writing'[c] = Head(queue[c]) /\ queue'[c] = Tail(queue[c])
            BY <1>1 DEF TypeOK
        <3>2. InSeq(queue[c]) = InSeq(queue'[c]) \cup {writing'[c]}
            BY <1>1, <3>1, KeyFacts, HeadTailSet
        <3>3. writing'[c] # NoTask
            <4>1. queue[c] \in Seq(1 .. posted)
                BY <1>1, KeyFacts
            <4>2. Head(queue[c]) \in 1 .. posted
                BY <1>1, <4>1, HeadTail
            <4> QED BY <3>1, <4>2 DEF NoTask
        <3> QED BY <1>1, <2>1, <3>2, <3>3, Emptied DEF Pending
    <2>2. CASE k # c
        BY <1>1, <2>2 DEF Pending, TypeOK
    <2> QED BY <2>1, <2>2
<1> QED BY <1>1, <1>2, Stuttered

(* What a step of the writing consume thread leaves of the tasks pending.  *)
LEMMA HeldLeaves ==
    ASSUME IInv, ~BreakingRedis, NEW c \in Key, writing[c] # NoTask,
           writing' = [writing EXCEPT ![c] = NoTask],
           UNCHANGED <<posted, tasks, works, queue>>
    PROVE  /\ writing[c] \in Pending(c) /\ Pending(c)' = Pending(c) \ {writing[c]}
           /\ \A k \in Key \ {c} : Pending(k)' = Pending(k) /\ writing[c] \notin Pending(k)
<1>1. TypeOK
    BY DEF IInv
<1>2. writing[c] \notin InSeq(queue[c]) \cup InSeq(tasks)
    BY WayApart
<1>3. writing'[c] = NoTask
    BY <1>1 DEF TypeOK
<1>4. writing[c] \in Pending(c) /\ Pending(c)' = Pending(c) \ {writing[c]}
    BY <1>2, <1>3 DEF Pending
<1>5. ASSUME NEW k \in Key \ {c} PROVE Pending(k)' = Pending(k) /\ writing[c] \notin Pending(k)
    <2>1. writing'[k] = writing[k]
        BY <1>1 DEF TypeOK
    <2>2. Addressed(k) /\ Addressed(c)
        BY DEF IInv
    <2>3. \A m \in Pending(k) : To[m] = k
        BY <2>2 DEF Pending, Addressed
    <2>4. To[writing[c]] = c
        BY <2>2 DEF Addressed
    <2> QED BY <2>1, <2>3, <2>4 DEF Pending
<1> QED BY <1>4, <1>5

LEMMA WriteDelivers ==
    ASSUME IInv, ~BreakingRedis, NEW c \in Key, Write(c)
    PROVE  AbstractMailbox!Next
<1>1. /\ UNCHANGED <<posted, tasks, works, queue>> /\ writing[c] # NoTask
      /\ writing' = [writing EXCEPT ![c] = NoTask]
      /\ sent' = [sent EXCEPT ![c] = Append(@, writing[c])]
    BY DEF Write, cycleVars
<1>2. /\ writing[c] \in Pending(c) /\ Pending(c)' = Pending(c) \ {writing[c]}
      /\ \A k \in Key \ {c} : Pending(k)' = Pending(k)
    BY <1>1, HeldLeaves
<1>3. \A n \in Pending(c) : writing[c] <= n
    <2>1. \A n \in InSeq(queue[c]) \cup InSeq(tasks) : writing[c] < n
        BY <1>1, WayOrder
    <2>2. /\ writing[c] \in Nat /\ posted \in Nat /\ Pending(c) \subseteq 1 .. posted
        BY WaySets, KeyFacts, Facts DEF IInv
    <2>3. \A n \in Pending(c) : n = writing[c] \/ writing[c] < n
        BY <2>1 DEF Pending
    <2>4. \A n \in Pending(c) : n \in Nat
        BY <2>2
    <2> QED BY <2>2, <2>3, <2>4
<1>4. [k \in Key |-> Pending(k)]' =
          [[k \in Key |-> Pending(k)] EXCEPT ![c] = @ \ {writing[c]}]
    BY <1>2
<1>5. AbstractMailbox!Deliver(c)
    BY <1>1, <1>2, <1>3, <1>4 DEF AbstractMailbox!Deliver
<1> QED BY <1>5 DEF AbstractMailbox!Next

LEMMA FailDiscards ==
    ASSUME IInv, ~BreakingRedis, NEW c \in Key, WriteFails(c)
    PROVE  AbstractMailbox!Next
<1>1. /\ UNCHANGED <<posted, tasks, works, queue, sent>> /\ writing[c] # NoTask
      /\ writing' = [writing EXCEPT ![c] = NoTask]
    BY DEF WriteFails, cycleVars
<1>0. Pending(c)' = Pending(c) \ {writing[c]}
    BY <1>1, HeldLeaves
<1>2. ASSUME NEW k \in Key PROVE Pending(k)' = Pending(k) \ {writing[c]}
    <2>1. CASE k # c
        <3>1. Pending(k)' = Pending(k) /\ writing[c] \notin Pending(k)
            BY <1>1, <2>1, HeldLeaves
        <3> QED BY <3>1
    <2> QED BY <1>0, <2>1
<1>3. {writing[c]} \in SUBSET (1 .. posted)
    BY <1>1, KeyFacts DEF IInv, NoTask
<1> QED BY <1>1, <1>2, <1>3, Discarded

LEMMA MailboxStep ==
    ASSUME IInv, ~BreakingRedis, [Next]_vars
    PROVE  [AbstractMailbox!Next]_(AbstractMailbox!vars)
<1>1. ASSUME UNCHANGED <<posted, tasks, works, queue, writing, sent>>
      PROVE  UNCHANGED AbstractMailbox!vars
    BY <1>1, Stuttered DEF Pending
<1>2. CASE UNCHANGED vars
    BY <1>1, <1>2 DEF vars, cycleVars, sessionVars
<1>3. ASSUME NEW c \in Key, Login(c) \/ Serve(c) \/ Leave(c)
      PROVE  UNCHANGED AbstractMailbox!vars
    BY <1>1, <1>3 DEF Login, Serve, Leave, cycleVars
<1>4. CASE CyclePoison \/ Crash
    BY <1>4, RestartDiscards DEF CyclePoison, Crash
<1>5. ~CycleTrimBreaks
    BY DEF CycleTrimBreaks
<1> QED BY <1>2, <1>3, <1>4, <1>5, PostStep, ReadStutters, PushStutters, TrimDiscards,
           FreeDiscards, PopStutters, WriteDelivers, FailDiscards
        DEF Next, Session, Consume

(* Without failures of LTRIM the server is a mailbox: whatever crashes,    *)
(* fails or leaves, a user gets its tasks at most once, in posting order,  *)
(* and no step of cycle_all() brings back a task that was given up.        *)
THEOREM MailboxImplemented == ASSUME ~BreakingRedis PROVE Spec => ImplementsMailbox
<1>1. Init => AbstractMailbox!Init
    <2> SUFFICES ASSUME Init PROVE AbstractMailbox!Init
        OBVIOUS
    <2>1. ASSUME NEW k \in Key PROVE Pending(k) = {}
        BY Emptied DEF Init, Pending
    <2> QED BY <2>1 DEF Init, AbstractMailbox!Init
<1>2. IInv /\ [Next]_vars => [AbstractMailbox!Next]_(AbstractMailbox!vars)
    BY MailboxStep
<1> QED BY <1>1, <1>2, Invariance, PTL DEF Spec, ImplementsMailbox, AbstractMailbox!Spec
=============================================================================
