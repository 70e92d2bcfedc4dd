--------------------------- MODULE LPushDelivery ---------------------------
(***************************************************************************)
(* The way of a push task through one lpush server: the task list of the   *)
(* server in Redis, LPushSource::cycle_all(), which the main coroutine     *)
(* runs every second, the queue of each logged-in client                   *)
(* (LPushFastQueue) and its consume thread (src/src/app/lpushSource.cpp,   *)
(* lpushConsumThread.cpp).                                                 *)
(*                                                                         *)
(* cycle_all() does not yield, so no other coroutine runs between its      *)
(* LRANGE and its LTRIM; but Redis is shared, and a producer may append to *)
(* the list in between, and the process may die in between.  Nobody looks  *)
(* at the reply to LTRIM: when the connection to Redis breaks there, the   *)
(* process goes on until the next command whose reply it needs, finds no   *)
(* reply, and dies of a null pointer.                                      *)
(*                                                                         *)
(* stage[k] is what LPushConn.tla says about the connection of user k, as  *)
(* far as its queue is concerned:                                          *)
(*   off         not registered                                            *)
(*   registered  in LPushSource::clients, no consume thread yet            *)
(*   serving     the consume thread runs with can_run set                  *)
(*   stopping    it has ended, or ends after the write it is in            *)
(***************************************************************************)
EXTENDS Integers, Sequences

CONSTANTS
    Key,        \* client identities
    MaxTask,    \* bound on the number of tasks posted
    To,         \* To[m]: the identity in task m
    Batch,      \* how many tasks one LRANGE returns: 0..1000 inclusive, 1001
    MaxCrash,   \* bound on the number of times the process dies
    Poison,     \* the tasks whose JSON has members of the wrong type
    BreakingRedis   \* may the connection to Redis break during LTRIM?

ASSUME BoundAssumption == MaxTask \in Nat /\ MaxCrash \in Nat
ASSUME ToAssumption    == To \in [1..MaxTask -> Key]
ASSUME BatchAssumption == Batch \in Nat \ {0}
ASSUME PoisonAssumption == Poison \subseteq 1..MaxTask
ASSUME RedisAssumption == BreakingRedis \in BOOLEAN

NoTask == 0

VARIABLES
    posted,     \* tasks 1..posted were appended to the list by producers
    tasks,      \* the list in Redis
    cycling,    \* is cycle_all() between its LRANGE and its LTRIM?
    works,      \* the result of its LRANGE
    index,      \* how many of them it has dealt with
    stage,
    queue,      \* queue[k]: the LPushFastQueue of the client of k
    writing,    \* writing[k]: the task playing() has popped, or NoTask
    sent,       \* sent[k]: the tasks written to connections of k
    redis,      \* is the process connected to Redis?
    earlier,    \* earlier[k]: how many of sent[k] were written before it started
    crashes     \* how often the process died

cycleVars   == <<cycling, works, index>>
sessionVars == <<stage, queue, writing>>
runVars     == <<redis, earlier, crashes>>
vars == <<posted, tasks, cycleVars, sessionVars, sent, runVars>>

Stage == {"off", "registered", "serving", "stopping"}

Init == /\ posted = 0 /\ tasks = <<>> /\ crashes = 0
        /\ cycling = FALSE /\ works = <<>> /\ index = 0
        /\ stage   = [k \in Key |-> "off"]
        /\ queue   = [k \in Key |-> <<>>]
        /\ writing = [k \in Key |-> NoTask]
        /\ sent    = [k \in Key |-> <<>>]
        /\ redis   = TRUE
        /\ earlier = [k \in Key |-> 0]
-----------------------------------------------------------------------------
(* The process is started again: what was in memory is gone.               *)
Restart ==
    /\ cycling' = FALSE /\ works' = <<>> /\ index' = 0
    /\ stage'   = [k \in Key |-> "off"]
    /\ queue'   = [k \in Key |-> <<>>]
    /\ writing' = [k \in Key |-> NoTask]
    /\ redis'   = TRUE
    /\ earlier' = [k \in Key |-> Len(sent[k])]

(* A producer appends a task with RPUSH, at any time.                      *)
ProduceAtHead ==            \* variant: the producer uses LPUSH
    /\ posted < MaxTask
    /\ posted' = posted + 1
    /\ tasks' = <<posted'>> \o tasks
    /\ UNCHANGED <<cycleVars, sessionVars, sent, runVars>>

Produce == /\ posted < MaxTask
           /\ posted' = posted + 1
           /\ tasks' = Append(tasks, posted')
           /\ UNCHANGED <<cycleVars, sessionVars, sent, runVars>>

(* cycle_all(): LRANGE, then one turn of the loop per task, then LTRIM.    *)
(* A task for an identity that is not registered is skipped.               *)
CycleReadBroken ==           \* variant: it reconnects and goes on
    /\ ~cycling
    /\ cycling' = TRUE
    /\ works' = SubSeq(tasks, 1, IF Len(tasks) < Batch THEN Len(tasks) ELSE Batch)
    /\ index' = 0
    /\ UNCHANGED <<posted, tasks, sessionVars, sent, runVars>>

CycleRead ==
    /\ ~cycling
    /\ redis
    /\ cycling' = TRUE
    /\ works' = SubSeq(tasks, 1, IF Len(tasks) < Batch THEN Len(tasks) ELSE Batch)
    /\ index' = 0
    /\ UNCHANGED <<posted, tasks, sessionVars, sent, runVars>>

CyclePushTwice ==            \* variant: "index" counts a pushed task twice
    /\ cycling
    /\ index < Len(works)
    /\ LET m == works[index + 1] IN
           IF stage[To[m]] = "off"
           THEN index' = index + 1 /\ UNCHANGED queue
           ELSE index' = index + 2 /\ queue' = [queue EXCEPT ![To[m]] = Append(@, m)]
    /\ UNCHANGED <<posted, tasks, cycling, works, stage, writing, sent, runVars>>

CyclePush ==
    /\ cycling
    /\ index < Len(works)
    /\ works[index + 1] \notin Poison
    /\ LET m == works[index + 1] IN
           IF stage[To[m]] = "off" THEN UNCHANGED queue
           ELSE queue' = [queue EXCEPT ![To[m]] = Append(@, m)]
    /\ index' = index + 1
    /\ UNCHANGED <<posted, tasks, cycling, works, stage, writing, sent, runVars>>

(* The constructor LPushWorkerMessage(str) throws what nobody catches.  The *)
(* process is started again, and the list is as it was.                    *)
CyclePoisonSkips ==          \* variant: the task is skipped
    /\ cycling
    /\ index < Len(works)
    /\ works[index + 1] \in Poison
    /\ index' = index + 1
    /\ UNCHANGED <<posted, tasks, cycling, works, sessionVars, sent, runVars>>

CyclePoison ==
    /\ cycling
    /\ index < Len(works)
    /\ works[index + 1] \in Poison
    /\ Restart /\ UNCHANGED <<posted, tasks, sent, crashes>>

CycleTrimAll ==              \* variant: the list is deleted, not trimmed
    /\ cycling
    /\ index = Len(works)
    /\ tasks' = <<>>
    /\ cycling' = FALSE /\ works' = <<>> /\ index' = 0
    /\ UNCHANGED <<posted, sessionVars, sent, runVars>>

CycleTrimLess ==             \* variant: the range is off by one
    /\ cycling
    /\ index = Len(works)
    /\ tasks' = SubSeq(tasks, IF index = 0 THEN 1 ELSE index, Len(tasks))
    /\ cycling' = FALSE /\ works' = <<>> /\ index' = 0
    /\ UNCHANGED <<posted, sessionVars, sent, runVars>>

CycleTrim ==
    /\ cycling
    /\ index = Len(works)
    /\ tasks' = SubSeq(tasks, index + 1, Len(tasks))
    /\ cycling' = FALSE /\ works' = <<>> /\ index' = 0
    /\ UNCHANGED <<posted, sessionVars, sent, runVars>>

(* The connection to Redis breaks, before or after LTRIM was carried out.  *)
CycleTrimBreaks ==
    /\ BreakingRedis /\ crashes < MaxCrash
    /\ cycling
    /\ index = Len(works)
    /\ tasks' \in {tasks, SubSeq(tasks, index + 1, Len(tasks))}
    /\ cycling' = FALSE /\ works' = <<>> /\ index' = 0
    /\ redis' = FALSE
    /\ UNCHANGED <<posted, sessionVars, sent, earlier, crashes>>
-----------------------------------------------------------------------------
(* The session of an identity, which moves only between two cycle_all().   *)
(* LPushSource::create(): an empty queue.  Without Redis the process dies  *)
(* in createConnection() first.                                            *)
Login(k) == /\ ~cycling
            /\ redis
            /\ stage[k] = "off"
            /\ stage' = [stage EXCEPT ![k] = "registered"]
            /\ UNCHANGED <<posted, tasks, cycleVars, queue, writing, sent, runVars>>

(* The create message was acknowledged and the consume thread started.     *)
Serve(k) == /\ ~cycling
            /\ stage[k] = "registered"
            /\ stage' = [stage EXCEPT ![k] = "serving"]
            /\ UNCHANGED <<posted, tasks, cycleVars, queue, writing, sent, runVars>>

(* The connection ends: LPushConsumThread::stop() clears can_run.          *)
Leave(k) == /\ ~cycling
            /\ stage[k] = "serving"
            /\ stage' = [stage EXCEPT ![k] = "stopping"]
            /\ UNCHANGED <<posted, tasks, cycleVars, queue, writing, sent, runVars>>

(* The client is destroyed, its queue with it: after its consume thread,   *)
(* or because the acknowledgement could not be written.                    *)
FreeKeepsQueue(k) ==         \* variant: the queue outlives its client
    /\ ~cycling
    /\ stage[k] \in {"registered", "stopping"}
    /\ writing[k] = NoTask
    /\ stage' = [stage EXCEPT ![k] = "off"]
    /\ UNCHANGED <<posted, tasks, cycleVars, queue, writing, sent, runVars>>

Free(k) == /\ ~cycling
           /\ stage[k] \in {"registered", "stopping"}
           /\ writing[k] = NoTask
           /\ stage' = [stage EXCEPT ![k] = "off"]
           /\ queue' = [queue EXCEPT ![k] = <<>>]
           /\ UNCHANGED <<posted, tasks, cycleVars, writing, sent, runVars>>

(* The consume thread: playing() pops the head of the queue ...            *)
PopLast(k) ==                \* variant: the queue is a stack
    /\ ~cycling
    /\ stage[k] = "serving" /\ writing[k] = NoTask
    /\ queue[k] # <<>>
    /\ writing' = [writing EXCEPT ![k] = queue[k][Len(queue[k])]]
    /\ queue' = [queue EXCEPT ![k] = SubSeq(@, 1, Len(@) - 1)]
    /\ UNCHANGED <<posted, tasks, cycleVars, stage, sent, runVars>>

Pop(k) == /\ ~cycling
          /\ stage[k] = "serving" /\ writing[k] = NoTask
          /\ queue[k] # <<>>
          /\ writing' = [writing EXCEPT ![k] = Head(queue[k])]
          /\ queue' = [queue EXCEPT ![k] = Tail(@)]
          /\ UNCHANGED <<posted, tasks, cycleVars, stage, sent, runVars>>

(* ... and sendForward() writes it, which may block, or fails: then the    *)
(* task is dropped and the thread ends.                                    *)
Write(k) == /\ ~cycling
            /\ writing[k] # NoTask
            /\ sent' = [sent EXCEPT ![k] = Append(@, writing[k])]
            /\ writing' = [writing EXCEPT ![k] = NoTask]
            /\ UNCHANGED <<posted, tasks, cycleVars, stage, queue, runVars>>

WriteFails(k) == /\ ~cycling
                 /\ writing[k] # NoTask
                 /\ writing' = [writing EXCEPT ![k] = NoTask]
                 /\ stage' = [stage EXCEPT ![k] = "stopping"]
                 /\ UNCHANGED <<posted, tasks, cycleVars, queue, sent, runVars>>

(* The process dies, even inside cycle_all().                              *)
Crash == /\ crashes < MaxCrash
         /\ crashes' = crashes + 1
         /\ Restart /\ UNCHANGED <<posted, tasks, sent>>

Session(k) == Login(k) \/ Serve(k) \/ Leave(k) \/ Free(k)
Consume(k) == Pop(k) \/ Write(k) \/ WriteFails(k)

Next == \/ Produce \/ CycleRead \/ CyclePush \/ CyclePoison \/ CycleTrim
        \/ CycleTrimBreaks \/ Crash
        \/ \E k \in Key : Session(k) \/ Consume(k)

Spec == Init /\ [][Next]_vars

(* The main coroutine runs cycle_all() again and again; a consume thread   *)
(* goes on (its write times out after 60 s); a connection whose creation   *)
(* was acknowledged, or whose teardown began, proceeds.  A process without *)
(* Redis dies at its next LRANGE.                                          *)
Fairness == /\ WF_vars(CycleRead) /\ WF_vars(CyclePush \/ CyclePoison)
            /\ WF_vars(CycleTrim \/ CycleTrimBreaks)
            /\ WF_vars(~redis /\ Crash)
            /\ \A k \in Key : /\ SF_vars(Consume(k))
                              /\ SF_vars(Serve(k) \/ Free(k))

LiveSpec == Spec /\ Fairness
-----------------------------------------------------------------------------
InSeq(s) == {s[i] : i \in 1..Len(s)}

TypeOK == /\ posted \in 0..MaxTask
          /\ tasks \in Seq(1..posted)
          /\ works \in Seq(1..posted)
          /\ cycling \in BOOLEAN
          /\ index \in 0..Len(works)
          /\ stage \in [Key -> Stage]
          /\ queue \in [Key -> Seq(1..posted)]
          /\ writing \in [Key -> 0..posted]
          /\ sent \in [Key -> Seq(1..posted)]
          /\ redis \in BOOLEAN
          /\ \A k \in Key : earlier[k] \in 0..Len(sent[k])
          /\ crashes \in 0..MaxCrash

(* What a user receives is in posting order and without repetition, over   *)
(* all sessions, failed writes and restarts of the server, as long as      *)
(* every LTRIM is carried out.                                             *)
SentInOrder ==
    \A k \in Key : \A i, j \in 1..Len(sent[k]) : i < j => sent[k][i] < sent[k][j]

(* When LTRIM is not carried out, tasks come a second time; but only from  *)
(* the restarted process, for the old one is bound to die before it reads  *)
(* the list again.                                                         *)
OncePerRun ==
    \A k \in Key : \A i, j \in (earlier[k] + 1)..Len(sent[k]) :
        i < j => sent[k][i] < sent[k][j]

(* LTRIM removes by position what LRANGE returned by position: whatever    *)
(* the producers appended in between, the result of LRANGE is still the    *)
(* head of the list.                                                       *)
WorksAreHead ==
    /\ Len(works) <= Len(tasks)
    /\ \A i \in 1..Len(works) : works[i] = tasks[i]

(* A task leaves the list either into the queue of the client registered   *)
(* for it or because there is no such client: a producer's append during   *)
(* cycle_all() is never trimmed away unseen, and a client registered but   *)
(* not served yet already gets its tasks.                                  *)
KeptUnlessOffline ==
    [][\A m \in InSeq(tasks) \ InSeq(tasks') :
           stage[To[m]] # "off" => m \in InSeq(queue'[To[m]])]_vars

(* A task that cannot be read is never passed: the process dies of it and  *)
(* finds it again at the same place, so no task behind it is ever sent     *)
(* again, to any user.                                                     *)
NothingPassesPoison ==
    \A p \in Poison, k \in Key : \A i \in 1..Len(sent[k]) : sent[k][i] < p

(* The server as a mailbox.  LTRIM is the point at which tasks move from   *)
(* the list to the queues: until then a crash puts them back.              *)
Pending(k) ==
    LET held  == {writing[k]} \ {NoTask}
        taken == InSeq(queue[k]) \ InSeq(works)
        list  == {m \in InSeq(tasks) : To[m] = k}
    IN  held \cup taken \cup list

AbstractMailbox == INSTANCE Mailbox WITH pending <- [k \in Key |-> Pending(k)]
ImplementsMailbox == AbstractMailbox!Spec

(* The list drains: no task stays in Redis for ever.                       *)
ListDrains ==
    \A m \in 1..MaxTask : m \in InSeq(tasks) ~> m \notin InSeq(tasks)

(* A queue drains: every task in it is written, or lost with the session.  *)
QueueDrains ==
    \A m \in 1..MaxTask : m \in InSeq(queue[To[m]]) ~> m \notin InSeq(queue[To[m]])

(* Nothing is held up for ever, in Redis or in the server, by tasks of     *)
(* users who are away, by crashes or by a connection to Redis that broke.  *)
Drains == ListDrains /\ QueueDrains
=============================================================================
