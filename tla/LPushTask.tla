------------------------------- MODULE LPushTask -----------------------------
(***************************************************************************)
(* A push task on its way: the JSON text a producer puts into Redis or     *)
(* MongoDB, the LPushWorkerMessage made of it and the JSON text the client *)
(* gets (lpushSource.cpp; jsonToMap of lpushMongoClient.cpp; empty() of    *)
(* lpushMath.cpp; StringToLong of lpushUtils.h).                           *)
(* A JSON object is a function from names to [type, v]; an int is one of   *)
(* -Half .. Half - 1 and an int64_t any integer.                           *)
(***************************************************************************)
EXTENDS Integers, Sequences, TLC

CONSTANTS
    Half,          \* 2^31
    Inputs         \* records [path, task]: path is "redis", "mongo" or "foreign"

WidthAssumption == Half \in Nat /\ Half > 0

Visible == {"TaskId", "MsgId", "Title", "Content", "Ext"}
Address == {"UserId", "AppKey", "AppSecret"}
Texts   == Visible \cup Address
Times   == {"CreateTime", "ExpiresTime"}

VARIABLES
    input,         \* what a producer wants to be pushed
    stage,         \* "posted", "taken", "sent" or "crashed"
    message,       \* <<the LPushWorkerMessage>>, or << >>
    sent           \* the object sent to the client

vars == <<input, stage, message, sent>>

(* A task of this program has all its fields.                              *)
InputsAssumption ==
    \A i \in Inputs :
        /\ i.path \in {"redis", "mongo", "foreign"}
        /\ i.path # "foreign" => /\ i.task = [f \in Texts \cup Times |-> i.task[f]]
                                 /\ \A f \in Times : i.task[f] \in Int

(* The int that an int64_t is converted to for empty(int).                 *)
Narrow(n) == ((n + Half) % (2 * Half)) - Half

Empty(n) == Narrow(n) <= 0

(* toAllString() and toJsonString(): a field that is empty is left out.    *)
Object(t, texts) ==
    [f \in {g \in texts : t[g] # ""} \cup {g \in Times : ~Empty(t[g])} |->
        [type |-> IF f \in Times THEN "int" ELSE "string", v |-> t[f]]]

ToAllString(t)  == Object(t, Texts)
ToJsonString(t) == Object(t, Visible)

(* LPushWorkerMessage(jsonStr): a missing member is null, which reads as   *)
(* an empty string and as 0; a string is no number, and an object no text: *)
(* then jsoncpp throws and nobody catches.                                 *)
AsString(o, f) == IF f \in DOMAIN o THEN o[f].v ELSE ""
AsInt64(o, f)  == IF f \in DOMAIN o THEN o[f].v ELSE 0

FromJsonStrict(o) ==           \* variant: a missing time is an error
    IF \E f \in Times : f \notin DOMAIN o \/ o[f].type = "string" THEN << >>
    ELSE <<[f \in Texts \cup Times |-> IF f \in Times THEN AsInt64(o, f) ELSE AsString(o, f)]>>

FromJson(o) ==
    IF \/ \E f \in Times \cap DOMAIN o : o[f].type = "string"
       \/ \E f \in Texts \cap DOMAIN o : o[f].type = "object"
    THEN << >>
    ELSE <<[f \in Texts \cup Times |-> IF f \in Times THEN AsInt64(o, f) ELSE AsString(o, f)]>>

(* jsonToMap(): the members that are strings or integers, as text.  Then   *)
(* LPushWorkerMessage(params): StringToLong() asserts that there is a text *)
(* and throws if it is no number.                                          *)
JsonToMap(o) == [f \in {g \in DOMAIN o : o[g].type \in {"string", "int"}} |-> o[f]]

FromMapLenient(o) ==           \* variant: a missing time is 0
    IF \E f \in Times \cap DOMAIN JsonToMap(o) : o[f].type = "string" THEN << >>
    ELSE FromJson(JsonToMap(o))

FromMap(o) ==
    IF \E f \in Times : f \notin DOMAIN JsonToMap(o) \/ o[f].type = "string" THEN << >>
    ELSE FromJson(JsonToMap(o))

CopyForgets(t) == [t EXCEPT !["Ext"] = ""]                 \* variant

Copy(t) == [f \in Texts \cup Times |-> t[f]]
-----------------------------------------------------------------------------
Init == input \in Inputs /\ stage = "posted" /\ message = << >> /\ sent = << >>

(* cycle_all() or selectMongoHistoryLimit() make the message.              *)
Take ==
    /\ stage = "posted"
    /\ message' = CASE input.path = "redis" -> FromJson(ToAllString(input.task))
                    [] input.path = "mongo" -> FromMap(ToAllString(input.task))
                    [] input.path = "foreign" -> FromJson(input.task)
    /\ stage' = IF message' = << >> THEN "crashed" ELSE "taken"
    /\ UNCHANGED <<input, sent>>

(* It is copied into the client's queue, copied again when it is popped,   *)
(* and sendForward() sends it.                                             *)
Forward ==
    /\ stage = "taken" /\ stage' = "sent"
    /\ sent' = ToJsonString(Copy(Copy(message[1])))
    /\ UNCHANGED <<input, message>>

Next == Take \/ Forward
Spec == Init /\ [][Next]_vars
-----------------------------------------------------------------------------
Own == input.path \in {"redis", "mongo"}
Small(n) == n \in 1 .. Half - 1

(* The client gets exactly the visible fields of the task that have a      *)
(* text, and its times if they are positive and fit an int - which seconds *)
(* do until 2038, and milliseconds only by chance.                         *)
ClientSeesTask ==
    Own /\ stage = "sent" =>
        /\ DOMAIN sent \subseteq Visible \cup Times
        /\ \A f \in Visible : (f \in DOMAIN sent) <=> (input.task[f] # "")
        /\ \A f \in Times : Small(input.task[f]) => f \in DOMAIN sent
        /\ \A f \in DOMAIN sent : sent[f].v = input.task[f]

(* A task that this code wrote into Redis can always be read again, and is *)
(* addressed to the same client.                                           *)
RedisTaskReadable ==
    input.path = "redis" /\ stage # "posted" =>
        stage # "crashed" /\ \A f \in Address : message[1][f] = input.task[f]

(* Stored in MongoDB, the same text can be read as history exactly if both *)
(* times were written: one whose low half is not positive is left out, and *)
(* then the assertion in StringToLong() stops the server.                  *)
HistoryNeedsTimes ==
    input.path = "mongo" /\ stage # "posted" =>
        (stage = "crashed" <=> \E f \in Times : Empty(input.task[f]))

(* What becomes of a task on its three ways: to the client, through the    *)
(* list in Redis, through the collection of MongoDB.                       *)
TaskSurvives == ClientSeesTask /\ RedisTaskReadable /\ HistoryNeedsTimes
=============================================================================
