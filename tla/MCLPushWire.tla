------------------------------ MODULE MCLPushWire ----------------------------
(***************************************************************************)
(* What travels between a client, a server and the databases: the frames   *)
(* of a connection, the typed values inside a frame and the push tasks.    *)
(* The three share no state: each is a part of the state graph of its own. *)
(***************************************************************************)
EXTENDS LPushFrames, TLC

CONSTANTS
    Base, ErrorFmt, Parse, Values,     \* LPushFmt; Values are encoded and decoded
    Half, Orders                       \* LPushTask; Orders are the tasks on their way

VARIABLES
    part,
    datum, wire, output,               \* LPushFmt
    order, stage, message, shown       \* LPushTask
-----------------------------------------------------------------------------
(* Clients that log in, then send up to two more frames; and clients whose *)
(* first or second frame is not what the server expects.                   *)
F(t, n, g) == [flag |-> TRUE, type |-> t, len |-> n, ok |-> g]
NoFlag     == [flag |-> FALSE, type |-> "heartbeat", len |-> 1, ok |-> TRUE]
Hello      == F("handshake", 3, TRUE)
Open       == F("create", 2, TRUE)
Later      == {F("heartbeat", 1, TRUE), F("push", 3, TRUE), F("push", 3, FALSE),
               F("close", 2, TRUE), F("other", 0, TRUE), F("heartbeat", 4, TRUE),
               NoFlag}
Logins     == {<<Hello, Open, f, g>> : f \in Later,
                   g \in {F("heartbeat", 1, TRUE), F("push", 3, TRUE)}}
Odd        == {<<F("handshake", 3, FALSE), Open>>, <<Open, Hello>>, <<NoFlag>>,
               <<Hello, F("heartbeat", 1, TRUE), F("heartbeat", 3, TRUE)>>}
MCStreams  == Logins \cup Odd
-----------------------------------------------------------------------------
(* Bytes of two bits: an int has 8 bits and a long 16, so every int is     *)
(* tried.  A text of two bytes makes a body of the length ErrorFmt.        *)
(* Bodies announce fewer bytes than they have, as many, more, and a        *)
(* negative number of them, or end within the length.                      *)
Of(t, S)  == {[type |-> t, value |-> v] : v \in S}
Short(n)  == UNION {[1 .. k -> 0 .. 3] : k \in 0 .. n}
Texts     == {<<1, 2, 3>>, <<2, 1, 3>>, <<3, 2>>, <<1, 2>>, << >>}
MCParse   == (<<1, 2, 3>> :> "authentic") @@ (<<2, 1, 3>> :> "forged") @@ (<<3, 2>> :> "throws")
Lengths   == {<<0, 0, 0, n>> : n \in 0 .. 3} \cup {<<2, 0, 0, 0>>, <<3, 3, 3, 3>>, <<0, 1>>, << >>}

Str(s)    == <<1, 0, 0, 0, Len(s)>> \o s
Items     == {Str(s) : s \in {<< >>, <<1>>, <<0, 1>>, <<2, 3>>}}
                 \cup {<<17, 0, 0, 0, 1, 3>>, <<3, 0, 0, 0, 1>>, <<2>>}
                 \cup {<<1>> \o n : n \in Lengths} \cup {<<1, 0, 0, 0, 3, 2>>}
Callbacks == Items \cup {a \o b : a, b \in Items}
Bodies    == {<<t>> \o n \o x \o y :
                 t \in {6, 22, 1}, n \in Lengths, x \in Texts, y \in {<< >>, <<3>>}}

MCValues ==
    Of("bool", BOOLEAN) \cup Of("int", -128 .. 127)
        \cup Of("long", -300 .. 300) \cup Of("float", -20 .. 20)
        \cup Of("string", Short(3)) \cup Of("json", Short(2))
        \cup Of("callback", Callbacks) \cup Of("body", Bodies)

Fmt == INSTANCE LPushFmt WITH
           Inputs <- Values, input <- datum

ASSUME FmtAssumption == Fmt!WidthAssumption /\ Fmt!InputsAssumption
-----------------------------------------------------------------------------
(* An int of 3 bits, an int64_t of 6: times of every low and high half.    *)
TextFields == {"TaskId", "MsgId", "Title", "Content", "Ext", "UserId", "AppKey", "AppSecret"}
Longs      == -32 .. 31

TaskOf(S, t, e) ==
    [f \in TextFields \cup {"CreateTime", "ExpiresTime"} |->
        CASE f = "CreateTime"  -> t
          [] f = "ExpiresTime" -> e
          [] f \in S  -> "text"
          [] OTHER    -> ""]

Patterns == {TextFields, {}, {"UserId", "AppKey", "AppSecret"}, TextFields \ {"Ext"},
             {"UserId", "Title"}}
Foreign  == {[f \in S |-> [type |-> "string", v |-> "text"]] : S \in SUBSET {"CreateTime", "UserId"}}
                \cup {[CreateTime |-> [type |-> "int", v |-> 9]],
                      [UserId |-> [type |-> "object", v |-> "text"]]}

MCOrders ==
    {[path |-> p, task |-> TaskOf(S, t, 2)] : p \in {"redis", "mongo"}, S \in Patterns, t \in Longs}
        \cup {[path |-> p, task |-> TaskOf(TextFields, 2, e)] : p \in {"redis", "mongo"}, e \in Longs}
        \cup {[path |-> "foreign", task |-> o] : o \in Foreign}

Task == INSTANCE LPushTask WITH
            Inputs <- Orders, input <- order, sent <- shown

ASSUME TaskAssumption == Task!WidthAssumption /\ Task!InputsAssumption
-----------------------------------------------------------------------------
fmtVars  == <<datum, wire, output>>
taskVars == <<order, stage, message, shown>>
WireVars == <<part, vars, fmtVars, taskVars>>

(* A part that does not move keeps one of its initial states.              *)
WireInit ==
    /\ part \in {"frames", "fmt", "task"}
    /\ part = "frames" \/ sent = CHOOSE s \in Streams : TRUE
    /\ part = "fmt" \/ datum = CHOOSE d \in Values : TRUE
    /\ part = "task" \/ order = CHOOSE o \in Orders : TRUE
    /\ Init /\ Fmt!Init /\ Task!Init

FramesNext == part = "frames" /\ Next /\ UNCHANGED <<part, fmtVars, taskVars>>
FmtNext    == part = "fmt" /\ Fmt!Next /\ UNCHANGED <<part, vars, taskVars>>
TaskNext   == part = "task" /\ Task!Next /\ UNCHANGED <<part, vars, fmtVars>>

WireNext == FramesNext \/ FmtNext \/ TaskNext

WireSpec == WireInit /\ [][WireNext]_WireVars /\ WF_WireVars(FramesNext /\ Reads)
-----------------------------------------------------------------------------
(* LPushFMT: which values decode to themselves, which acknowledgements of  *)
(* a push are taken, and which bodies are taken for a handshake, given     *)
(* that decodeJson() reports an error as if it were a length.              *)
FmtExact == Fmt!FmtExact

(* LPushWorkerMessage: what a client sees of a task, which tasks in Redis  *)
(* the server can read, and which documents of the history stop it.        *)
TaskSurvives == Task!TaskSurvives
=============================================================================
