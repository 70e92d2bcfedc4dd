------------------------------ MODULE LPushFmt ------------------------------
(***************************************************************************)
(* The typed values inside message bodies (LPushFMT, lpushFmt.cpp) and the *)
(* two callers in the server: the handshake (LPushProtocol::handshake) and *)
(* the acknowledgement of a push (LPushConn::recvPushCallback).            *)
(*                                                                         *)
(* A value is one tag byte and its bytes, big endian.  A byte has Base     *)
(* values (256 in the code), an int 4 bytes and a long 8; all arithmetic   *)
(* keeps that width.  The operands of "*buf++ << 24 | *buf++ << 16 | ..." are    *)
(* not sequenced in C++; the compilers used evaluate them left to right.   *)
(* The tag byte keeps its 8 bits, four of which are looked at.             *)
(*                                                                         *)
(* The decoders get a pointer and not the size of what it points to: they  *)
(* trust the lengths in the bytes.  What they make of a body is a set of   *)
(* outcomes, because accesses outside of an allocation may end the process *)
(* (now or later) or go unnoticed.                                         *)
(***************************************************************************)
EXTENDS Integers, Sequences

CONSTANTS
    Base,
    ErrorFmt,      \* ERROR_FMT: what decodeJson() returns for a bad text
    Parse,         \* function from the texts that are JSON to what they say, or
                   \* "throws" for one that is no object of plain values
    Inputs         \* the values to encode and decode again

WidthAssumption == Base \in Nat /\ Base > 1 /\ ErrorFmt \in Nat

VARIABLES input, wire, output
vars == <<input, wire, output>>

Word == Base * Base * Base * Base      \* an int is one of -Word / 2 .. Word / 2 - 1
Tag  == [string |-> 1, bool |-> 2, int |-> 3, long |-> 4, float |-> 5, json |-> 6]

(* (x >> 24) & 0xFF and so on, the reverse, and x | y for two ints.        *)
Bytes(x)  == <<(x \div (Base * Base * Base)) % Base, (x \div (Base * Base)) % Base,
               (x \div Base) % Base, x % Base>>
Number(bs) == ((bs[1] * Base + bs[2]) * Base + bs[3]) * Base + bs[4]
Signed(u)  == IF 2 * u >= Word THEN u - Word ELSE u

Or(x, y) ==
    LET Bits[u, v \in Nat] == IF u + v = 0 THEN 0
                              ELSE 2 * Bits[u \div 2, v \div 2]
                                     + (IF u % 2 = 1 \/ v % 2 = 1 THEN 1 ELSE 0)
    IN  IF x = 0 THEN y ELSE Bits[x, y]

IsType(data) == data[1] % 16
Has(data, t) == IsType(data) = Tag[t]
Part(data, from, n) == [k \in 1 .. n |-> data[from + k - 1]]
Length(data) == Signed(Number(Part(data, 2, 4)))      \* of a string or a JSON text

(* A char array read as a C string ends at its first zero byte.            *)
CString(bs) == LET z == {k \in DOMAIN bs : bs[k] = 0}
               IN  IF z = {} THEN bs
                   ELSE SubSeq(bs, 1, (CHOOSE k \in z : \A j \in z : k <= j) - 1)
-----------------------------------------------------------------------------
EncodeBool(x)   == <<Tag.bool, IF x THEN 1 ELSE 0>>
EncodeInt(x)    == <<Tag.int>> \o Bytes(x)
EncodeLong(x)   == <<Tag.long>> \o Bytes(x \div Word) \o Bytes(x)

(* encodeString() allocates the five bytes of the header and copies the    *)
(* text behind them.  Its caller gets the pointer; tlen is never set.      *)
EncodeString(s) == <<Tag.string>> \o Bytes(Len(s)) \o s

(* A float is counted in quarters.  getDecimal() multiplies the fraction   *)
(* until nothing of it is left and returns that nothing.                   *)
Truncate(q)    == IF q >= 0 THEN q \div 4 ELSE -((-q) \div 4)
GetDecimal(q)  == 0
EncodeFloat(q) == <<Tag.float>> \o Bytes(Truncate(q)) \o Bytes(GetDecimal(q))

(* The header is appended as a C string: what follows its first zero byte  *)
(* is lost (a text whose length has no zero byte takes 16 MB).             *)
EncodeJson(text) == CString(<<Tag.json>> \o Bytes(Len(text))) \o text
-----------------------------------------------------------------------------
(* decodeX(data, ret): the new value of ret, and the bytes used; or the    *)
(* process died; or it went on with bytes from behind the body, of which   *)
(* it counts more than the body has.                                       *)
Decoded(v, n) == [kind |-> "decoded", value |-> v, used |-> n]
Died   == [kind |-> "died"]
Beyond == [kind |-> "beyond"]

Reading(data, n, outcomes) == IF n > Len(data) THEN {Died, Beyond} ELSE outcomes

(* Another type leaves ret alone and uses the tag byte.                    *)
Typed(data, t, old, outcomes) == IF Has(data, t) THEN outcomes ELSE {Decoded(old, 1)}

DecodeBool(data, old) ==
    Typed(data, "bool", old, Reading(data, 2, {Decoded(data[2] % 16 = 1, 2)}))

DecodeInt(data, old) ==
    Typed(data, "int", old, Reading(data, 5, {Decoded(Signed(Number(Part(data, 2, 4))), 5)}))

(* The eight bytes are shifted as ints: a shift by 32 or more is undefined *)
(* and leaves the low five bits of the count or nothing.  The result is an *)
(* int, extended to a long afterwards.                                     *)
DecodeLong(data, old) ==
    LET high == Number(Part(data, 2, 4))
        low  == Number(Part(data, 6, 4))
    IN  Typed(data, "long", old,
            Reading(data, 9, {Decoded(Signed(u), 9) : u \in {low, Or(high, low)}}))

DecodeFloat(data, old) ==
    LET high == Signed(Number(Part(data, 2, 4)))
        low  == Signed(Number(Part(data, 6, 4)))
    IN  Typed(data, "float", old, Reading(data, 9, {Decoded(4 * high + (4 * low) \div 320, 9)}))

(* The length in the bytes is an int: malloc() of a negative one returns   *)
(* NULL, which is written to.                                              *)
Announced(data, outcomes) ==
    Reading(data, 5, IF Length(data) < 0 THEN {Died}
                     ELSE Reading(data, Length(data) + 5, outcomes))

(* The zero behind the text is one byte behind its allocation, too.        *)
DecodeString(data, old) ==
    Typed(data, "string", old, Announced(data,
        {Died, Decoded(CString(Part(data, 6, Length(data))), Length(data) + 5)}))

Nothing == "nothing"      \* an empty map

(* getMemberNames() of what is no object and asString() of a value that is *)
(* no string throw, and nobody catches.                                    *)
Parsed(text) ==
    IF text \notin DOMAIN Parse THEN {Decoded(Nothing, ErrorFmt)}
    ELSE IF Parse[text] = "throws" THEN {Died}
    ELSE {Decoded(Parse[text], Len(text) + 5)}

DecodeJson(data) ==
    Typed(data, "json", Nothing, Announced(data, Parsed(Part(data, 6, Length(data)))))
-----------------------------------------------------------------------------
(* handshake(): JSON, of exactly the length of the body, with a md5 that   *)
(* fits its fields (LPushHandshakeMessage::check).  What lies behind the   *)
(* body counts too much, or is no JSON and says nothing.                   *)
Check(fields) == fields = "authentic"

Taken   == [kind |-> "taken"]
Refused == [kind |-> "refused"]

JudgeAnyLength(r, data) ==       \* variant: the length is not compared
    CASE r.kind = "died"    -> Died
      [] r.kind = "beyond"  -> Refused
      [] r.kind = "decoded" -> IF Check(r.value) THEN Taken ELSE Refused

Judge(r, data) ==
    CASE r.kind = "died"    -> Died
      [] r.kind = "beyond"  -> Refused
      [] r.kind = "decoded" -> IF r.used = Len(data) /\ Check(r.value) THEN Taken ELSE Refused

Handshake(data) ==
    IF Has(data, "json") THEN {Judge(r, data) : r \in DecodeJson(data)} ELSE {Refused}

(* recvPushCallback(): two strings, neither empty.  The second is read     *)
(* where the first one ended, be that within the body or not.              *)
Ids(task, msg) == [kind |-> "ids", task |-> task, msg |-> msg]
Rest(data, n)  == SubSeq(data, n + 1, Len(data))

Acknowledged(task, m) ==
    CASE m.kind = "died"    -> Died
      [] m.kind = "beyond"  -> Beyond
      [] m.kind = "decoded" -> IF task = << >> \/ m.value = << >> THEN Refused
                               ELSE Ids(task, m.value)

MsgAfter(t, data) ==
    LET rest == Rest(data, t.used)
    IN  Reading(rest, 1, {Acknowledged(t.value, m) : m \in DecodeString(rest, << >>)})

PushCallback(data) ==
    UNION {CASE t.kind = "died"    -> {Died}
             [] t.kind = "beyond"  -> {Died, Beyond}
             [] t.kind = "decoded" -> MsgAfter(t, data) :
           t \in DecodeString(data, << >>)}
-----------------------------------------------------------------------------
(* What the program encodes and decodes: numbers that fit their types, texts *)
(* shorter than an int counts, and the bodies that a reader of frames lets *)
(* through: any bytes, at least one.                                       *)
InputsAssumption ==
    \A i \in Inputs :
        /\ i.type = "bool"   => i.value \in BOOLEAN
        /\ i.type = "int"    => i.value \in Int /\ -Word <= 2 * i.value /\ 2 * i.value < Word
        /\ i.type = "long"   => i.value \in Int
        /\ i.type = "float"  => /\ i.value \in Int /\ -Word <= 2 * Truncate(i.value)
                                /\ 2 * Truncate(i.value) < Word
        /\ i.type = "string" => i.value \in Seq(0 .. Base - 1) /\ 2 * Len(i.value) < Word
        /\ i.type \in {"callback", "body"} => i.value \in Seq(Nat) /\ i.value # << >>

(* What a caller does with a value, and with the bytes it gets.            *)
Encoding(data) ==
    CASE data.type = "bool"     -> EncodeBool(data.value)
      [] data.type = "int"      -> EncodeInt(data.value)
      [] data.type = "long"     -> EncodeLong(data.value)
      [] data.type = "float"    -> EncodeFloat(data.value)
      [] data.type = "string"   -> EncodeString(data.value)
      [] data.type = "json"     -> EncodeJson(data.value)
      [] data.type = "callback" -> data.value
      [] data.type = "body"     -> data.value

Decodings(type, data) ==
    CASE type = "bool"     -> DecodeBool(data, FALSE)
      [] type = "int"      -> DecodeInt(data, 0)
      [] type = "long"     -> DecodeLong(data, 0)
      [] type = "float"    -> DecodeFloat(data, 0)
      [] type = "string"   -> DecodeString(data, << >>)
      [] type = "json"     -> DecodeJson(data)
      [] type = "callback" -> PushCallback(data)
      [] type = "body"     -> Handshake(data)

Init == input \in Inputs /\ wire = << >> /\ output = {}

Encode ==
    /\ wire = << >> /\ output = {}
    /\ wire' = Encoding(input) /\ UNCHANGED <<input, output>>

(* What encodeString() writes behind its five bytes may end the process.   *)
Overflow ==
    /\ wire = << >> /\ output = {}
    /\ input.type = "string" /\ input.value # << >>
    /\ output' = {Died} /\ UNCHANGED <<input, wire>>

Decode ==
    /\ wire # << >> /\ output = {}
    /\ output' = Decodings(input.type, wire)
    /\ UNCHANGED <<input, wire>>

Next == Encode \/ Overflow \/ Decode
Spec == Init /\ [][Next]_vars
-----------------------------------------------------------------------------
(* Which values survive: every bool, every int, the longs that fit an int  *)
(* and are not negative (whatever the undefined shifts do), the whole      *)
(* floats, and the strings without a zero byte.                            *)
Safe == CASE input.type = "long"   -> 0 <= input.value /\ 2 * input.value < Word
          [] input.type = "float"  -> input.value % 4 = 0
          [] input.type = "string" -> \A k \in DOMAIN input.value : input.value[k] # 0
          [] OTHER                 -> input.type \in {"bool", "int"}

(* What was encoded is decoded again, and the decoder uses up exactly the  *)
(* bytes of the value, so that the next value starts where it stops.  The  *)
(* strings alone may end the process on the way: both of their functions   *)
(* write behind what they allocate.                                        *)
RoundTrip ==
    wire # << >> /\ output # {} /\ Safe =>
        /\ output \ {Died} = {Decoded(input.value, Len(wire))}
        /\ Died \in output => input.type = "string"

(* The bytes hold a value and, if it is a string, all that it announces.   *)
Whole(data) ==
    /\ data # << >>
    /\ Has(data, "string") => /\ Len(data) >= 5
                              /\ Length(data) >= 0 /\ Length(data) + 5 <= Len(data)

(* An acknowledgement is recorded only for a body that starts with two     *)
(* strings, and then with the ids it carries - as long as the body holds   *)
(* what it announces: nothing in the code sees to that.  The decoders      *)
(* never return a count <= 0 then, so the tests on the counts cannot       *)
(* refuse anything: it is the emptiness of the ids that does.              *)
CallbackExact ==
    input.type = "callback" =>
        LET n    == IF Has(wire, "string") THEN Length(wire) + 5 ELSE 1
            rest == Rest(wire, n)
        IN  \A r \in output :
                /\ r.kind = "ids" =>
                       /\ Whole(wire) /\ Has(wire, "string")
                       /\ Whole(rest) /\ Has(rest, "string")
                       /\ r = Ids(CString(Part(wire, 6, Length(wire))),
                                  CString(Part(rest, 6, Length(rest))))
                /\ r.kind = "beyond" => ~Whole(wire) \/ ~Whole(rest)

(* A handshake is taken if and only if its whole body is one authentic     *)
(* JSON text.  (An unparsable text makes decodeJson() return ERROR_FMT, a  *)
(* small positive number like a length: a body of that length passes the   *)
(* comparison.)  It can end the process in two ways: by a length that is   *)
(* negative or more than there is, or by JSON other than an object of      *)
(* plain values.                                                           *)
HandshakeExact ==
    input.type = "body" /\ output # {} =>
        LET text == SubSeq(wire, 6, Len(wire))
        IN  /\ Taken \in output <=>
                   /\ Has(wire, "json") /\ Len(wire) >= 5 /\ Length(wire) = Len(text)
                   /\ text \in DOMAIN Parse /\ Parse[text] = "authentic"
            /\ Died \in output =>
                   /\ Has(wire, "json")
                   /\ \/ Len(wire) < 5 \/ Length(wire) \notin 0 .. Len(wire) - 5
                      \/ LET said == Part(wire, 6, Length(wire))
                         IN  said \in DOMAIN Parse /\ Parse[said] = "throws"

(* What LPushFMT and its two callers in the server promise together.       *)
FmtExact == RoundTrip /\ CallbackExact /\ HandshakeExact
=============================================================================
