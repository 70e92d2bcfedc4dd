-------------------------- MODULE LPushWireProofs ---------------------------
(***************************************************************************)
(* What travels between a client and a server, for every value of the      *)
(* constants: what the reader of a connection relies on, for a buffer,     *)
(* headers and bodies of any size and any frames a client may send; which  *)
(* values survive LPushFMT, for bytes of any width; and which push tasks   *)
(* survive their way, for an int of any width.                             *)
(***************************************************************************)
EXTENDS MCLPushWire, LPushLemmas, SequenceTheorems

(* b is a buffer whose window holds the bytes that follow the first t.     *)
Holds(b, t) ==
    /\ b \in Buffer /\ b.p <= b.end
    /\ \A i \in 0 .. Size(b) - 1 : b.mem[b.p + i] = t + i + 1

(* What is awaited: a header, or the body that a good header announced.    *)
Awaits ==
    /\ header = NoHeader => need = HeaderSize
    /\ header # NoHeader => header.type \in Kind /\ need <= DataMax

Reader ==
    /\ TypeOK /\ Awaits
    /\ Holds(buf, taken) /\ taken + Size(buf) = received
    /\ at = "parse" => need <= Size(buf)
    /\ NeverOverflows

(* The answers that were written and the messages that were read, while    *)
(* the session lasts and at its end.                                       *)
Chunk == [type : Kind, data : Seq(Nat)]

InHandshake ==
    /\ Len(chunks) <= 1
    /\ at # "ended" => chunks = << >> /\ replies = << >>

InCreate ==
    /\ Len(chunks) <= 2
    /\ at # "ended" => /\ Len(chunks) = 1 /\ chunks[1].type = "handshake"
                       /\ replies = <<"handshake 1">>

InServe ==
    /\ Len(chunks) >= 2 /\ replies = <<"handshake 1", "create 1">>
    /\ chunks[1].type = "handshake" /\ chunks[2].type = "create"

Dialog ==
    /\ chunks \in Seq(Chunk)
    /\ session = "handshake" => InHandshake
    /\ session = "create" => InCreate
    /\ session = "serve" => InServe

IInv == Reader /\ Dialog

USE CapAssumption
-----------------------------------------------------------------------------
(* Where the frames of a stream begin: f is Begin(s) up to frame n + 1.    *)
Starts(s, n, f) ==
    f = [i \in 1 .. n + 1 |-> IF i = 1 THEN 0 ELSE f[i - 1] + FrameSize(s[i - 1])]

LEMMA StartsExist ==
    ASSUME NEW s
    PROVE  \A n \in Nat : \E f : Starts(s, n, f)
<1> DEFINE S == {n \in Nat : \E f : Starts(s, n, f)}
<1>1. 0 \in S
    <2> DEFINE f == [i \in 1 .. 1 |-> 0]
    <2>1. Starts(s, 0, f)
        BY DEF Starts
    <2> QED BY <2>1
<1>2. ASSUME NEW n \in Nat, n \in S PROVE n + 1 \in S
    <2>1. PICK f : Starts(s, n, f)
        BY <1>2
    <2> DEFINE e == f[n + 1] + FrameSize(s[n + 1])
               g == [i \in 1 .. n + 2 |-> IF i = n + 2 THEN e ELSE f[i]]
               h == [i \in 1 .. n + 2 |-> IF i = 1 THEN 0 ELSE g[i - 1] + FrameSize(s[i - 1])]
    <2>2. ASSUME NEW i \in 1 .. n + 2 PROVE g[i] = h[i]
        <3>1. CASE i = n + 2
            <4>1. g[i] = e /\ g[n + 1] = f[n + 1] /\ i - 1 = n + 1 /\ i # 1
                BY <3>1
            <4> QED BY <3>1, <4>1
        <3>2. CASE i = 1
            <4>1. f[1] = 0
                BY <2>1 DEF Starts
            <4>2. g[1] = f[1]
                OBVIOUS
            <4> QED BY <3>2, <4>1, <4>2
        <3>3. CASE i \in 2 .. n + 1
            <4>1. i \in 1 .. n + 1 /\ i # 1
                BY <3>3
            <4>2. f[i] = f[i - 1] + FrameSize(s[i - 1])
                BY <4>1, <2>1 DEF Starts
            <4>3. g[i] = f[i] /\ g[i - 1] = f[i - 1]
                BY <3>3
            <4> QED BY <4>1, <4>2, <4>3
        <3> QED BY <3>1, <3>2, <3>3
    <2>3. g = h
        <3> HIDE DEF e
        <3> QED BY <2>2
    <2>4. Starts(s, n + 1, g)
        <3>1. (n + 1) + 1 = n + 2
            OBVIOUS
        <3> QED BY <2>3, <3>1 DEF Starts
    <2> HIDE DEF g
    <2> QED BY <2>4
<1> HIDE DEF S
<1>3. Nat \subseteq S
    BY <1>1, <1>2, Induction
<1> QED BY <1>3 DEF S

LEMMA BeginUnfolds ==
    ASSUME NEW s, Len(s) \in Nat
    PROVE  /\ Begin(s)[1] = 0
           /\ \A i \in 1 .. Len(s) : Begin(s)[i + 1] = Begin(s)[i] + FrameSize(s[i])
<1> DEFINE b == Begin(s)
<1>1. \E f : Starts(s, Len(s), f)
    BY StartsExist
<1>2. b = CHOOSE f : Starts(s, Len(s), f)
    BY DEF Begin, Starts
<1>3. Starts(s, Len(s), b)
    BY <1>1, <1>2
<1> HIDE DEF b
<1>4. b = [i \in 1 .. Len(s) + 1 |-> IF i = 1 THEN 0 ELSE b[i - 1] + FrameSize(s[i - 1])]
    BY <1>3 DEF Starts
<1>5. b[1] = 0
    BY <1>4
<1>6. ASSUME NEW i \in 1 .. Len(s) PROVE b[i + 1] = b[i] + FrameSize(s[i])
    <2>1. i + 1 \in 1 .. Len(s) + 1 /\ i + 1 # 1 /\ (i + 1) - 1 = i
        OBVIOUS
    <2> QED BY <1>4, <2>1
<1> QED BY <1>5, <1>6 DEF b

LEMMA BeginGrows ==
    ASSUME NEW s \in Seq(Frame)
    PROVE  /\ \A i \in 1 .. Len(s) + 1 : Begin(s)[i] \in Nat
           /\ \A i, j \in 1 .. Len(s) + 1 : i < j => Begin(s)[i] < Begin(s)[j]
<1> DEFINE b == Begin(s)
           S == {n \in Nat : n <= Len(s) =>
                    /\ \A i \in 1 .. n + 1 : b[i] \in Nat
                    /\ \A i \in 1 .. n : b[i] < b[n + 1]}
<1>1. /\ b[1] = 0 /\ \A i \in 1 .. Len(s) : b[i + 1] = b[i] + FrameSize(s[i])
      /\ Len(s) \in Nat /\ \A i \in 1 .. Len(s) : s[i] \in Frame
    BY BeginUnfolds
<1>2. ASSUME NEW i \in 1 .. Len(s) PROVE FrameSize(s[i]) \in Nat /\ FrameSize(s[i]) >= 1
    BY <1>1, SizeAssumption DEF FrameSize, Frame
<1> HIDE DEF b
<1>3. 0 \in S
    BY <1>1
<1>4. ASSUME NEW n \in Nat, n \in S PROVE n + 1 \in S
    <2> SUFFICES ASSUME n + 1 <= Len(s)
                 PROVE  /\ \A i \in 1 .. n + 2 : b[i] \in Nat
                        /\ \A i \in 1 .. n + 1 : b[i] < b[n + 2]
        OBVIOUS
    <2>1. n + 1 \in 1 .. Len(s) /\ n <= Len(s) /\ (n + 1) + 1 = n + 2
        BY <1>1
    <2>2. /\ \A i \in 1 .. n + 1 : b[i] \in Nat
          /\ \A i \in 1 .. n : b[i] < b[n + 1]
        BY <1>4, <2>1
    <2>3. b[n + 2] = b[n + 1] + FrameSize(s[n + 1])
        BY <1>1, <2>1
    <2>4. b[n + 2] \in Nat /\ b[n + 1] < b[n + 2]
        BY <1>2, <2>1, <2>2, <2>3
    <2>5. ASSUME NEW i \in 1 .. n + 1 PROVE b[i] < b[n + 2]
        <3>1. CASE i = n + 1
            BY <2>4, <3>1
        <3>2. CASE i \in 1 .. n
            <4>1. b[i] < b[n + 1] /\ b[i] \in Nat /\ b[n + 1] \in Nat
                BY <2>2, <3>2
            <4> QED BY <2>4, <4>1
        <3> QED BY <3>1, <3>2
    <2> QED BY <2>2, <2>4, <2>5
<1>5. Nat \subseteq S
    <2> HIDE DEF S
    <2> QED BY <1>3, <1>4, Induction
<1>6. \A i \in 1 .. Len(s) + 1 : b[i] \in Nat
    <2>1. Len(s) \in S
        BY <1>1, <1>5
    <2> QED BY <1>1, <2>1
<1>7. ASSUME NEW i \in 1 .. Len(s) + 1, NEW j \in 1 .. Len(s) + 1, i < j PROVE b[i] < b[j]
    <2>1. j - 1 \in Nat /\ j - 1 <= Len(s) /\ (j - 1) + 1 = j /\ i \in 1 .. j - 1
        BY <1>1, <1>7
    <2>2. j - 1 \in S
        BY <1>5, <2>1
    <2>3. b[i] < b[(j - 1) + 1]
        BY <2>1, <2>2
    <2> QED BY <2>1, <2>3
<1> QED BY <1>6, <1>7 DEF b
-----------------------------------------------------------------------------
LEMMA Replaced ==
    ASSUME NEW b \in Buffer, NEW m \in [Slot -> Nat], NEW q \in 0 .. Cap, NEW e \in 0 .. Cap
    PROVE  /\ [b EXCEPT !.mem = m, !.p = q, !.end = e] \in Buffer
           /\ [b EXCEPT !.mem = m, !.end = e] \in Buffer
BY DEF Buffer

(* LPushFastBuffer.  Moving the unread rest keeps the window and makes all *)
(* of the other room free.                                                 *)
LEMMA CompactHolds ==
    ASSUME NEW b, NEW t \in Nat, Holds(b, t)
    PROVE  /\ Holds(Compact(b), t) /\ Size(Compact(b)) = Size(b)
           /\ FreeSpace(Compact(b)) = Cap - Size(b)
<1>1. /\ b \in [mem : [Slot -> Nat], p : 0 .. Cap, end : 0 .. Cap]
      /\ b.p <= b.end /\ Size(b) = b.end - b.p /\ Size(b) \in 0 .. Cap
    BY DEF Holds, Buffer, Size
<1>2. /\ Compact(b).p = 0 /\ Compact(b).end = Size(b)
      /\ Compact(b).mem = [i \in Slot |-> IF i < Size(b) THEN b.mem[b.p + i] ELSE b.mem[i]]
    BY <1>1 DEF Compact
<1>3. \A i \in Slot : i < Size(b) => b.p + i \in Slot
    BY <1>1 DEF Slot
<1>4. Compact(b).mem \in [Slot -> Nat]
    BY <1>1, <1>2, <1>3
<1>5. Compact(b) \in Buffer
    <2> DEFINE m == [i \in Slot |-> IF i < Size(b) THEN b.mem[b.p + i] ELSE b.mem[i]]
    <2>1. Compact(b) = [b EXCEPT !.mem = m, !.p = 0, !.end = Size(b)]
        BY DEF Compact
    <2>2. m \in [Slot -> Nat]
        BY <1>2, <1>4
    <2>3. b \in Buffer /\ 0 \in 0 .. Cap
        BY DEF Holds
    <2>4. Size(b) \in 0 .. Cap
        BY <1>1
    <2> HIDE DEF m
    <2>5. [b EXCEPT !.mem = m, !.p = 0, !.end = Size(b)] \in Buffer
        BY <2>2, <2>3, <2>4, Replaced
    <2> QED BY <2>1, <2>5
<1>6. Size(Compact(b)) = Size(b) /\ FreeSpace(Compact(b)) = Cap - Size(b)
    BY <1>1, <1>2 DEF Size, FreeSpace
<1>7. ASSUME NEW i \in 0 .. Size(b) - 1
      PROVE  Compact(b).mem[Compact(b).p + i] = t + i + 1
    <2>1. i \in Slot /\ i < Size(b)
        BY <1>1 DEF Slot
    <2>2. Compact(b).mem[i] = b.mem[b.p + i]
        BY <1>2, <2>1
    <2>3. Compact(b).p + i = i
        BY <1>2
    <2> QED BY <2>2, <2>3 DEF Holds
<1> QED BY <1>1, <1>2, <1>5, <1>6, <1>7 DEF Holds

(* Reading from the socket extends the window by the bytes that follow it. *)
LEMMA StoreHolds ==
    ASSUME NEW b, NEW t \in Nat, Holds(b, t), NEW n \in 1 .. FreeSpace(b)
    PROVE  /\ Holds(Store(b, t + Size(b), n), t)
           /\ Size(Store(b, t + Size(b), n)) = Size(b) + n
<1> DEFINE s == Store(b, t + Size(b), n)
<1>1. /\ b \in [mem : [Slot -> Nat], p : 0 .. Cap, end : 0 .. Cap]
      /\ b.p <= b.end /\ Size(b) = b.end - b.p /\ Size(b) \in 0 .. Cap
      /\ n \in Nat /\ n >= 1 /\ b.end + n <= Cap
      /\ b.p \in Nat /\ b.end \in Nat /\ Size(b) \in Nat
    BY DEF Holds, Buffer, Size, FreeSpace
<1>2. /\ s.p = b.p /\ s.end = b.end + n
      /\ s.mem = [i \in Slot |-> IF i \in b.end .. b.end + n - 1
                                 THEN (t + Size(b)) + (i - b.end) + 1 ELSE b.mem[i]]
    BY <1>1 DEF Store
<1>3. s.mem \in [Slot -> Nat]
    <2>1. ASSUME NEW i \in Slot, i \in b.end .. b.end + n - 1
          PROVE  (t + Size(b)) + (i - b.end) + 1 \in Nat
        <3>1. i - b.end \in Nat
            BY <1>1, <2>1 DEF Slot
        <3> QED BY <1>1, <3>1
    <2> QED BY <1>1, <1>2, <2>1
<1>4. s \in Buffer
    <2> DEFINE m == [i \in Slot |-> IF i \in b.end .. b.end + n - 1
                                   THEN (t + Size(b)) + (i - b.end) + 1 ELSE b.mem[i]]
    <2>1. s = [b EXCEPT !.mem = m, !.end = b.end + n]
        BY DEF Store
    <2>2. m \in [Slot -> Nat]
        BY <1>2, <1>3
    <2>3. b \in Buffer /\ b.p \in 0 .. Cap /\ b.end + n \in 0 .. Cap
        BY <1>1 DEF Holds
    <2> HIDE DEF m, s
    <2> QED BY <1>1, <2>1, <2>2, <2>3, Replaced
<1>5. Size(s) = Size(b) + n
    BY <1>1, <1>2 DEF Size
<1>6. ASSUME NEW i \in 0 .. Size(s) - 1
      PROVE  s.mem[s.p + i] = t + i + 1
    <2>1. b.p + i \in Slot
        <3>1. i \in Nat /\ i < Size(b) + n
            BY <1>1, <1>5
        <3> HIDE DEF s
        <3> QED BY <1>1, <3>1 DEF Slot
    <2>2. CASE i < Size(b)
        <3>1. b.p + i \notin b.end .. b.end + n - 1
            BY <1>1, <2>2
        <3>2. b.mem[b.p + i] = t + i + 1
            BY <1>1, <2>2 DEF Holds
        <3> QED BY <1>2, <2>1, <3>1, <3>2
    <2>3. CASE i >= Size(b)
        <3>1. b.p + i \in b.end .. b.end + n - 1
            BY <1>1, <1>5, <2>3
        <3>2. (t + Size(b)) + ((b.p + i) - b.end) + 1 = t + i + 1
            BY <1>1
        <3> QED BY <1>2, <2>1, <3>1, <3>2
    <2> QED BY <1>1, <2>2, <2>3
<1> QED BY <1>1, <1>2, <1>4, <1>5, <1>6 DEF Holds

(* Taking n bytes leaves the bytes that follow them.                       *)
LEMMA SkipHolds ==
    ASSUME NEW b, NEW t \in Nat, Holds(b, t), NEW n \in Nat, n <= Size(b)
    PROVE  /\ Holds(Skip(b, n), t + n) /\ Size(Skip(b, n)) = Size(b) - n
           /\ Slice(b, n) \in Seq(Nat)
<1>1. /\ b \in [mem : [Slot -> Nat], p : 0 .. Cap, end : 0 .. Cap]
      /\ b.p <= b.end /\ Size(b) = b.end - b.p
    BY DEF Holds, Buffer, Size
<1>2. /\ Skip(b, n).p = b.p + n /\ Skip(b, n).end = b.end /\ Skip(b, n).mem = b.mem
      /\ Skip(b, n) \in Buffer
    BY <1>1 DEF Skip, Buffer
<1>3. Size(Skip(b, n)) = Size(b) - n
    BY <1>1, <1>2 DEF Size
<1>4. ASSUME NEW i \in 0 .. Size(Skip(b, n)) - 1
      PROVE  Skip(b, n).mem[Skip(b, n).p + i] = (t + n) + i + 1
    <2>1. n + i \in 0 .. Size(b) - 1
        BY <1>1, <1>3
    <2>2. b.mem[b.p + (n + i)] = t + (n + i) + 1
        BY <2>1 DEF Holds
    <2>3. b.p + (n + i) = (b.p + n) + i /\ t + (n + i) + 1 = (t + n) + i + 1
        BY <1>1
    <2> QED BY <1>2, <2>2, <2>3
<1>5. Slice(b, n) \in Seq(Nat)
    <2>1. \A i \in 1 .. n : b.p + i - 1 \in Slot
        BY <1>1 DEF Slot
    <2>2. Slice(b, n) \in [1 .. n -> Nat]
        BY <1>1, <2>1 DEF Slice
    <2> QED BY <2>2, SeqDef
<1> QED BY <1>1, <1>2, <1>3, <1>4, <1>5 DEF Holds
-----------------------------------------------------------------------------
(* The end of a session changes nothing that the reader relies on.         *)
LEMMA SizeFacts ==
    ASSUME Reader
    PROVE  /\ taken \in Nat /\ received \in Nat /\ need \in Nat /\ need >= 1
           /\ HeaderSize \in Nat /\ HeaderSize >= 1 /\ DataMax \in Nat /\ DataMax >= 1
           /\ Size(buf) \in Nat /\ Cap >= 2 * need /\ buf \in Buffer /\ buf.end \in 0 .. Cap
           /\ received = taken + Size(buf)
<1>1. /\ HeaderSize \in Nat /\ HeaderSize >= 1 /\ DataMax \in Nat /\ DataMax >= 1
      /\ Cap >= 2 * HeaderSize /\ Cap >= 2 * DataMax
    BY SizeAssumption, RoomAssumption
<1>2. need \in 1 .. IF HeaderSize > DataMax THEN HeaderSize ELSE DataMax
    BY DEF Reader, TypeOK
<1>3. need \in Nat /\ need >= 1 /\ Cap >= 2 * need
    BY <1>1, <1>2
<1>4. buf \in Buffer /\ buf.p <= buf.end /\ received = taken + Size(buf)
    BY DEF Reader, Holds
<1>5. Size(buf) \in Nat /\ buf.end \in 0 .. Cap
    BY <1>4 DEF Buffer, Size
<1> QED BY <1>1, <1>3, <1>4, <1>5 DEF Reader, TypeOK

LEMMA GrowReader ==
    ASSUME Reader, Grow
    PROVE  Reader'
<1>1. UNCHANGED <<sent, arrived, eof, received, taken, need, header, session, closing>>
    BY DEF Grow, input, EndAs, dialog
<1>2. CASE Size(buf) >= need
    <2>1. at' = "parse" /\ UNCHANGED <<buf, why>>
        BY <1>2 DEF Grow
    <2> QED BY <1>1, <1>2, <2>1 DEF Reader, TypeOK, Awaits, NeverOverflows
<1>3. CASE Size(buf) < need
    <2> DEFINE b == IF FreeSpace(buf) < need THEN Compact(buf) ELSE buf
    <2>0. ~(Size(buf) >= need)
        BY <1>3, SizeFacts
    <2>1. Holds(b, taken) /\ Size(b) = Size(buf) /\ ~(FreeSpace(b) < need)
        <3>1. CASE FreeSpace(buf) < need
            <4>1. b = Compact(buf)
                BY <3>1
            <4>2. /\ Holds(Compact(buf), taken) /\ Size(Compact(buf)) = Size(buf)
                  /\ FreeSpace(Compact(buf)) = Cap - Size(buf)
                BY CompactHolds, SizeFacts DEF Reader
            <4>3. ~(Cap - Size(buf) < need)
                BY <1>3, SizeFacts
            <4> QED BY <4>1, <4>2, <4>3
        <3>2. CASE ~(FreeSpace(buf) < need)
            BY <3>2 DEF Reader
        <3> QED BY <3>1, <3>2
    <2>2. buf' = b /\ at' = "fill" /\ why' = why
        BY <2>0, <2>1 DEF Grow
    <2> HIDE DEF b
    <2>3. buf' \in Buffer /\ at' = "fill" /\ why' = why /\ Size(buf') = Size(buf)
        BY <2>1, <2>2 DEF Holds
    <2> QED BY <1>1, <2>1, <2>2, <2>3 DEF Reader, TypeOK, Awaits, NeverOverflows
<1> QED BY <1>2, <1>3, SizeFacts

LEMMA FillReader ==
    ASSUME Reader, NEW n \in 1 .. Cap, Fill(n)
    PROVE  Reader'
<1>1. /\ UNCHANGED <<sent, arrived, eof, taken, need, header, why, session, closing>>
      /\ n <= FreeSpace(buf) /\ buf' = Store(buf, received, n) /\ received' = received + n
      /\ at' = IF Size(buf') >= need THEN "parse" ELSE "fill"
    BY DEF Fill, input, dialog
<1>2. n \in 1 .. FreeSpace(buf)
    BY <1>1, SizeFacts DEF FreeSpace
<1>3. Holds(buf', taken) /\ Size(buf') = Size(buf) + n
    BY <1>1, <1>2, SizeFacts, StoreHolds DEF Reader
<1>4. taken + Size(buf') = received' /\ received' \in Nat
    BY <1>1, <1>3, SizeFacts
<1>5. Size(buf') \in Nat
    BY <1>3, SizeFacts
<1>6. at' \in {"parse", "fill"} /\ (at' = "parse" => need <= Size(buf'))
    BY <1>1, <1>5, SizeFacts
<1>7. TypeOK' /\ Awaits' /\ NeverOverflows'
    BY <1>1, <1>3, <1>4, <1>6 DEF Reader, TypeOK, Awaits, NeverOverflows, Holds
<1> QED BY <1>1, <1>3, <1>4, <1>6, <1>7 DEF Reader

(* A step that leaves the buffer alone and ends or goes on.                *)
LEMMA IdleReader ==
    ASSUME Reader, UNCHANGED <<sent, received, taken, buf, need, header>>,
           arrived' \in Nat, eof' \in BOOLEAN, closing' \in BOOLEAN,
           session' = session, (at' = at /\ why' = why) \/ (at' = "ended" /\ why' # "overflow")
    PROVE  Reader'
BY DEF Reader, TypeOK, Awaits, NeverOverflows

(* A header is that of a frame or none at all.                             *)
LEMMA HeaderFacts ==
    ASSUME sent \in Streams, NEW bytes
    PROVE  HeaderIn(bytes) \in Frame
<1> DEFINE start == {i \in 1 .. Len(sent) :
                        bytes = [j \in 1 .. HeaderSize |-> Begin(sent)[i] + j]}
<1>1. CASE start = {}
    BY <1>1 DEF HeaderIn, Frame, Kind
<1>2. CASE start # {}
    <2>1. HeaderIn(bytes) = sent[CHOOSE i \in start : TRUE]
        BY <1>2 DEF HeaderIn
    <2>2. (CHOOSE i \in start : TRUE) \in 1 .. Len(sent)
        BY <1>2
    <2> QED BY <2>1, <2>2, StreamAssumption
<1> QED BY <1>1, <1>2

LEMMA HeaderReader ==
    ASSUME Reader, ReadHeader
    PROVE  Reader'
<1> DEFINE h == HeaderIn(Slice(buf, HeaderSize))
<1>1. /\ at = "parse" /\ header = NoHeader
      /\ buf' = Skip(buf, HeaderSize) /\ taken' = taken + HeaderSize
      /\ UNCHANGED <<sent, arrived, eof, received, session, closing>>
    BY DEF ReadHeader, input, dialog, EndAs
<1>2. \/ /\ h.len > 0 /\ h.len <= DataMax /\ header' = h /\ need' = h.len
         /\ at' = "grow" /\ why' = why
      \/ UNCHANGED <<header, need>> /\ at' = "ended" /\ why' = "header"
    BY DEF ReadHeader, EndAs
<1>3. h \in Frame
    BY HeaderFacts DEF Reader, TypeOK
<1>4. need = HeaderSize /\ need <= Size(buf)
    BY <1>1 DEF Reader, Awaits
<1>5. Holds(buf', taken') /\ Size(buf') = Size(buf) - HeaderSize
    BY <1>1, <1>4, SizeFacts, SkipHolds DEF Reader
<1>6. taken' \in Nat /\ taken' + Size(buf') = received'
    BY <1>1, <1>5, SizeFacts
<1> HIDE DEF h
<1>7. CASE h.len > 0 /\ h.len <= DataMax /\ header' = h /\ need' = h.len
           /\ at' = "grow" /\ why' = why
    <2>1. h.len \in Int /\ h.type \in Kind /\ h # NoHeader
        BY <1>3 DEF Frame, NoHeader, Kind
    <2>2. need' \in 1 .. IF HeaderSize > DataMax THEN HeaderSize ELSE DataMax
        BY <1>7, <2>1, SizeFacts
    <2> QED BY <1>1, <1>3, <1>5, <1>6, <1>7, <2>1, <2>2
            DEF Reader, TypeOK, Awaits, NeverOverflows, Holds
<1>8. CASE UNCHANGED <<header, need>> /\ at' = "ended" /\ why' = "header"
    BY <1>1, <1>5, <1>6, <1>8 DEF Reader, TypeOK, Awaits, NeverOverflows, Holds
<1> QED BY <1>2, <1>7, <1>8

LEMMA BodyReader ==
    ASSUME Reader, TakeBody, at = "parse",
           (at' = "grow" /\ why' = why) \/ (at' = "ended" /\ why' # "overflow"),
           session' \in {"handshake", "create", "serve"}, closing' \in BOOLEAN
    PROVE  Reader' /\ (chunks \in Seq(Chunk) =>
               /\ chunks' \in Seq(Chunk) /\ Len(chunks') = Len(chunks) + 1
               /\ chunks'[Len(chunks) + 1].type = header.type
               /\ \A i \in 1 .. Len(chunks) : chunks'[i] = chunks[i])
<1>1. /\ header # NoHeader
      /\ chunks' = Append(chunks, [type |-> header.type, data |-> Slice(buf, need)])
      /\ buf' = Skip(buf, need) /\ taken' = taken + need
      /\ header' = NoHeader /\ need' = HeaderSize
      /\ UNCHANGED <<sent, arrived, eof, received>>
    BY DEF TakeBody, input
<1>2. need <= Size(buf) /\ header.type \in Kind
    BY <1>1 DEF Reader, Awaits
<1>3. Holds(buf', taken') /\ Size(buf') = Size(buf) - need /\ Slice(buf, need) \in Seq(Nat)
    BY <1>1, <1>2, SizeFacts, SkipHolds DEF Reader
<1>4. taken' \in Nat /\ taken' + Size(buf') = received'
    BY <1>1, <1>3, SizeFacts
<1>5. need' \in 1 .. IF HeaderSize > DataMax THEN HeaderSize ELSE DataMax
    BY <1>1, SizeFacts
<1>6. Reader'
    BY <1>1, <1>3, <1>4, <1>5 DEF Reader, TypeOK, Awaits, NeverOverflows, Holds
<1>7. [type |-> header.type, data |-> Slice(buf, need)] \in Chunk
    BY <1>2, <1>3 DEF Chunk
<1> QED BY <1>1, <1>6, <1>7, AppendProperties
-----------------------------------------------------------------------------
LEMMA EmptyAppend == \A x : Append(<< >>, x) = <<x>>
OBVIOUS

LEMMA SingleAppend ==
    ASSUME NEW x, NEW y
    PROVE  Append(<<x>>, y) = <<x, y>>
<1>1. <<x>> \in Seq({x, y}) /\ y \in {x, y} /\ <<x, y>> \in Seq({x, y})
    OBVIOUS
<1>2. Len(<<x>>) = 1 /\ <<x>>[1] = x /\ Len(<<x, y>>) = 2 /\ <<x, y>>[1] = x /\ <<x, y>>[2] = y
    OBVIOUS
<1>3. /\ Append(<<x>>, y) \in Seq({x, y}) /\ Len(Append(<<x>>, y)) = 2
      /\ Append(<<x>>, y)[1] = x /\ Append(<<x>>, y)[2] = y
    <2>1. 1 \in 1 .. Len(<<x>>) /\ Len(<<x>>) + 1 = 2
        BY <1>2
    <2> QED BY <1>1, <1>2, <2>1, AppendProperties
<1>4. \A i \in 1 .. 2 : Append(<<x>>, y)[i] = <<x, y>>[i]
    <2>1. \A i \in 1 .. 2 : i = 1 \/ i = 2
        OBVIOUS
    <2> QED BY <1>2, <1>3, <2>1
<1> QED BY <1>1, <1>2, <1>3, <1>4, SeqEqual

LEMMA LengthFacts ==
    ASSUME NEW S, NEW s \in Seq(S)
    PROVE  /\ Len(s) \in Nat
           /\ Len(s) = 1 => 1 \in 1 .. Len(s) /\ Len(s) + 1 = 2 /\ Len(s) <= 2
           /\ Len(s) = 2 => Len(s) >= 2 /\ Len(s) <= 2
           /\ Len(s) <= 1 => ~(Len(s) > 2)
           /\ Len(s) <= 2 => ~(Len(s) > 2)
           /\ Len(s) >= 2 => 1 \in 1 .. Len(s) /\ 2 \in 1 .. Len(s) /\ Len(s) + 1 >= 2
<1> DEFINE n == Len(s)
<1>1. n \in Nat
    OBVIOUS
<1> HIDE DEF n
<1>2. /\ n = 1 => 1 \in 1 .. n /\ n + 1 = 2 /\ n <= 2
      /\ n = 2 => n >= 2 /\ n <= 2
      /\ n <= 1 => ~(n > 2)
      /\ n <= 2 => ~(n > 2)
      /\ n >= 2 => 1 \in 1 .. n /\ 2 \in 1 .. n /\ n + 1 >= 2
    BY <1>1
<1> QED BY <1>1, <1>2 DEF n

(* The dialog: a step of the reader that takes no message, ...             *)
LEMMA QuietDialog ==
    ASSUME IInv, Reader', UNCHANGED <<session, chunks>>,
           \/ replies' = replies /\ (at # "ended" \/ at' = "ended")
           \/ at' = "ended" /\ session = "handshake"
    PROVE  IInv'
<1>1. Dialog'
    BY DEF IInv, Dialog, InHandshake, InCreate, InServe
<1> QED BY <1>1 DEF IInv

LEMMA EndAsDialog ==
    ASSUME IInv, NEW reason, EndAs(reason), Reader'
    PROVE  IInv'
<1>1. at' = "ended" /\ UNCHANGED <<session, chunks>>
      /\ (session # "handshake" => replies' = replies)
    BY DEF EndAs
<1> QED BY <1>1, QuietDialog

(* ... and those that take one.                                            *)
LEMMA HandshakeStep ==
    ASSUME IInv, Handshake
    PROVE  IInv'
<1>1. /\ session = "handshake" /\ at = "parse" /\ TakeBody /\ closing' = closing
      /\ chunks = << >> /\ replies = << >> /\ chunks \in Seq(Chunk)
    BY DEF Handshake, TakeBody, IInv, Dialog, InHandshake
<1>2. \/ Ends("refused") /\ session' = session
      \/ Ends("write") /\ session' = session
      \/ /\ header.type = "handshake" /\ GoesOn /\ session' = "create"
         /\ replies' = Append(replies, "handshake 1")
    BY DEF Handshake
<1>3. /\ Reader' /\ chunks' \in Seq(Chunk) /\ Len(chunks') = Len(chunks) + 1
      /\ chunks'[Len(chunks) + 1].type = header.type
    <2>1. (at' = "grow" /\ why' = why) \/ (at' = "ended" /\ why' # "overflow")
        BY <1>2 DEF Ends, GoesOn
    <2>2. session' \in {"handshake", "create", "serve"} /\ closing' \in BOOLEAN
        BY <1>1, <1>2 DEF IInv, Reader, TypeOK
    <2> QED BY <1>1, <2>1, <2>2, BodyReader DEF IInv
<1>4. Len(chunks) = 0
    BY <1>1
<1>5. Len(chunks') = 1 /\ chunks'[1].type = header.type
    BY <1>3, <1>4
<1>6. CASE session' = session /\ at' = "ended"
    <2>1. Dialog'
        BY <1>1, <1>3, <1>5, <1>6 DEF Dialog, InHandshake
    <2> QED BY <1>3, <2>1 DEF IInv
<1>7. CASE /\ header.type = "handshake" /\ session' = "create"
           /\ replies' = Append(replies, "handshake 1")
    <2>1. replies' = <<"handshake 1">>
        BY <1>1, <1>7, EmptyAppend
    <2>2. InCreate'
        BY <1>3, <1>5, <1>7, <2>1, LengthFacts, Zenon DEF InCreate
    <2>3. Dialog'
        BY <1>3, <1>7, <2>2 DEF Dialog
    <2> QED BY <1>3, <2>3 DEF IInv
<1> QED BY <1>2, <1>6, <1>7 DEF Ends

LEMMA CreateStep ==
    ASSUME IInv, Create
    PROVE  IInv'
<1>1. /\ session = "create" /\ at = "parse" /\ TakeBody /\ closing' = closing
      /\ Len(chunks) = 1 /\ chunks[1].type = "handshake" /\ replies = <<"handshake 1">>
      /\ chunks \in Seq(Chunk)
    BY DEF Create, TakeBody, IInv, Dialog, InCreate
<1>2. \/ Ends("refused") /\ session' = session
      \/ Ends("write") /\ session' = session
      \/ /\ header.type = "create" /\ GoesOn /\ session' = "serve"
         /\ replies' = Append(replies, "create 1")
    BY DEF Create
<1>3. /\ Reader' /\ chunks' \in Seq(Chunk) /\ Len(chunks') = Len(chunks) + 1
      /\ chunks'[Len(chunks) + 1].type = header.type
      /\ \A i \in 1 .. Len(chunks) : chunks'[i] = chunks[i]
    <2>1. (at' = "grow" /\ why' = why) \/ (at' = "ended" /\ why' # "overflow")
        BY <1>2 DEF Ends, GoesOn
    <2>2. session' \in {"handshake", "create", "serve"} /\ closing' \in BOOLEAN
        BY <1>1, <1>2 DEF IInv, Reader, TypeOK
    <2> QED BY <1>1, <2>1, <2>2, BodyReader DEF IInv
<1>4. Len(chunks') = 2 /\ chunks'[2].type = header.type /\ chunks'[1].type = "handshake"
    <2>1. 1 \in 1 .. Len(chunks) /\ Len(chunks) + 1 = 2
        BY <1>1, LengthFacts, Zenon
    <2> QED BY <1>1, <1>3, <2>1, Zenon
<1>5. CASE session' = session /\ at' = "ended"
    <2>1. InCreate'
        BY <1>3, <1>4, <1>5, LengthFacts, Zenon DEF InCreate
    <2>2. Dialog'
        BY <1>1, <1>3, <1>5, <2>1 DEF Dialog
    <2> QED BY <1>3, <2>2 DEF IInv
<1>6. CASE /\ header.type = "create" /\ session' = "serve"
           /\ replies' = Append(replies, "create 1")
    <2>1. replies' = <<"handshake 1", "create 1">>
        BY <1>1, <1>6, SingleAppend
    <2>2. InServe'
        BY <1>3, <1>4, <1>6, <2>1, LengthFacts, Zenon DEF InServe
    <2>3. Dialog'
        BY <1>3, <1>6, <2>2 DEF Dialog
    <2> QED BY <1>3, <2>3 DEF IInv
<1> QED BY <1>2, <1>5, <1>6 DEF Ends

LEMMA ForwardStep ==
    ASSUME IInv, Forward
    PROVE  IInv'
<1>1. /\ session = "serve" /\ at = "parse" /\ TakeBody /\ UNCHANGED <<session, replies>>
      /\ closing' = (closing \/ header.type = "close") /\ (Ends("refused") \/ GoesOn)
      /\ Len(chunks) >= 2 /\ replies = <<"handshake 1", "create 1">>
      /\ chunks[1].type = "handshake" /\ chunks[2].type = "create"
      /\ chunks \in Seq(Chunk)
    BY DEF Forward, TakeBody, IInv, Dialog, InServe
<1>2. /\ Reader' /\ chunks' \in Seq(Chunk) /\ Len(chunks') = Len(chunks) + 1
      /\ \A i \in 1 .. Len(chunks) : chunks'[i] = chunks[i]
    <2>1. (at' = "grow" /\ why' = why) \/ (at' = "ended" /\ why' # "overflow")
        BY <1>1 DEF Ends, GoesOn
    <2>2. session' \in {"handshake", "create", "serve"} /\ closing' \in BOOLEAN
        BY <1>1
    <2> QED BY <1>1, <2>1, <2>2, BodyReader DEF IInv
<1>3. Len(chunks') >= 2 /\ chunks'[1] = chunks[1] /\ chunks'[2] = chunks[2]
    <2>1. 1 \in 1 .. Len(chunks) /\ 2 \in 1 .. Len(chunks) /\ Len(chunks) + 1 >= 2
        BY <1>1, LengthFacts, Zenon
    <2> QED BY <1>2, <2>1, Zenon
<1>4. InServe'
    BY <1>1, <1>3 DEF InServe
<1>5. Dialog'
    BY <1>1, <1>2, <1>4 DEF Dialog
<1> QED BY <1>2, <1>5 DEF IInv

LEMMA InitIInv == Init => IInv
<1> SUFFICES ASSUME Init PROVE IInv
    OBVIOUS
<1>1. EmptyBuffer \in Buffer /\ EmptyBuffer.p = 0 /\ EmptyBuffer.end = 0 /\ Size(EmptyBuffer) = 0
    BY DEF EmptyBuffer, Buffer, Size
<1>2. Holds(buf, taken) /\ taken + Size(buf) = received
    BY <1>1 DEF Init, Holds
<1>3. HeaderSize \in 1 .. IF HeaderSize > DataMax THEN HeaderSize ELSE DataMax
    BY SizeAssumption
<1>4. TypeOK
    BY <1>1, <1>3 DEF Init, TypeOK
<1>5. Awaits /\ NeverOverflows /\ at # "parse"
    BY DEF Init, Awaits, NeverOverflows
<1>6. Dialog
    <2>1. << >> \in Seq(Chunk) /\ Len(<< >>) = 0
        OBVIOUS
    <2> QED BY <2>1 DEF Init, Dialog, InHandshake
<1> QED BY <1>2, <1>4, <1>5, <1>6 DEF IInv, Reader

LEMMA ArrivedIsNat ==
    ASSUME arrived \in Nat, Arrive
    PROVE  arrived' \in Nat
<1> DEFINE n == Total(sent)
<1>1. arrived' \in arrived + 1 .. n
    BY DEF Arrive
<1> HIDE DEF n
<1> QED BY <1>1

LEMMA NextIInv == IInv /\ [Next]_vars => IInv'
<1> SUFFICES ASSUME IInv, [Next]_vars PROVE IInv'
    OBVIOUS
<1>0. Reader
    BY DEF IInv
<1>1. CASE UNCHANGED vars
    <2>1. UNCHANGED <<sent, received, taken, buf, need, header, arrived, eof, closing, session,
                      at, why, chunks, replies>>
        BY <1>1 DEF vars, input, reader, dialog
    <2>2. arrived' \in Nat /\ eof' \in BOOLEAN /\ closing' \in BOOLEAN
        BY <1>0, <2>1 DEF Reader, TypeOK
    <2>3. Reader'
        BY <1>0, <2>1, <2>2, IdleReader
    <2> QED BY <2>1, <2>3, QuietDialog
<1>2. CASE Arrive \/ ClientCloses
    <2>1. UNCHANGED <<sent, received, taken, buf, need, header, closing, session,
                      at, why, chunks, replies>>
        BY <1>2 DEF Arrive, ClientCloses, reader, dialog
    <2>2. arrived' \in Nat
        BY <1>0, <1>2, ArrivedIsNat DEF ClientCloses, Reader, TypeOK
    <2>3. eof' \in BOOLEAN /\ closing' \in BOOLEAN
        BY <1>0, <1>2, <2>1 DEF Arrive, ClientCloses, Reader, TypeOK
    <2>4. Reader'
        BY <1>0, <2>1, <2>2, <2>3, IdleReader
    <2> QED BY <2>1, <2>4, QuietDialog
<1>3. CASE Grow
    <2>1. Reader'
        BY <1>0, <1>3, GrowReader
    <2>2. UNCHANGED dialog \/ EndAs("overflow")
        BY <1>3 DEF Grow
    <2>3. at # "ended"
        BY <1>3 DEF Grow
    <2> QED BY <2>1, <2>2, <2>3, QuietDialog, EndAsDialog DEF dialog
<1>4. ASSUME NEW n \in 1 .. Cap, Fill(n) PROVE IInv'
    <2>1. Reader'
        BY <1>0, <1>4, FillReader
    <2>2. UNCHANGED dialog /\ at # "ended"
        BY <1>4 DEF Fill
    <2> QED BY <2>1, <2>2, QuietDialog DEF dialog
<1>5. CASE FillFails
    <2>1. EndAs("silence") /\ UNCHANGED <<sent, arrived, eof, received, taken, buf, need, header>>
        BY <1>5 DEF FillFails, input
    <2>2. Reader'
        BY <1>0, <2>1, IdleReader DEF EndAs, Reader, TypeOK
    <2> QED BY <2>1, <2>2, EndAsDialog
<1>6. CASE ReadHeader
    <2>1. Reader'
        BY <1>0, <1>6, HeaderReader
    <2>2. at # "ended" /\ (UNCHANGED dialog \/ EndAs("header"))
        BY <1>6 DEF ReadHeader
    <2> QED BY <2>1, <2>2, QuietDialog, EndAsDialog DEF dialog
<1>7. CASE Handshake \/ Create \/ Forward
    BY <1>7, HandshakeStep, CreateStep, ForwardStep
<1>8. CASE Stopped
    <2>1. /\ UNCHANGED <<sent, arrived, eof, received, taken, buf, need, header>>
          /\ UNCHANGED <<session, closing, chunks, replies>>
          /\ at' = "ended" /\ why' = "closed"
        BY <1>8 DEF Stopped, Ends, input, dialog
    <2>2. Reader'
        BY <1>0, <2>1, IdleReader DEF Reader, TypeOK
    <2> QED BY <2>1, <2>2, QuietDialog
<1> QED BY <1>1, <1>2, <1>3, <1>4, <1>5, <1>6, <1>7, <1>8 DEF Next, Reads

(* The strengthened invariant holds of every reachable state.              *)
THEOREM Inductive == Spec => []IInv
BY InitIInv, NextIInv, PTL DEF Spec

(* The window of the buffer is what was received and not consumed, no      *)
(* request overflows the buffer, and no message is acted on before both    *)
(* logins were answered - for every size of the buffer that has room for   *)
(* two headers and two bodies (LPushFastBuffer::grow, LPushProtocol).      *)
THEOREM ReaderIsSafe == Spec => []ReaderSafe
<1>1. IInv => ReaderSafe
    <2> SUFFICES ASSUME IInv PROVE ReaderSafe
        OBVIOUS
    <2>1. TypeOK /\ NeverOverflows
        BY DEF IInv, Reader
    <2>2. Window
        BY DEF IInv, Reader, Holds, Window
    <2>3. ServedAfterLogin
        <3>1. chunks \in Seq(Chunk) /\ (session = "serve" => InServe)
            BY DEF IInv, Dialog
        <3>2. Len(chunks) > 2 => session # "handshake" /\ session # "create"
            BY <3>1, LengthFacts, Zenon DEF IInv, Dialog, InHandshake, InCreate
        <3>3. Len(chunks) > 2 => session = "serve"
            BY <2>1, <3>2, Zenon DEF TypeOK
        <3> QED BY <3>1, <3>3, Zenon DEF ServedAfterLogin, InServe
    <2> QED BY <2>1, <2>2, <2>3 DEF ReaderSafe
<1> QED BY <1>1, Inductive, PTL
-----------------------------------------------------------------------------
(* The reader stands where the next frame that was not delivered begins,   *)
(* or behind its header.                                                   *)
Following == Len(chunks) + 1

Aligned ==
    /\ received <= arrived /\ arrived <= Total(sent)
    /\ at # "ended" =>
        /\ header = NoHeader => /\ Following <= Len(sent) + 1
                               /\ taken = Begin(sent)[Following]
        /\ header # NoHeader =>
               /\ Following <= Len(sent) /\ header = sent[Following]
               /\ AcceptableFrame(header) /\ need = header.len
               /\ taken = Begin(sent)[Following] + HeaderSize

Placed == IInv /\ Aligned

LEMMA StreamFacts ==
    ASSUME Placed
    PROVE  /\ sent \in Seq(Frame) /\ Len(sent) \in Nat
           /\ Following \in Nat /\ Following >= 1
           /\ received \in Nat /\ arrived \in Nat /\ Total(sent) \in Nat
           /\ \A i \in 1 .. Len(sent) + 1 : Begin(sent)[i] \in Nat
<1>1. sent \in Seq(Frame) /\ chunks \in Seq(Chunk) /\ received \in Nat /\ arrived \in Nat
    BY StreamAssumption DEF Placed, IInv, Reader, TypeOK, Dialog
<1>2. Len(sent) \in Nat /\ Len(chunks) \in Nat
    BY <1>1
<1>3. \A i \in 1 .. Len(sent) + 1 : Begin(sent)[i] \in Nat
    BY <1>1, BeginGrows
<1>4. Following \in Nat /\ Following >= 1 /\ Len(sent) + 1 \in 1 .. Len(sent) + 1
    BY <1>2 DEF Following
<1> QED BY <1>1, <1>2, <1>3, <1>4 DEF Total

(* The bytes of the window, as positions of the stream.                    *)
LEMMA SliceIs ==
    ASSUME NEW b, NEW t \in Nat, Holds(b, t), NEW n \in Nat, n <= Size(b)
    PROVE  Slice(b, n) = [j \in 1 .. n |-> t + j]
<1>1. b.p \in Nat /\ Size(b) \in Nat
    BY DEF Holds, Buffer, Size
<1>2. ASSUME NEW j \in 1 .. n PROVE b.mem[b.p + j - 1] = t + j
    <2>1. /\ j - 1 \in 0 .. Size(b) - 1 /\ b.p + (j - 1) = b.p + j - 1
          /\ t + (j - 1) + 1 = t + j
        BY <1>1
    <2>2. b.mem[b.p + (j - 1)] = t + (j - 1) + 1
        BY <2>1 DEF Holds
    <2> QED BY <2>1, <2>2
<1> QED BY <1>2 DEF Slice

(* A header that is read is the header of the frame that follows.          *)
LEMMA HeaderIsNext ==
    ASSUME Placed, at = "parse", header = NoHeader
    PROVE  /\ Following \in 1 .. Len(sent)
           /\ HeaderIn(Slice(buf, HeaderSize)) = sent[Following]
<1>1. /\ need = HeaderSize /\ need <= Size(buf) /\ Holds(buf, taken)
      /\ taken = Begin(sent)[Following] /\ Following <= Len(sent) + 1
      /\ received <= arrived /\ arrived <= Total(sent)
    BY DEF Placed, IInv, Reader, Awaits, Aligned
<1>2. /\ HeaderSize \in Nat /\ HeaderSize >= 1 /\ taken \in Nat /\ received = taken + Size(buf)
      /\ Size(buf) \in Nat
    BY SizeFacts DEF Placed, IInv
<1>3. Following \in 1 .. Len(sent)
    <2>1. Following # Len(sent) + 1
        <3> SUFFICES ASSUME Following = Len(sent) + 1 PROVE FALSE
            OBVIOUS
        <3>1. taken = Total(sent)
            BY <1>1 DEF Total
        <3>2. received <= taken
            BY <1>1, <3>1, StreamFacts
        <3> QED BY <1>1, <1>2, <3>2
    <2> QED BY <1>1, <2>1, StreamFacts
<1>4. Slice(buf, HeaderSize) = [j \in 1 .. HeaderSize |-> Begin(sent)[Following] + j]
    BY <1>1, <1>2, SliceIs
<1> DEFINE start == {i \in 1 .. Len(sent) :
                        Slice(buf, HeaderSize) = [j \in 1 .. HeaderSize |-> Begin(sent)[i] + j]}
<1>5. Following \in start
    BY <1>3, <1>4
<1>6. ASSUME NEW i \in start PROVE i = Following
    <2> DEFINE k == Following
               f == [j \in 1 .. HeaderSize |-> Begin(sent)[i] + j]
               g == [j \in 1 .. HeaderSize |-> Begin(sent)[k] + j]
    <2>1. i \in 1 .. Len(sent) + 1 /\ k \in 1 .. Len(sent) + 1 /\ 1 \in 1 .. HeaderSize
        BY <1>2, <1>3, StreamFacts
    <2>2. f = g
        BY <1>4, <1>6
    <2>3. f[1] = Begin(sent)[i] + 1 /\ g[1] = Begin(sent)[k] + 1
        BY <2>1
    <2>4. Begin(sent)[i] \in Nat /\ Begin(sent)[k] \in Nat
        BY <2>1, StreamFacts
    <2>5. Begin(sent)[i] = Begin(sent)[k]
        <3> HIDE DEF f, g
        <3>1. Begin(sent)[i] + 1 = Begin(sent)[k] + 1
            BY <2>2, <2>3
        <3> QED BY <3>1, <2>4
    <2>6. \A a, c \in 1 .. Len(sent) + 1 : a < c => Begin(sent)[a] < Begin(sent)[c]
        BY StreamFacts, BeginGrows
    <2>7. ~(i < k) /\ ~(k < i)
        BY <2>1, <2>4, <2>5, <2>6
    <2> HIDE DEF k
    <2>8. i = k
        BY <2>1, <2>7
    <2> QED BY <2>8 DEF k
<1>7. (CHOOSE i \in start : TRUE) = Following /\ start # {}
    BY <1>5, <1>6
<1>8. HeaderIn(Slice(buf, HeaderSize)) = sent[CHOOSE i \in start : TRUE]
    BY <1>7 DEF HeaderIn
<1> QED BY <1>3, <1>7, <1>8

(* The bytes that the body is are those of the frame that follows.         *)
LEMMA BodyIsWhole ==
    ASSUME Placed, at = "parse", TakeBody
    PROVE  /\ Following \in 1 .. Len(sent) /\ AcceptableFrame(sent[Following])
           /\ chunks' = Append(chunks, WholeFrame(sent, Following))
           /\ Following' = Following + 1 /\ sent' = sent
           /\ header' = NoHeader /\ taken' = Begin(sent)[Following + 1]
<1> DEFINE n == Following
<1>1. /\ header # NoHeader /\ sent' = sent /\ header' = NoHeader /\ taken' = taken + need
      /\ chunks' = Append(chunks, [type |-> header.type, data |-> Slice(buf, need)])
    BY DEF TakeBody, input
<1>2. /\ n <= Len(sent) /\ header = sent[n] /\ AcceptableFrame(header) /\ need = header.len
      /\ taken = Begin(sent)[n] + HeaderSize
    BY <1>1 DEF Placed, Aligned
<1>3. need \in Nat /\ taken \in Nat /\ need <= Size(buf) /\ Holds(buf, taken)
    BY SizeFacts DEF Placed, IInv, Reader
<1>4. n \in 1 .. Len(sent)
    BY <1>2, StreamFacts
<1>5. Slice(buf, need) = [j \in 1 .. need |-> taken + j]
    BY <1>3, SliceIs
<1>6. chunks' = Append(chunks, WholeFrame(sent, n))
    BY <1>1, <1>2, <1>5 DEF WholeFrame
<1>7. Following' = Following + 1
    <2>1. chunks \in Seq(Chunk)
        BY DEF Placed, IInv, Dialog
    <2>2. Len(Append(chunks, WholeFrame(sent, n))) = Len(chunks) + 1
        BY <2>1
    <2> QED BY <1>6, <2>2 DEF Following
<1>8. taken' = Begin(sent)[n + 1]
    <2>1. Begin(sent)[n + 1] = Begin(sent)[n] + FrameSize(sent[n])
        BY <1>4, StreamFacts, BeginUnfolds
    <2>2. FrameSize(sent[n]) = HeaderSize + need
        BY <1>2 DEF FrameSize, AcceptableFrame
    <2>3. Begin(sent)[n] \in Nat /\ HeaderSize \in Nat
        BY <1>4, StreamFacts, SizeAssumption
    <2> HIDE DEF n
    <2> QED BY <1>1, <1>2, <1>3, <2>1, <2>2, <2>3
<1> QED BY <1>1, <1>2, <1>4, <1>6, <1>7, <1>8

(* A step that takes nothing from the buffer.                              *)
LEMMA IdlePlaced ==
    ASSUME Aligned, IInv', UNCHANGED <<sent, chunks, taken, need, header>>,
           received' <= arrived', arrived' <= Total(sent), at # "ended" \/ at' = "ended"
    PROVE  Placed'
<1>1. Aligned'
    BY DEF Aligned, Following
<1> QED BY <1>1 DEF Placed

LEMMA BodyPlaced ==
    ASSUME Placed, IInv', at = "parse", TakeBody
    PROVE  Placed'
<1>1. /\ received' = received /\ arrived' = arrived
    BY DEF TakeBody, input
<1>2. Following + 1 <= Len(sent) + 1
    BY BodyIsWhole, StreamFacts
<1>3. Aligned'
    BY <1>1, <1>2, BodyIsWhole DEF Placed, Aligned
<1> QED BY <1>3 DEF Placed

LEMMA HeaderPlaced ==
    ASSUME Placed, IInv', ReadHeader
    PROVE  Placed'
<1> DEFINE h == HeaderIn(Slice(buf, HeaderSize))
<1>1. /\ at = "parse" /\ header = NoHeader /\ taken' = taken + HeaderSize
      /\ UNCHANGED <<sent, arrived, received, chunks>>
      /\ \/ /\ h.flag /\ h.len > 0 /\ h.len <= DataMax /\ header' = h /\ need' = h.len
         \/ at' = "ended"
    BY DEF ReadHeader, input, dialog, EndAs
<1>2. Following \in 1 .. Len(sent) /\ h = sent[Following]
    BY <1>1, HeaderIsNext
<1>3. /\ sent[Following] \in Frame /\ taken = Begin(sent)[Following]
      /\ Following' = Following /\ (at' # "ended" => Following <= Len(sent))
    BY <1>1, <1>2, StreamFacts DEF Placed, Aligned, Following
<1> HIDE DEF h
<1>4. h # NoHeader
    BY <1>2, <1>3 DEF Frame, Kind, NoHeader
<1>5. h.flag /\ h.len > 0 /\ h.len <= DataMax => AcceptableFrame(h)
    BY <1>2, <1>3 DEF AcceptableFrame, Frame
<1>6. Aligned'
    BY <1>1, <1>2, <1>3, <1>4, <1>5 DEF Placed, Aligned
<1> QED BY <1>6 DEF Placed

(* Every step is a delivery of the next frame, an end, or nothing at all.  *)
LEMMA StreamStep ==
    ASSUME Placed, [Next]_vars
    PROVE  Placed' /\ [Stream!Next]_<<sent, chunks, at # "ended">>
<1>0. IInv' /\ IInv /\ Aligned
    BY NextIInv DEF Placed
<1>1. received <= arrived /\ arrived <= Total(sent)
    BY DEF Placed, Aligned
<1>2. ASSUME UNCHANGED <<sent, chunks>>, at' = "ended" \/ (at # "ended" /\ at' # "ended")
      PROVE  [Stream!Next]_<<sent, chunks, at # "ended">>
    BY <1>2, Zenon DEF Stream!Next, Stream!Close
<1>3. ASSUME UNCHANGED <<sent, chunks, taken, need, header>>,
             received' <= arrived', arrived' <= Total(sent), at # "ended"
      PROVE  Placed' /\ [Stream!Next]_<<sent, chunks, at # "ended">>
    BY <1>0, <1>2, <1>3, IdlePlaced
<1>4. CASE UNCHANGED vars
    <2>1. UNCHANGED <<sent, chunks, taken, need, header, received, arrived, at>>
        BY <1>4 DEF vars, input, reader, dialog
    <2> QED BY <1>0, <1>1, <2>1, IdlePlaced
<1>5. CASE Arrive \/ ClientCloses
    <2>1. /\ UNCHANGED <<sent, chunks, taken, need, header, received, at>>
          /\ arrived' = arrived \/ arrived' \in arrived + 1 .. Total(sent)
        BY <1>5 DEF Arrive, ClientCloses, reader, dialog
    <2>2. received' <= arrived' /\ arrived' <= Total(sent)
        <3> DEFINE t == Total(sent)
        <3>1. /\ received \in Nat /\ arrived \in Nat /\ t \in Nat /\ received' = received
              /\ received <= arrived /\ arrived <= t
              /\ arrived' = arrived \/ arrived' \in arrived + 1 .. t
            BY <1>1, <2>1, StreamFacts
        <3> HIDE DEF t
        <3>2. received' <= arrived' /\ arrived' <= t
            BY <3>1
        <3> QED BY <3>2 DEF t
    <2>3. Placed'
        BY <1>0, <2>1, <2>2, IdlePlaced
    <2> QED BY <2>1, <2>3
<1>6. CASE Grow \/ FillFails \/ Stopped
    <2>1. UNCHANGED <<sent, chunks, taken, need, header, received, arrived>> /\ at # "ended"
        BY <1>6 DEF Grow, FillFails, Stopped, Ends, EndAs, input, dialog
    <2> QED BY <1>1, <1>3, <2>1
<1>7. ASSUME NEW n \in 1 .. Cap, Fill(n)
      PROVE  Placed' /\ [Stream!Next]_<<sent, chunks, at # "ended">>
    <2>1. /\ UNCHANGED <<sent, chunks, taken, need, header, arrived>> /\ at # "ended"
          /\ n <= arrived - received /\ received' = received + n
        BY <1>7 DEF Fill, input, dialog
    <2>2. received' <= arrived'
        BY <2>1, StreamFacts
    <2> QED BY <1>1, <1>3, <2>1, <2>2
<1>8. CASE ReadHeader
    <2>1. at = "parse" /\ UNCHANGED <<sent, chunks>>
        BY <1>8 DEF ReadHeader, input, dialog, EndAs
    <2> QED BY <1>0, <1>2, <1>8, <2>1, HeaderPlaced
<1>9. CASE Handshake \/ Create \/ Forward
    <2>1. TakeBody /\ at = "parse"
        BY <1>9 DEF Handshake, Create, Forward, TakeBody
    <2>2. Placed'
        BY <1>0, <2>1, BodyPlaced
    <2>3. Stream!Deliver
        <3>1. /\ Following \in 1 .. Len(sent) /\ AcceptableFrame(sent[Following])
              /\ chunks' = Append(chunks, WholeFrame(sent, Following)) /\ sent' = sent
            BY <2>1, BodyIsWhole
        <3>2. Len(chunks) < Len(sent)
            <4>1. Len(chunks) \in Nat
                BY DEF Placed, IInv, Dialog
            <4> QED BY <3>1, <4>1, StreamFacts DEF Following
        <3>3. at # "ended" /\ (at' # "ended") \in BOOLEAN
            BY <2>1, Zenon
        <3> QED BY <3>1, <3>2, <3>3, Zenon DEF Stream!Deliver, Following
    <2> QED BY <2>2, <2>3, Zenon DEF Stream!Next
<1> QED BY <1>4, <1>5, <1>6, <1>7, <1>8, <1>9 DEF Next, Reads

LEMMA InitPlaced == Init => Placed
<1> SUFFICES ASSUME Init PROVE Placed
    OBVIOUS
<1>1. sent \in Seq(Frame) /\ IInv
    BY StreamAssumption, InitIInv DEF Init
<1>2. Len(sent) \in Nat /\ chunks = << >> /\ Len(chunks) = 0 /\ Following = 1
    BY <1>1 DEF Init, Following
<1>3. Begin(sent)[1] = 0
    BY <1>2, BeginUnfolds
<1>4. Total(sent) \in Nat
    <2>1. Len(sent) + 1 \in 1 .. Len(sent) + 1
        BY <1>2
    <2> QED BY <1>1, <2>1, BeginGrows DEF Total
<1>5. Following <= Len(sent) + 1
    BY <1>2
<1>6. Aligned
    BY <1>2, <1>3, <1>4, <1>5 DEF Init, Aligned
<1> QED BY <1>1, <1>6 DEF Placed

(* LPushProtocol::readMessage delivers the frames of the client whole, in  *)
(* order, none twice and none skipped, none that is not acceptable, and    *)
(* nothing after an error - however TCP cuts the bytes, for any frames and *)
(* any sizes.                                                              *)
THEOREM FramesDelivered == Spec => ImplementsFrameStream
<1>1. Init => Stream!Init
    BY Zenon DEF Init, Stream!Init
<1>2. Placed /\ [Next]_vars => Placed' /\ [Stream!Next]_<<sent, chunks, at # "ended">>
    BY StreamStep
<1> QED BY InitPlaced, <1>1, <1>2, PTL DEF Spec, ImplementsFrameStream, Stream!Spec
-----------------------------------------------------------------------------
(* LPushFMT: the bytes of a number.                                        *)
LEMMA BaseOK == Base \in Nat /\ Base > 1
BY FmtAssumption DEF Fmt!WidthAssumption

LEMMA Words ==
    /\ Fmt!Word \in Nat /\ Fmt!Word >= Base
    /\ Base * Base \in Nat /\ Base * Base > 0
    /\ Base * Base * Base \in Nat /\ Base * Base * Base > 0
<1> USE BaseOK
<1>1. Base * Base \in Nat /\ Base * Base >= Base
    OBVIOUS
<1> DEFINE s == Base * Base
<1>2. s * Base \in Nat /\ s * Base >= Base
    <2> HIDE DEF s
    <2>1. s \in Nat /\ s >= 1
        BY <1>1 DEF s
    <2> QED BY <2>1
<1> DEFINE t == s * Base
<1>3. t * Base \in Nat /\ t * Base >= Base
    <2>1. t \in Nat /\ t >= 1
        BY <1>2
    <2> HIDE DEF t
    <2> QED BY <2>1
<1> QED BY <1>1, <1>2, <1>3 DEF Fmt!Word

(* Four bytes hold a number modulo Word.                                   *)
LEMMA FourBytes ==
    ASSUME NEW x \in Int
    PROVE  /\ Fmt!Number(Fmt!Bytes(x)) \in 0 .. Fmt!Word - 1
           /\ \E k \in Int : Fmt!Number(Fmt!Bytes(x)) = x - k * Fmt!Word
<1> USE BaseOK
<1> DEFINE a == x \div Base
           b == a \div Base
           c == b \div Base
           d == c \div Base
           n3 == x % Base
           n2 == a % Base
           n1 == b % Base
           n0 == c % Base
<1>1. a \in Int /\ n3 \in 0 .. Base - 1 /\ x = a * Base + n3
    BY DivFacts
<1>2. b \in Int /\ n2 \in 0 .. Base - 1 /\ a = b * Base + n2
    BY <1>1, DivFacts
<1>3. c \in Int /\ n1 \in 0 .. Base - 1 /\ b = c * Base + n1
    BY <1>2, DivFacts
<1>4. d \in Int /\ n0 \in 0 .. Base - 1 /\ c = d * Base + n0
    BY <1>3, DivFacts
<1>5. Fmt!Bytes(x) = <<n0, n1, n2, n3>>
    <2>1. x \div (Base * Base) = b
        BY DivTwice
    <2>2. x \div (Base * Base * Base) = c
        <3>1. Base * Base \in Nat /\ Base * Base > 0
            BY Words
        <3> QED BY <2>1, <3>1, DivTwice
    <2> QED BY <2>1, <2>2 DEF Fmt!Bytes
<1> DEFINE m1 == n0 * Base + n1
           m2 == m1 * Base + n2
           m3 == m2 * Base + n3
<1>6. Fmt!Number(Fmt!Bytes(x)) = m3
    BY <1>5 DEF Fmt!Number
<1> HIDE DEF a, b, c, d, n0, n1, n2, n3
<1> DEFINE B2 == Base * Base
           B3 == B2 * Base
           B4 == B3 * Base
<1>7. m1 \in 0 .. B2 - 1 /\ m1 = b - d * B2
    <2>1. n0 * Base \in Int /\ n0 * Base >= 0 /\ n0 * Base <= (Base - 1) * Base
        BY <1>4
    <2>2. (Base - 1) * Base = B2 - Base
        OBVIOUS
    <2>3. b = (d * Base + n0) * Base + n1
        BY <1>3, <1>4
    <2>4. (d * Base + n0) * Base = d * B2 + n0 * Base
        BY <1>4
    <2> QED BY <1>3, <1>4, <2>1, <2>2, <2>3, <2>4
<1> HIDE DEF m1
<1>8. m2 \in 0 .. B3 - 1 /\ m2 = a - d * B3
    <2> DEFINE z == B2
    <2>0. z \in Nat
        OBVIOUS
    <2> HIDE DEF z
    <2>1. m1 * Base \in Int /\ m1 * Base >= 0 /\ m1 * Base <= (z - 1) * Base
        BY <1>7, <2>0 DEF z
    <2>2. (z - 1) * Base = z * Base - Base
        BY <2>0
    <2>3. m1 * Base = b * Base - d * (z * Base)
        BY <1>2, <1>4, <1>7, <2>0 DEF z
    <2>4. z * Base \in Int
        BY <2>0
    <2> QED BY <1>2, <1>7, <1>4, <2>0, <2>1, <2>2, <2>3, <2>4 DEF z
<1> HIDE DEF m2
<1>9. m3 \in 0 .. B4 - 1 /\ m3 = x - d * B4
    <2> DEFINE z == B3
    <2>0. z \in Nat
        BY Words
    <2> HIDE DEF z
    <2>1. m2 * Base \in Int /\ m2 * Base >= 0 /\ m2 * Base <= (z - 1) * Base
        BY <1>8, <2>0 DEF z
    <2>2. (z - 1) * Base = z * Base - Base
        BY <2>0
    <2>3. m2 * Base = a * Base - d * (z * Base)
        BY <1>1, <1>4, <1>8, <2>0 DEF z
    <2>4. z * Base \in Int
        BY <2>0
    <2> QED BY <1>1, <1>8, <1>4, <2>0, <2>1, <2>2, <2>3, <2>4 DEF z
<1>10. Fmt!Word = B4
    BY DEF Fmt!Word
<1> QED BY <1>4, <1>6, <1>9, <1>10

(* An int is the signed reading of its four bytes.                         *)
LEMMA IntBytes ==
    ASSUME NEW x \in Int, -Fmt!Word <= 2 * x, 2 * x < Fmt!Word
    PROVE  Fmt!Signed(Fmt!Number(Fmt!Bytes(x))) = x
<1> USE BaseOK
<1> DEFINE n == Fmt!Number(Fmt!Bytes(x))
<1>1. PICK k \in Int : n = x - k * Fmt!Word
    BY FourBytes
<1>2. n \in 0 .. Fmt!Word - 1
    BY FourBytes
<1>3. Fmt!Word \in Nat /\ Fmt!Word > 0
    BY Words
<1> HIDE DEF n, Fmt!Word
<1>4. k = 0 \/ k = -1
    <2>1. CASE k >= 1
        <3>1. k * Fmt!Word >= Fmt!Word
            BY <1>3, <2>1
        <3>2. k * Fmt!Word \in Int
            BY <1>3
        <3> QED BY <1>1, <1>2, <1>3, <3>1, <3>2
    <2>2. CASE k <= -2
        <3>1. k * Fmt!Word <= -2 * Fmt!Word /\ k * Fmt!Word \in Int
            BY <1>3, <2>2
        <3> QED BY <1>1, <1>2, <1>3, <3>1
    <2> QED BY <2>1, <2>2
<1>5. CASE k = 0
    BY <1>1, <1>2, <1>3, <1>5 DEF Fmt!Signed, n
<1>6. CASE k = -1
    BY <1>1, <1>2, <1>3, <1>6 DEF Fmt!Signed, n
<1> QED BY <1>4, <1>5, <1>6

(* A natural number that fits an int is its four bytes, read without sign. *)
LEMMA NatBytes ==
    ASSUME NEW x \in Nat, 2 * x < Fmt!Word
    PROVE  Fmt!Number(Fmt!Bytes(x)) = x /\ Fmt!Signed(x) = x
<1>1. Fmt!Word \in Nat
    BY Words
<1>2. Fmt!Signed(Fmt!Number(Fmt!Bytes(x))) = x /\ Fmt!Number(Fmt!Bytes(x)) \in 0 .. Fmt!Word - 1
    BY <1>1, IntBytes, FourBytes
<1> QED BY <1>1, <1>2 DEF Fmt!Signed

(* Four bytes are a sequence of numbers.                                   *)
LEMMA BytesType ==
    ASSUME NEW x \in Int
    PROVE  Fmt!Bytes(x) \in Seq(Int) /\ Len(Fmt!Bytes(x)) = 4
<1>1. \A y \in Int : y % Base \in Int
    BY BaseOK
<1>2. /\ x \div (Base * Base * Base) \in Int /\ x \div (Base * Base) \in Int
      /\ x \div Base \in Int
    BY BaseOK, Words
<1> DEFINE b1 == (x \div (Base * Base * Base)) % Base
           b2 == (x \div (Base * Base)) % Base
           b3 == (x \div Base) % Base
           b4 == x % Base
<1>3. b1 \in Int /\ b2 \in Int /\ b3 \in Int /\ b4 \in Int
    BY <1>1, <1>2
<1>4. Fmt!Bytes(x) = <<b1, b2, b3, b4>>
    BY DEF Fmt!Bytes
<1> HIDE DEF b1, b2, b3, b4
<1>5. <<b1, b2, b3, b4>> \in Seq(Int) /\ Len(<<b1, b2, b3, b4>>) = 4
    BY <1>3
<1> QED BY <1>4, <1>5

LEMMA ConcatAt ==
    ASSUME NEW f \in Seq(Int), NEW g \in Seq(Int)
    PROVE  /\ f \o g \in Seq(Int) /\ Len(f \o g) = Len(f) + Len(g)
           /\ \A i \in 1 .. Len(f) : (f \o g)[i] = f[i]
           /\ \A i \in 1 .. Len(g) : (f \o g)[Len(f) + i] = g[i]
OBVIOUS

(* Where a decoder finds the parts that the encoder wrote.                 *)
LEMMA WireParts ==
    ASSUME NEW t \in Int, NEW x \in Int, NEW s \in Seq(Int)
    PROVE  LET w == <<t>> \o Fmt!Bytes(x) \o s IN
           /\ w # << >> /\ w[1] = t /\ Len(w) = Len(s) + 5
           /\ Fmt!Number(Fmt!Part(w, 2, 4)) = Fmt!Number(Fmt!Bytes(x))
           /\ Fmt!Part(w, 6, Len(s)) = s
<1> DEFINE bs == Fmt!Bytes(x)
           e == <<t>>
           h == e \o bs
           w == h \o s
<1>1. bs \in Seq(Int) /\ Len(bs) = 4
    BY BytesType
<1> HIDE DEF bs
<1>2. e \in Seq(Int) /\ Len(e) = 1 /\ e[1] = t
    OBVIOUS
<1> HIDE DEF e
<1>3. /\ h \in Seq(Int) /\ Len(h) = 5 /\ h[1] = t
      /\ h[2] = bs[1] /\ h[3] = bs[2] /\ h[4] = bs[3] /\ h[5] = bs[4]
    <2>1. /\ h \in Seq(Int) /\ Len(h) = Len(e) + Len(bs)
          /\ \A i \in 1 .. Len(e) : h[i] = e[i]
          /\ \A i \in 1 .. Len(bs) : h[Len(e) + i] = bs[i]
        BY <1>1, <1>2, ConcatAt
    <2> HIDE DEF h
    <2> QED BY <1>1, <1>2, <2>1
<1> HIDE DEF h
<1>5. /\ w \in Seq(Int) /\ Len(w) = Len(s) + 5 /\ Len(s) \in Nat
      /\ w[1] = t /\ w[2] = bs[1] /\ w[3] = bs[2] /\ w[4] = bs[3] /\ w[5] = bs[4]
      /\ \A k \in 1 .. Len(s) : w[k + 5] = s[k]
    <2>1. /\ w \in Seq(Int) /\ Len(w) = Len(h) + Len(s)
          /\ \A i \in 1 .. Len(h) : w[i] = h[i]
          /\ \A i \in 1 .. Len(s) : w[Len(h) + i] = s[i]
        BY <1>3, ConcatAt
    <2> HIDE DEF w
    <2> QED BY <1>3, <2>1
<1> HIDE DEF w
<1>6. w # << >>
    <2>1. Len(<< >>) = 0
        OBVIOUS
    <2> QED BY <1>5, <2>1
<1>7. Fmt!Number(Fmt!Part(w, 2, 4)) = Fmt!Number(bs)
    <2> DEFINE p == Fmt!Part(w, 2, 4)
    <2>1. p[1] = w[2] /\ p[2] = w[3] /\ p[3] = w[4] /\ p[4] = w[5]
        BY <1>5 DEF Fmt!Part
    <2> HIDE DEF p
    <2>2. p[1] = bs[1] /\ p[2] = bs[2] /\ p[3] = bs[3] /\ p[4] = bs[4]
        BY <1>5, <2>1
    <2> QED BY <2>2 DEF Fmt!Number, p
<1>8. Fmt!Part(w, 6, Len(s)) = s
    <2>1. \A k \in 1 .. Len(s) : 6 + k - 1 = k + 5
        BY <1>5
    <2>3. Fmt!Part(w, 6, Len(s)) = [k \in 1 .. Len(s) |-> w[k + 5]]
        BY <2>1 DEF Fmt!Part
    <2>4. [k \in 1 .. Len(s) |-> w[k + 5]] = [k \in 1 .. Len(s) |-> s[k]]
        BY <1>5
    <2>2. s = [k \in 1 .. Len(s) |-> s[k]]
        OBVIOUS
    <2> QED BY <2>2, <2>3, <2>4
<1> QED BY <1>5, <1>6, <1>7, <1>8 DEF bs, e, h, w

(* ... and when nothing follows the four bytes.                            *)
LEMMA ShortWireParts ==
    ASSUME NEW t \in Int, NEW x \in Int
    PROVE  LET w == <<t>> \o Fmt!Bytes(x) IN
           /\ w # << >> /\ w[1] = t /\ Len(w) = 5
           /\ Fmt!Number(Fmt!Part(w, 2, 4)) = Fmt!Number(Fmt!Bytes(x))
<1>1. << >> \in Seq(Int) /\ Len(<< >>) = 0
    OBVIOUS
<1>2. <<t>> \o Fmt!Bytes(x) = <<t>> \o Fmt!Bytes(x) \o << >>
    <2>1. Fmt!Bytes(x) \in Seq(Int)
        BY BytesType
    <2>2. <<t>> \in Seq(Int)
        OBVIOUS
    <2>3. <<t>> \o Fmt!Bytes(x) \in Seq(Int)
        BY <2>1, <2>2
    <2> QED BY <2>3
<1> DEFINE w == <<t>> \o Fmt!Bytes(x) \o << >>
<1>3. /\ w # << >> /\ w[1] = t /\ Len(w) = 0 + 5
      /\ Fmt!Number(Fmt!Part(w, 2, 4)) = Fmt!Number(Fmt!Bytes(x))
    BY <1>1, WireParts
<1> QED BY <1>2, <1>3

(* A length read from the bytes of a body is an integer.                   *)
LEMMA NatOfBytes ==
    ASSUME NEW a \in Nat, NEW b \in Nat, NEW c \in Nat, NEW d \in Nat
    PROVE  ((a * Base + b) * Base + c) * Base + d \in Nat
<1>1. \A x, y \in Nat : x * Base + y \in Nat
    BY BaseOK
<1>2. a * Base + b \in Nat
    BY <1>1
<1>3. (a * Base + b) * Base + c \in Nat
    BY <1>1, <1>2
<1> QED BY <1>1, <1>3

LEMMA LengthIsInt ==
    ASSUME NEW data \in Seq(Nat), Len(data) >= 5
    PROVE  Fmt!Length(data) \in Int
<1> DEFINE p == Fmt!Part(data, 2, 4)
<1>1. p[1] \in Nat /\ p[2] \in Nat /\ p[3] \in Nat /\ p[4] \in Nat
    BY DEF Fmt!Part
<1> HIDE DEF p
<1>2. Fmt!Number(p) \in Nat
    BY <1>1, NatOfBytes DEF Fmt!Number
<1> QED BY <1>2, Words DEF Fmt!Length, Fmt!Signed, p

(* What each encoder writes is read again by its decoder.                  *)
LEMMA BoolRead ==
    ASSUME NEW b \in BOOLEAN
    PROVE  Fmt!DecodeBool(Fmt!EncodeBool(b), FALSE) = {Fmt!Decoded(b, Len(Fmt!EncodeBool(b)))}
<1> DEFINE w == Fmt!EncodeBool(b)
<1>1. w = <<2, IF b THEN 1 ELSE 0>>
    BY DEF Fmt!EncodeBool, Fmt!Tag
<1>2. w[1] = 2 /\ w[2] = (IF b THEN 1 ELSE 0) /\ Len(w) = 2
    BY <1>1
<1> HIDE DEF w
<1>3. Fmt!Has(w, "bool") /\ ((w[2] % 16 = 1) = b)
    BY <1>2 DEF Fmt!Has, Fmt!IsType, Fmt!Tag
<1>4. Fmt!DecodeBool(w, FALSE) = {Fmt!Decoded(b, 2)}
    BY <1>2, <1>3 DEF Fmt!DecodeBool, Fmt!Typed, Fmt!Reading
<1> QED BY <1>2, <1>4 DEF w

LEMMA IntRead ==
    ASSUME NEW x \in Int, -Fmt!Word <= 2 * x, 2 * x < Fmt!Word
    PROVE  Fmt!DecodeInt(Fmt!EncodeInt(x), 0) = {Fmt!Decoded(x, Len(Fmt!EncodeInt(x)))}
<1> DEFINE w == Fmt!EncodeInt(x)
<1>1. w = <<3>> \o Fmt!Bytes(x)
    BY DEF Fmt!EncodeInt, Fmt!Tag
<1>2. w[1] = 3 /\ Len(w) = 5 /\ Fmt!Number(Fmt!Part(w, 2, 4)) = Fmt!Number(Fmt!Bytes(x))
    <2>1. 3 \in Int
        OBVIOUS
    <2> HIDE DEF w
    <2> QED BY <1>1, <2>1, ShortWireParts
<1> HIDE DEF w
<1>3. Fmt!Has(w, "int")
    BY <1>2 DEF Fmt!Has, Fmt!IsType, Fmt!Tag
<1>4. Fmt!DecodeInt(w, 0) = {Fmt!Decoded(x, 5)}
    BY <1>2, <1>3, IntBytes DEF Fmt!DecodeInt, Fmt!Typed, Fmt!Reading
<1> QED BY <1>2, <1>4 DEF w

(* The upper half of such a long is zero, and all that the undefined       *)
(* shifts can do to it adds nothing.                                       *)
LEMMA LongRead ==
    ASSUME NEW x \in Nat, 2 * x < Fmt!Word
    PROVE  Fmt!DecodeLong(Fmt!EncodeLong(x), 0) = {Fmt!Decoded(x, Len(Fmt!EncodeLong(x)))}
<1> DEFINE w == Fmt!EncodeLong(x)
<1>0. Fmt!Word \in Nat /\ x < Fmt!Word /\ 0 < Fmt!Word
    BY Words
<1>1. x \div Fmt!Word = 0
    BY <1>0, DivUnique
<1>2. w = <<4>> \o Fmt!Bytes(0) \o Fmt!Bytes(x)
    BY <1>1 DEF Fmt!EncodeLong, Fmt!Tag
<1> HIDE DEF w
<1>4. /\ w[1] = 4 /\ Len(w) = 9
      /\ Fmt!Number(Fmt!Part(w, 2, 4)) = Fmt!Number(Fmt!Bytes(0))
      /\ Fmt!Part(w, 6, 4) = Fmt!Bytes(x)
    <2> DEFINE s == Fmt!Bytes(x)
    <2>1. s \in Seq(Int) /\ Len(s) = 4
        BY BytesType
    <2> DEFINE ww == <<4>> \o Fmt!Bytes(0) \o s
    <2>2. w = ww /\ 4 \in Int /\ 0 \in Int
        BY <1>2
    <2> HIDE DEF s
    <2>3. /\ ww[1] = 4 /\ Len(ww) = Len(s) + 5
          /\ Fmt!Number(Fmt!Part(ww, 2, 4)) = Fmt!Number(Fmt!Bytes(0))
          /\ Fmt!Part(ww, 6, Len(s)) = s
        BY <2>1, <2>2, WireParts, Zenon
    <2> HIDE DEF ww
    <2>4. Len(w) = 9 /\ Fmt!Part(w, 6, 4) = s
        BY <2>1, <2>2, <2>3
    <2> QED BY <2>2, <2>3, <2>4 DEF s
<1>5. Fmt!Number(Fmt!Part(w, 2, 4)) = 0 /\ Fmt!Number(Fmt!Part(w, 6, 4)) = x
      /\ Fmt!Signed(x) = x
    BY <1>0, <1>4, NatBytes
<1>6. Fmt!Has(w, "long")
    BY <1>4 DEF Fmt!Has, Fmt!IsType, Fmt!Tag
<1>7. Fmt!Or(0, x) = x
    BY DEF Fmt!Or
<1>8. Fmt!DecodeLong(w, 0) = {Fmt!Decoded(Fmt!Signed(u), 9) : u \in {x, Fmt!Or(0, x)}}
    BY <1>4, <1>5, <1>6 DEF Fmt!DecodeLong, Fmt!Typed, Fmt!Reading
<1>9. Fmt!DecodeLong(w, 0) = {Fmt!Decoded(x, 9)}
    BY <1>5, <1>7, <1>8
<1> QED BY <1>4, <1>9 DEF w

LEMMA FloatRead ==
    ASSUME NEW q \in Int, q % 4 = 0,
           -Fmt!Word <= 2 * Fmt!Truncate(q), 2 * Fmt!Truncate(q) < Fmt!Word
    PROVE  Fmt!DecodeFloat(Fmt!EncodeFloat(q), 0) = {Fmt!Decoded(q, Len(Fmt!EncodeFloat(q)))}
<1> DEFINE w == Fmt!EncodeFloat(q)
           i == Fmt!Truncate(q)
<1>1. i \in Int /\ 4 * i = q
    BY DEF Fmt!Truncate
<1>2. w = <<5>> \o Fmt!Bytes(i) \o Fmt!Bytes(0)
    BY DEF Fmt!EncodeFloat, Fmt!GetDecimal, Fmt!Tag
<1> HIDE DEF w, i
<1>4. /\ w[1] = 5 /\ Len(w) = 9
      /\ Fmt!Number(Fmt!Part(w, 2, 4)) = Fmt!Number(Fmt!Bytes(i))
      /\ Fmt!Part(w, 6, 4) = Fmt!Bytes(0)
    <2> DEFINE s == Fmt!Bytes(0)
    <2>1. s \in Seq(Int) /\ Len(s) = 4
        BY BytesType
    <2> DEFINE ww == <<5>> \o Fmt!Bytes(i) \o s
    <2>2. w = ww /\ 5 \in Int /\ i \in Int
        BY <1>1, <1>2
    <2> HIDE DEF s
    <2>3. /\ ww[1] = 5 /\ Len(ww) = Len(s) + 5
          /\ Fmt!Number(Fmt!Part(ww, 2, 4)) = Fmt!Number(Fmt!Bytes(i))
          /\ Fmt!Part(ww, 6, Len(s)) = s
        BY <2>1, <2>2, WireParts, Zenon
    <2> HIDE DEF ww
    <2>4. Len(w) = 9 /\ Fmt!Part(w, 6, 4) = s
        BY <2>1, <2>2, <2>3
    <2> QED BY <2>2, <2>3, <2>4 DEF s
<1>5. Fmt!Signed(Fmt!Number(Fmt!Part(w, 2, 4))) = i
    BY <1>1, <1>4, IntBytes DEF i
<1>6. Fmt!Signed(Fmt!Number(Fmt!Part(w, 6, 4))) = 0
    <2>1. Fmt!Word \in Nat /\ 2 * 0 < Fmt!Word
        BY Words, BaseOK
    <2> QED BY <1>4, <2>1, NatBytes
<1>7. Fmt!Has(w, "float")
    BY <1>4 DEF Fmt!Has, Fmt!IsType, Fmt!Tag
<1>8. Fmt!DecodeFloat(w, 0) = {Fmt!Decoded(4 * i + (4 * 0) \div 320, 9)}
    BY <1>4, <1>5, <1>6, <1>7 DEF Fmt!DecodeFloat, Fmt!Typed, Fmt!Reading
<1>9. 4 * i + (4 * 0) \div 320 = q
    BY <1>1
<1> QED BY <1>4, <1>8, <1>9 DEF w

LEMMA StringRead ==
    ASSUME NEW s \in Seq(Int), 2 * Len(s) < Fmt!Word, \A k \in DOMAIN s : s[k] # 0
    PROVE  Fmt!DecodeString(Fmt!EncodeString(s), << >>)
               = {Fmt!Died, Fmt!Decoded(s, Len(Fmt!EncodeString(s)))}
<1> DEFINE w == Fmt!EncodeString(s)
<1>1. w = <<1>> \o Fmt!Bytes(Len(s)) \o s
    BY DEF Fmt!EncodeString, Fmt!Tag
<1> HIDE DEF w
<1>2. Len(s) \in Nat
    OBVIOUS
<1>3. /\ w[1] = 1 /\ Len(w) = Len(s) + 5
      /\ Fmt!Number(Fmt!Part(w, 2, 4)) = Fmt!Number(Fmt!Bytes(Len(s)))
      /\ Fmt!Part(w, 6, Len(s)) = s
    BY <1>1, <1>2, WireParts
<1>4. Fmt!Length(w) = Len(s)
    BY <1>2, <1>3, NatBytes DEF Fmt!Length
<1>5. Fmt!CString(s) = s
    BY DEF Fmt!CString
<1>6. Fmt!Has(w, "string")
    BY <1>3 DEF Fmt!Has, Fmt!IsType, Fmt!Tag
<1>7. Fmt!DecodeString(w, << >>) = {Fmt!Died, Fmt!Decoded(s, Len(s) + 5)}
    BY <1>2, <1>3, <1>4, <1>5, <1>6
       DEF Fmt!DecodeString, Fmt!Typed, Fmt!Announced, Fmt!Reading
<1> QED BY <1>3, <1>7 DEF w
-----------------------------------------------------------------------------
(* The wire holds the value encoded, the output what its decoder makes;    *)
(* or encodeString() ended the process.                                    *)
FmtInv ==
    /\ datum \in Values
    /\ wire # << >> => wire = Fmt!Encoding(datum)
    /\ output # {} => IF wire = << >> THEN datum.type = "string"
                                     ELSE output = Fmt!Decodings(datum.type, wire)

THEOREM FmtInductive == Fmt!Spec => []FmtInv
<1>1. Fmt!Init => FmtInv
    BY DEF Fmt!Init, FmtInv
<1>2. FmtInv /\ [Fmt!Next]_(Fmt!vars) => FmtInv'
    BY DEF FmtInv, Fmt!Next, Fmt!Encode, Fmt!Overflow, Fmt!Decode, Fmt!vars
<1> QED BY <1>1, <1>2, PTL DEF Fmt!Spec

LEMMA RoundTripHolds ==
    ASSUME FmtInv PROVE Fmt!RoundTrip
<1> SUFFICES ASSUME wire # << >>, output # {}, Fmt!Safe
             PROVE  /\ output \ {Fmt!Died} = {Fmt!Decoded(datum.value, Len(wire))}
                    /\ Fmt!Died \in output => datum.type = "string"
    BY DEF Fmt!RoundTrip
<1> DEFINE v == datum.value
<1>1. /\ datum \in Values /\ wire = Fmt!Encoding(datum)
      /\ output = Fmt!Decodings(datum.type, wire)
    BY DEF FmtInv
<1>2. Fmt!InputsAssumption
    BY FmtAssumption
<1>9. Fmt!Decoded(v, Len(wire)) # Fmt!Died
    BY DEF Fmt!Decoded, Fmt!Died
<1>3. CASE datum.type = "bool"
    <2>1. v \in BOOLEAN
        BY <1>1, <1>2, <1>3 DEF Fmt!InputsAssumption
    <2>2. wire = Fmt!EncodeBool(v) /\ output = Fmt!DecodeBool(wire, FALSE)
        BY <1>1, <1>3 DEF Fmt!Encoding, Fmt!Decodings
    <2> QED BY <2>1, <2>2, <1>9, BoolRead
<1>4. CASE datum.type = "int"
    <2>1. v \in Int /\ -Fmt!Word <= 2 * v /\ 2 * v < Fmt!Word
        BY <1>1, <1>2, <1>4 DEF Fmt!InputsAssumption
    <2>2. wire = Fmt!EncodeInt(v) /\ output = Fmt!DecodeInt(wire, 0)
        BY <1>1, <1>4 DEF Fmt!Encoding, Fmt!Decodings
    <2> QED BY <2>1, <2>2, <1>9, IntRead
<1>5. CASE datum.type = "long"
    <2>1. v \in Nat /\ 2 * v < Fmt!Word
        BY <1>1, <1>2, <1>5 DEF Fmt!InputsAssumption, Fmt!Safe
    <2>2. wire = Fmt!EncodeLong(v) /\ output = Fmt!DecodeLong(wire, 0)
        BY <1>1, <1>5 DEF Fmt!Encoding, Fmt!Decodings
    <2> QED BY <2>1, <2>2, <1>9, LongRead
<1>6. CASE datum.type = "float"
    <2>1. /\ v \in Int /\ v % 4 = 0
          /\ -Fmt!Word <= 2 * Fmt!Truncate(v) /\ 2 * Fmt!Truncate(v) < Fmt!Word
        BY <1>1, <1>2, <1>6 DEF Fmt!InputsAssumption, Fmt!Safe
    <2>2. wire = Fmt!EncodeFloat(v) /\ output = Fmt!DecodeFloat(wire, 0)
        BY <1>1, <1>6 DEF Fmt!Encoding, Fmt!Decodings
    <2> QED BY <2>1, <2>2, <1>9, FloatRead
<1>7. CASE datum.type = "string"
    <2>1. /\ v \in Seq(0 .. Base - 1) /\ 2 * Len(v) < Fmt!Word
          /\ \A k \in DOMAIN v : v[k] # 0
        BY <1>1, <1>2, <1>7 DEF Fmt!InputsAssumption, Fmt!Safe
    <2>2. wire = Fmt!EncodeString(v) /\ output = Fmt!DecodeString(wire, << >>)
        BY <1>1, <1>7 DEF Fmt!Encoding, Fmt!Decodings
    <2>3. v \in Seq(Int)
        BY <2>1, BaseOK
    <2>4. output = {Fmt!Died, Fmt!Decoded(v, Len(wire))}
        BY <2>1, <2>2, <2>3, StringRead
    <2> QED BY <1>7, <1>9, <2>4
<1>8. datum.type \in {"bool", "int", "long", "float", "string"}
    BY DEF Fmt!Safe
<1> QED BY <1>3, <1>4, <1>5, <1>6, <1>7, <1>8

(* What decodeString() can make of a body.                                 *)
LEMMA StringDecoded ==
    ASSUME NEW data \in Seq(Nat), data # << >>, NEW t \in Fmt!DecodeString(data, << >>)
    PROVE  /\ t.kind \in {"died", "beyond", "decoded"}
           /\ t.kind = "beyond" => ~Fmt!Whole(data)
           /\ t.kind = "decoded" =>
                  /\ Fmt!Whole(data)
                  /\ t.used = IF Fmt!Has(data, "string") THEN Fmt!Length(data) + 5 ELSE 1
                  /\ t.used \in 1 .. Len(data)
                  /\ t.value = IF Fmt!Has(data, "string")
                               THEN Fmt!CString(Fmt!Part(data, 6, Fmt!Length(data))) ELSE << >>
<1> DEFINE n == Fmt!Length(data)
           v == Fmt!CString(Fmt!Part(data, 6, n))
           B == Fmt!Has(data, "string")
<1>1. Len(data) \in Nat /\ Len(data) > 0
    OBVIOUS
<1>2. Len(data) >= 5 => n \in Int
    BY LengthIsInt
<1>3. t \in IF B THEN IF 5 > Len(data) THEN {Fmt!Died, Fmt!Beyond}
                     ELSE IF n < 0 THEN {Fmt!Died}
                     ELSE IF n + 5 > Len(data) THEN {Fmt!Died, Fmt!Beyond}
                     ELSE {Fmt!Died, Fmt!Decoded(v, n + 5)}
            ELSE {Fmt!Decoded(<< >>, 1)}
    BY DEF Fmt!DecodeString, Fmt!Typed, Fmt!Announced, Fmt!Reading
<1>4. Fmt!Whole(data) <=> (B => Len(data) >= 5 /\ n >= 0 /\ n + 5 <= Len(data))
    BY DEF Fmt!Whole
<1> HIDE DEF n, v, B
<1>5. CASE ~B
    BY <1>1, <1>3, <1>4, <1>5 DEF Fmt!Decoded, B
<1>6. CASE B /\ (t = Fmt!Died \/ t = Fmt!Beyond)
    BY <1>1, <1>2, <1>3, <1>4, <1>6 DEF Fmt!Died, Fmt!Beyond, Fmt!Decoded
<1>7. CASE B /\ ~(t = Fmt!Died \/ t = Fmt!Beyond)
    <2>1. Len(data) >= 5 /\ n >= 0 /\ n + 5 <= Len(data) /\ t = Fmt!Decoded(v, n + 5) /\ n \in Int
        BY <1>1, <1>2, <1>3, <1>7
    <2>2. t.kind = "decoded" /\ t.used = n + 5 /\ t.value = v
        BY <2>1 DEF Fmt!Decoded
    <2>3. n + 5 \in 1 .. Len(data) /\ Fmt!Whole(data)
        BY <1>1, <1>4, <2>1
    <2> QED BY <1>7, <2>2, <2>3 DEF B, n, v
<1> QED BY <1>5, <1>6, <1>7

(* What an acknowledgement is taken for.                                   *)
LEMMA CallbackHolds ==
    ASSUME FmtInv PROVE Fmt!CallbackExact
<1> DEFINE n == IF Fmt!Has(wire, "string") THEN Fmt!Length(wire) + 5 ELSE 1
           rest == Fmt!Rest(wire, n)
           Id(data) == Fmt!CString(Fmt!Part(data, 6, Fmt!Length(data)))
<1> SUFFICES ASSUME datum.type = "callback", NEW r \in output
             PROVE  /\ r.kind = "ids" => /\ Fmt!Whole(wire) /\ Fmt!Has(wire, "string")
                                         /\ Fmt!Whole(rest) /\ Fmt!Has(rest, "string")
                                         /\ r = Fmt!Ids(Id(wire), Id(rest))
                    /\ r.kind = "beyond" => ~Fmt!Whole(wire) \/ ~Fmt!Whole(rest)
    BY DEF Fmt!CallbackExact
<1>1. wire = datum.value /\ output = Fmt!PushCallback(wire) /\ datum \in Values
    BY DEF FmtInv, Fmt!Encoding, Fmt!Decodings
<1>2. wire \in Seq(Nat) /\ wire # << >>
    BY <1>1, FmtAssumption DEF Fmt!InputsAssumption
<1>3. PICK t \in Fmt!DecodeString(wire, << >>) :
          r \in CASE t.kind = "died"    -> {Fmt!Died}
                  [] t.kind = "beyond"  -> {Fmt!Died, Fmt!Beyond}
                  [] t.kind = "decoded" -> Fmt!MsgAfter(t, wire)
    BY <1>1 DEF Fmt!PushCallback
<1>4. /\ t.kind \in {"died", "beyond", "decoded"}
      /\ t.kind = "beyond" => ~Fmt!Whole(wire)
      /\ t.kind = "decoded" => /\ Fmt!Whole(wire) /\ t.used = n /\ t.used \in 1 .. Len(wire)
                               /\ t.value = IF Fmt!Has(wire, "string") THEN Id(wire) ELSE << >>
    BY <1>2, StringDecoded
<1> HIDE DEF n, Id
<1>5. CASE t.kind \in {"died", "beyond"}
    BY <1>3, <1>4, <1>5 DEF Fmt!Died, Fmt!Beyond
<1>6. CASE t.kind = "decoded"
    <2>1. r \in Fmt!MsgAfter(t, wire)
        BY <1>3, <1>6
    <2>2. rest \in Seq(Nat)
        BY <1>2, <1>4, <1>6 DEF Fmt!Rest
    <2>3. r \in Fmt!Reading(rest, 1, {Fmt!Acknowledged(t.value, m) :
                                          m \in Fmt!DecodeString(rest, << >>)})
        BY <1>4, <1>6, <2>1 DEF Fmt!MsgAfter
    <2> HIDE DEF rest
    <2>4. CASE rest = << >>
        <3>1. r \in {Fmt!Died, Fmt!Beyond}
            BY <2>3, <2>4 DEF Fmt!Reading
        <3>2. ~Fmt!Whole(rest)
            BY <2>4 DEF Fmt!Whole
        <3> QED BY <3>1, <3>2 DEF Fmt!Died, Fmt!Beyond
    <2>5. CASE rest # << >>
        <3>1. PICK m \in Fmt!DecodeString(rest, << >>) : r = Fmt!Acknowledged(t.value, m)
            BY <2>2, <2>3, <2>5 DEF Fmt!Reading
        <3>2. /\ m.kind \in {"died", "beyond", "decoded"}
              /\ m.kind = "beyond" => ~Fmt!Whole(rest)
              /\ m.kind = "decoded" =>
                     /\ Fmt!Whole(rest)
                     /\ m.value = IF Fmt!Has(rest, "string") THEN Id(rest) ELSE << >>
            BY <2>2, <2>5, StringDecoded DEF Id
        <3>3. CASE m.kind \in {"died", "beyond"}
            BY <3>1, <3>2, <3>3 DEF Fmt!Acknowledged, Fmt!Died, Fmt!Beyond
        <3>4. CASE m.kind = "decoded"
            <4>1. r = IF t.value = << >> \/ m.value = << >> THEN Fmt!Refused
                      ELSE Fmt!Ids(t.value, m.value)
                BY <3>1, <3>4 DEF Fmt!Acknowledged
            <4>2. CASE t.value = << >> \/ m.value = << >>
                BY <4>1, <4>2 DEF Fmt!Refused
            <4>3. CASE ~(t.value = << >> \/ m.value = << >>)
                <5>1. Fmt!Has(wire, "string") /\ t.value = Id(wire) /\ Fmt!Whole(wire)
                    BY <1>4, <1>6, <4>3
                <5>2. Fmt!Has(rest, "string") /\ m.value = Id(rest) /\ Fmt!Whole(rest)
                    BY <3>2, <3>4, <4>3
                <5>3. r = Fmt!Ids(Id(wire), Id(rest))
                    BY <4>1, <4>3, <5>1, <5>2
                <5>4. r.kind = "ids"
                    BY <5>3 DEF Fmt!Ids
                <5> QED BY <5>1, <5>2, <5>3, <5>4
            <4> QED BY <4>2, <4>3
        <3> QED BY <3>2, <3>3, <3>4
    <2> QED BY <2>4, <2>5
<1> QED BY <1>4, <1>5, <1>6

LEMMA TextLength ==
    ASSUME NEW s \in Seq(Nat), Len(s) >= 5
    PROVE  Len(SubSeq(s, 6, Len(s))) = Len(s) - 5
<1>1. Len(s) \in Nat
    OBVIOUS
<1>2. SubSeq(s, 6, Len(s)) = [k \in 1 .. Len(s) - 6 + 1 |-> s[6 + k - 1]]
    BY <1>1
<1>3. Len(s) - 6 + 1 \in Nat /\ Len(s) - 6 + 1 = Len(s) - 5
    BY <1>1
<1> QED BY <1>2, <1>3

(* What a handshake is taken for.                                          *)
LEMMA HandshakeHolds ==
    ASSUME FmtInv PROVE Fmt!HandshakeExact
<1> DEFINE n == Fmt!Length(wire)
           text == SubSeq(wire, 6, Len(wire))
           said == Fmt!Part(wire, 6, n)
           J == Fmt!Has(wire, "json")
           Good == J /\ Len(wire) >= 5 /\ n = Len(text) /\ text \in DOMAIN Parse
                     /\ Parse[text] = "authentic"
           Bad  == J /\ (Len(wire) < 5 \/ n \notin 0 .. Len(wire) - 5
                            \/ (said \in DOMAIN Parse /\ Parse[said] = "throws"))
<1> SUFFICES ASSUME datum.type = "body", output # {}
             PROVE  (Fmt!Taken \in output <=> Good) /\ (Fmt!Died \in output => Bad)
    BY DEF Fmt!HandshakeExact
<1>1. wire = datum.value /\ output = Fmt!Handshake(wire) /\ datum \in Values
    BY DEF FmtInv, Fmt!Encoding, Fmt!Decodings
<1>2. wire \in Seq(Nat) /\ wire # << >> /\ Len(wire) \in Nat
    BY <1>1, FmtAssumption DEF Fmt!InputsAssumption
<1>3. Len(wire) >= 5 => n \in Int /\ Len(text) = Len(wire) - 5
    <2>1. Len(wire) >= 5 => n \in Int
        BY <1>2, LengthIsInt
    <2>2. Len(wire) >= 5 => Len(text) = Len(wire) - 5
        BY <1>2, TextLength
    <2> QED BY <2>1, <2>2
<1>4. Fmt!Taken # Fmt!Refused /\ Fmt!Taken # Fmt!Died /\ Fmt!Died # Fmt!Refused
    BY DEF Fmt!Taken, Fmt!Refused, Fmt!Died
<1>5. CASE ~J
    <2>1. output = {Fmt!Refused}
        BY <1>1, <1>5 DEF Fmt!Handshake
    <2> QED BY <1>4, <1>5, <2>1
<1>6. CASE J
    <2>1. output = {Fmt!Judge(r, wire) : r \in Fmt!DecodeJson(wire)}
        BY <1>1, <1>6 DEF Fmt!Handshake
    <2>2. Fmt!DecodeJson(wire) =
              IF 5 > Len(wire) THEN {Fmt!Died, Fmt!Beyond}
              ELSE IF n < 0 THEN {Fmt!Died}
              ELSE IF n + 5 > Len(wire) THEN {Fmt!Died, Fmt!Beyond}
              ELSE Fmt!Parsed(said)
        BY <1>6 DEF Fmt!DecodeJson, Fmt!Typed, Fmt!Announced, Fmt!Reading
    <2>3. Fmt!Judge(Fmt!Died, wire) = Fmt!Died /\ Fmt!Judge(Fmt!Beyond, wire) = Fmt!Refused
        BY DEF Fmt!Judge, Fmt!Died, Fmt!Beyond
    <2>4. CASE Len(wire) < 5 \/ n < 0 \/ n + 5 > Len(wire)
        <3>1. Fmt!DecodeJson(wire) \subseteq {Fmt!Died, Fmt!Beyond}
            BY <1>2, <1>3, <2>2, <2>4
        <3>2. output \subseteq {Fmt!Died, Fmt!Refused}
            BY <2>1, <2>3, <3>1
        <3>3. ~Good /\ Bad
            <4> HIDE DEF n, text, said, J
            <4> QED BY <1>2, <1>3, <1>6, <2>4
        <3> HIDE DEF Good, Bad
        <3> QED BY <1>4, <3>2, <3>3
    <2>5. CASE ~(Len(wire) < 5 \/ n < 0 \/ n + 5 > Len(wire))
        <3>1. Fmt!DecodeJson(wire) = Fmt!Parsed(said) /\ n \in Nat /\ n + 5 <= Len(wire)
            BY <1>2, <1>3, <2>2, <2>5
        <3>2. Len(said) = n
            <4>1. n \in Nat
                BY <3>1
            <4> HIDE DEF n
            <4>2. said = [k \in 1 .. n |-> wire[6 + k - 1]]
                BY DEF Fmt!Part
            <4> QED BY <4>1, <4>2
        <3>3. n + 5 = Len(wire) => said = text
            <4>1. n \in Nat
                BY <3>1
            <4> HIDE DEF n
            <4>2. said = [k \in 1 .. n |-> wire[6 + k - 1]]
                BY DEF Fmt!Part
            <4>3. text = [k \in 1 .. Len(wire) - 6 + 1 |-> wire[6 + k - 1]]
                BY <1>2, <2>5
            <4> HIDE DEF said, text
            <4>4. n + 5 = Len(wire) => Len(wire) - 6 + 1 = n
                BY <1>2, <4>1
            <4> QED BY <4>2, <4>3, <4>4
        <3>4. n = Len(text) <=> n + 5 = Len(wire)
            BY <1>2, <1>3, <2>5
        <3> HIDE DEF n, text, said, J
        <3>5. CASE said \notin DOMAIN Parse
            <4> DEFINE r == Fmt!Decoded(Fmt!Nothing, ErrorFmt)
            <4>1. Fmt!Parsed(said) = {r}
                BY <3>5 DEF Fmt!Parsed
            <4>2. Fmt!Judge(r, wire) = Fmt!Refused
                BY DEF Fmt!Judge, Fmt!Decoded, Fmt!Nothing, Fmt!Check
            <4>3. output = {Fmt!Refused}
                BY <2>1, <3>1, <4>1, <4>2
            <4> QED BY <1>4, <3>3, <3>4, <3>5, <4>3
        <3>6. CASE said \in DOMAIN Parse /\ Parse[said] = "throws"
            <4>1. output = {Fmt!Died}
                BY <2>1, <2>3, <3>1, <3>6 DEF Fmt!Parsed
            <4>2. ~Good
                BY <3>3, <3>4, <3>6
            <4> QED BY <1>4, <1>6, <3>6, <4>1, <4>2
        <3>7. CASE said \in DOMAIN Parse /\ Parse[said] # "throws"
            <4> DEFINE r == Fmt!Decoded(Parse[said], Len(said) + 5)
            <4>1. Fmt!Parsed(said) = {r}
                BY <3>7 DEF Fmt!Parsed
            <4>2. r.kind = "decoded" /\ r.used = n + 5 /\ r.value = Parse[said]
                BY <3>2 DEF Fmt!Decoded
            <4> HIDE DEF r
            <4>3. Fmt!Judge(r, wire) = IF n + 5 = Len(wire) /\ Parse[said] = "authentic"
                                       THEN Fmt!Taken ELSE Fmt!Refused
                BY <4>2 DEF Fmt!Judge, Fmt!Check
            <4>4. output = {Fmt!Judge(r, wire)}
                BY <2>1, <3>1, <4>1
            <4>5. Good <=> n + 5 = Len(wire) /\ Parse[said] = "authentic"
                BY <1>6, <2>5, <3>3, <3>4, <3>7
            <4> HIDE DEF Good
            <4> QED BY <1>4, <4>3, <4>4, <4>5
        <3> QED BY <3>5, <3>6, <3>7
    <2> QED BY <2>4, <2>5
<1> QED BY <1>5, <1>6

(* A value of LPushFMT decodes to itself, an acknowledgement is recorded   *)
(* only for two strings that the body holds, and a handshake taken exactly *)
(* for one authentic text - for any bodies, whatever lengths they announce *)
(* and however many values a byte has.                                     *)
THEOREM FmtIsExact == Fmt!Spec => []FmtExact
<1>1. FmtInv => FmtExact
    BY RoundTripHolds, CallbackHolds, HandshakeHolds DEF FmtExact, Fmt!FmtExact
<1> QED BY <1>1, FmtInductive, PTL
-----------------------------------------------------------------------------
(* A time that is empty for empty(int) is read back as 0, which is empty,  *)
(* too; every other field of a task is read back as it was.                *)
ReadBack(t) == [f \in Task!Texts \cup Task!Times |->
                   IF f \in Task!Times /\ Task!Empty(t[f]) THEN 0 ELSE t[f]]

LEMMA EmptyFacts ==
    /\ Task!Empty(0)
    /\ \A n \in Int : Task!Small(n) => ~Task!Empty(n)
<1>1. Half \in Nat /\ Half > 0
    BY TaskAssumption DEF Task!WidthAssumption
<1>2. Task!Empty(0)
    BY <1>1 DEF Task!Empty, Task!Narrow
<1>3. ASSUME NEW n \in 1 .. Half - 1 PROVE ~Task!Empty(n)
    <2>1. (n + Half) % (2 * Half) = n + Half
        BY <1>1
    <2> QED BY <1>1, <2>1 DEF Task!Empty, Task!Narrow
<1> QED BY <1>2, <1>3 DEF Task!Small

(* What a reader finds in the text that toAllString() makes of a task.     *)
LEMMA TextOfTask ==
    ASSUME NEW t
    PROVE  LET o == Task!ToAllString(t) IN
           /\ \A f \in Task!Texts : /\ f \in DOMAIN o <=> t[f] # ""
                                    /\ f \in DOMAIN o => o[f].type = "string" /\ o[f].v = t[f]
           /\ \A f \in Task!Times : /\ f \in DOMAIN o <=> ~Task!Empty(t[f])
                                    /\ f \in DOMAIN o => o[f].type = "int" /\ o[f].v = t[f]
<1>1. \A f \in Task!Texts : f \notin Task!Times
    BY DEF Task!Texts, Task!Visible, Task!Address, Task!Times
<1> QED BY <1>1 DEF Task!ToAllString, Task!Object

(* The task that is read from Redis, and from the history unless a time is *)
(* missing.                                                                *)
LEMMA TaskRead ==
    ASSUME NEW t
    PROVE  /\ Task!FromJson(Task!ToAllString(t)) = <<ReadBack(t)>>
           /\ Task!FromMap(Task!ToAllString(t)) =
                  IF \E f \in Task!Times : Task!Empty(t[f]) THEN << >> ELSE <<ReadBack(t)>>
<1> DEFINE o == Task!ToAllString(t)
           Fields == Task!Texts \cup Task!Times
<1>0. \A f \in Task!Texts : f \notin Task!Times
    BY DEF Task!Texts, Task!Visible, Task!Address, Task!Times
<1>1. /\ \A f \in Task!Texts : /\ f \in DOMAIN o <=> t[f] # ""
                               /\ f \in DOMAIN o => o[f].type = "string" /\ o[f].v = t[f]
      /\ \A f \in Task!Times : /\ f \in DOMAIN o <=> ~Task!Empty(t[f])
                               /\ f \in DOMAIN o => o[f].type = "int" /\ o[f].v = t[f]
    BY TextOfTask
<1> DEFINE j == Task!JsonToMap(o)
<1>2. j = o
    <2>1. DOMAIN o \subseteq Fields /\ o = [f \in DOMAIN o |-> o[f]]
        BY DEF Task!ToAllString, Task!Object
    <2>2. \A f \in DOMAIN o : o[f].type \in {"string", "int"}
        BY <1>1, <2>1
    <2> HIDE DEF o
    <2> QED BY <2>1, <2>2 DEF Task!JsonToMap
<1> HIDE DEF o, j
<1>3. \A f \in Fields : ReadBack(t)[f] = IF f \in Task!Times THEN Task!AsInt64(o, f)
                                                              ELSE Task!AsString(o, f)
    BY <1>0, <1>1 DEF ReadBack, Task!AsInt64, Task!AsString
<1>4. ReadBack(t) = [f \in Fields |-> IF f \in Task!Times THEN Task!AsInt64(o, f)
                                                        ELSE Task!AsString(o, f)]
    BY <1>3 DEF ReadBack
<1>5. /\ \A f \in Task!Times \cap DOMAIN o : o[f].type = "int"
      /\ \A f \in Task!Texts \cap DOMAIN o : o[f].type = "string"
    BY <1>1
<1>6. Task!FromJson(o) = <<ReadBack(t)>>
    BY <1>4, <1>5 DEF Task!FromJson
<1>7. Task!FromMap(o) = IF \E f \in Task!Times : Task!Empty(t[f]) THEN << >> ELSE <<ReadBack(t)>>
    BY <1>1, <1>2, <1>5, <1>6 DEF Task!FromMap, j
<1> QED BY <1>6, <1>7 DEF o

(* A task of this program between the producer and the client.             *)
TaskInv ==
    /\ order \in Orders
    /\ Task!Own =>
           \/ stage = "posted"
           \/ /\ stage = "crashed" /\ order.path = "mongo"
              /\ \E f \in Task!Times : Task!Empty(order.task[f])
           \/ /\ stage \in {"taken", "sent"} /\ message = <<ReadBack(order.task)>>
              /\ order.path = "mongo" => \A f \in Task!Times : ~Task!Empty(order.task[f])
              /\ stage = "sent" =>
                     shown = Task!ToJsonString(Task!Copy(Task!Copy(ReadBack(order.task))))

LEMMA TakeKeeps ==
    ASSUME TaskInv, Task!Take PROVE TaskInv'
<1> DEFINE t == order.task
<1>1. order' = order /\ stage = "posted" /\ shown' = shown
      /\ stage' = IF message' = << >> THEN "crashed" ELSE "taken"
    BY DEF Task!Take
<1>2. << ReadBack(t) >> # << >>
    OBVIOUS
<1>3. CASE order.path = "redis"
    <2>1. message' = <<ReadBack(t)>>
        BY <1>3, TaskRead DEF Task!Take
    <2> QED BY <1>1, <1>2, <1>3, <2>1 DEF TaskInv, Task!Own
<1>4. CASE order.path = "mongo"
    <2>1. message' = IF \E f \in Task!Times : Task!Empty(t[f]) THEN << >> ELSE <<ReadBack(t)>>
        BY <1>4, TaskRead DEF Task!Take
    <2>2. CASE \E f \in Task!Times : Task!Empty(t[f])
        BY <1>1, <1>4, <2>1, <2>2 DEF TaskInv, Task!Own
    <2>3. CASE ~\E f \in Task!Times : Task!Empty(t[f])
        BY <1>1, <1>2, <1>4, <2>1, <2>3 DEF TaskInv, Task!Own
    <2> QED BY <2>2, <2>3
<1>5. CASE order.path \notin {"redis", "mongo"}
    BY <1>1, <1>5 DEF TaskInv, Task!Own
<1> QED BY <1>3, <1>4, <1>5

THEOREM TaskInductive == Task!Spec => []TaskInv
<1>1. Task!Init => TaskInv
    BY DEF Task!Init, TaskInv
<1>2. TaskInv /\ [Task!Next]_(Task!vars) => TaskInv'
    <2> SUFFICES ASSUME TaskInv, [Task!Next]_(Task!vars) PROVE TaskInv'
        OBVIOUS
    <2>1. CASE Task!Take
        BY <2>1, TakeKeeps
    <2>2. CASE Task!Forward
        BY <2>2 DEF TaskInv, Task!Forward, Task!Own
    <2>3. CASE UNCHANGED Task!vars
        BY <2>3 DEF TaskInv, Task!vars, Task!Own
    <2> QED BY <2>1, <2>2, <2>3 DEF Task!Next
<1> QED BY <1>1, <1>2, PTL DEF Task!Spec

(* What the client sees of a task that was read back.                      *)
LEMMA TaskSeen ==
    ASSUME NEW t
    PROVE  LET s == Task!ToJsonString(Task!Copy(Task!Copy(ReadBack(t)))) IN
           /\ DOMAIN s = {f \in Task!Visible : t[f] # ""} \cup {f \in Task!Times : ~Task!Empty(t[f])}
           /\ \A f \in DOMAIN s : s[f].v = t[f]
<1> DEFINE m == ReadBack(t)
           s == Task!ToJsonString(m)
<1>0. /\ \A f \in Task!Visible : f \notin Task!Times
      /\ \A f \in Task!Visible : f \in Task!Texts
    BY DEF Task!Texts, Task!Visible, Task!Address, Task!Times
<1>1. Task!Copy(Task!Copy(m)) = m
    BY DEF Task!Copy, ReadBack
<1>2. /\ \A f \in Task!Visible : m[f] = t[f]
      /\ \A f \in Task!Times : m[f] = IF Task!Empty(t[f]) THEN 0 ELSE t[f]
    BY <1>0 DEF ReadBack
<1>3. \A f \in Task!Times : Task!Empty(m[f]) <=> Task!Empty(t[f])
    BY <1>2, EmptyFacts
<1> HIDE DEF m
<1>4. /\ DOMAIN s = {f \in Task!Visible : m[f] # ""} \cup {f \in Task!Times : ~Task!Empty(m[f])}
      /\ \A f \in DOMAIN s : s[f].v = m[f]
    BY DEF Task!ToJsonString, Task!Object
<1> HIDE DEF s
<1>5. DOMAIN s = {f \in Task!Visible : t[f] # ""} \cup {f \in Task!Times : ~Task!Empty(t[f])}
    BY <1>2, <1>3, <1>4
<1>6. \A f \in DOMAIN s : s[f].v = t[f]
    BY <1>2, <1>4, <1>5
<1> QED BY <1>1, <1>5, <1>6 DEF s, m

(* The client gets what the producer wrote, but for times that are no      *)
(* positive int; Redis loses nothing but such times, and they stop whoever *)
(* reads the task as history.                                              *)
THEOREM TasksSurvive == Task!Spec => []TaskSurvives
<1>1. TaskInv => TaskSurvives
    <2> SUFFICES ASSUME TaskInv PROVE TaskSurvives
        OBVIOUS
    <2> DEFINE t == order.task
    <2>0. Task!Own => \A f \in Task!Times : t[f] \in Int
        BY TaskAssumption DEF TaskInv, Task!Own, Task!InputsAssumption
    <2>1. Task!ClientSeesTask
        <3> SUFFICES ASSUME Task!Own, stage = "sent"
                     PROVE  /\ DOMAIN shown \subseteq Task!Visible \cup Task!Times
                            /\ \A f \in Task!Visible : (f \in DOMAIN shown) <=> (t[f] # "")
                            /\ \A f \in Task!Times : Task!Small(t[f]) => f \in DOMAIN shown
                            /\ \A f \in DOMAIN shown : shown[f].v = t[f]
            BY DEF Task!ClientSeesTask
        <3>0. \A f \in Task!Visible : f \notin Task!Times
            BY DEF Task!Visible, Task!Times
        <3>1. shown = Task!ToJsonString(Task!Copy(Task!Copy(ReadBack(t))))
            BY DEF TaskInv
        <3>2. /\ DOMAIN shown = {f \in Task!Visible : t[f] # ""}
                                    \cup {f \in Task!Times : ~Task!Empty(t[f])}
              /\ \A f \in DOMAIN shown : shown[f].v = t[f]
            BY <3>1, TaskSeen
        <3> QED BY <2>0, <3>0, <3>2, EmptyFacts
    <2>2. Task!RedisTaskReadable
        <3> SUFFICES ASSUME order.path = "redis", stage # "posted"
                     PROVE  /\ stage # "crashed"
                            /\ \A f \in Task!Address : message[1][f] = t[f]
            BY DEF Task!RedisTaskReadable
        <3>1. stage # "crashed" /\ message = <<ReadBack(t)>>
            BY DEF TaskInv, Task!Own
        <3>2. \A f \in Task!Address : f \in Task!Texts /\ f \notin Task!Times
            BY DEF Task!Address, Task!Texts, Task!Times
        <3>3. message[1] = ReadBack(t)
            BY <3>1
        <3> QED BY <3>1, <3>2, <3>3 DEF ReadBack
    <2>3. Task!HistoryNeedsTimes
        BY DEF TaskInv, Task!HistoryNeedsTimes, Task!Own
    <2> QED BY <2>1, <2>2, <2>3 DEF TaskSurvives, Task!TaskSurvives
<1> QED BY <1>1, TaskInductive, PTL
-----------------------------------------------------------------------------
(* Each part of the composition behaves as its own specification says (the *)
(* fairness of the reader aside, which no theorem above uses), so what is  *)
(* proved of the parts holds of it.                                        *)
THEOREM PartsBehave ==
    WireSpec => Init /\ [][Next]_vars /\ Fmt!Spec /\ Task!Spec
<1>1. WireInit => Init /\ Fmt!Init /\ Task!Init
    BY DEF WireInit
<1>2. [WireNext]_WireVars => [Next]_vars
    BY DEF WireNext, FramesNext, FmtNext, TaskNext, WireVars
<1>3. [WireNext]_WireVars => [Fmt!Next]_(Fmt!vars)
    BY DEF WireNext, FramesNext, FmtNext, TaskNext, WireVars, fmtVars, Fmt!vars
<1>4. [WireNext]_WireVars => [Task!Next]_(Task!vars)
    BY DEF WireNext, FramesNext, FmtNext, TaskNext, WireVars, taskVars, Task!vars
<1> QED BY <1>1, <1>2, <1>3, <1>4, PTL DEF WireSpec, Fmt!Spec, Task!Spec
=============================================================================
