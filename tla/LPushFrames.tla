----------------------------- MODULE LPushFrames ----------------------------
(***************************************************************************)
(* How one connection reads its client: the socket (lpushAppSt.cpp), the   *)
(* receive buffer (lpushFastBuffer.cpp), the frames (LPushProtocol in      *)
(* lpushProtocolStack.cpp) and what the session does with each message     *)
(* (lpushAppLpushConn.cpp, lpushRecvThread.cpp).                           *)
(*                                                                         *)
(* TCP cuts the client's bytes into pieces of any length, several frames   *)
(* may come in one read and one frame in many.  Where the reader is:       *)
(*   grow    at the start of grow(need)                                    *)
(*   fill    in the loop of grow(), waiting for the socket                 *)
(*   parse   grow() returned, a header or a body is taken from the buffer  *)
(*   ended   an error was returned to the session, which closes            *)
(***************************************************************************)
EXTENDS FastBuffer, FiniteSets

CONSTANTS
    HeaderSize,    \* 14 bytes: flag, timestamp, type, length
    DataMax,       \* LPUSH_HANDSHAKE_DATA_MAX
    Streams        \* the sequences of frames a client may send

(* What a frame is to the server: whether strstr() finds "LPUSH" in it,    *)
(* its type, the length in its header, and whether its body is well formed *)
(* (LPushFMT, and for a handshake the md5 and the numeric user id).        *)
Kind  == {"handshake", "create", "heartbeat", "close", "push", "other"}
Frame == [flag : BOOLEAN, type : Kind, len : Int, ok : BOOLEAN]

ASSUME SizeAssumption == HeaderSize \in Nat \ {0} /\ DataMax \in Nat \ {0}

(* Room for a request that meets an unread rest: less of it would make     *)
(* grow() report an overflow although the bytes would fit.  (The code has  *)
(* 131072 for headers of 14 and bodies of at most 400.)                    *)
ASSUME RoomAssumption == Cap >= 2 * HeaderSize /\ Cap >= 2 * DataMax

ASSUME StreamAssumption == Streams \subseteq Seq(Frame)

VARIABLES
    sent,        \* the frames of this client
    arrived,     \* bytes that reached the socket of the server
    eof,         \* the client closed its side
    received,    \* bytes read from the socket
    taken,       \* bytes consumed from the buffer
    buf,         \* fast_buffer
    need,        \* required_size of the current grow()
    header,      \* LPushHeader of the frame whose body is awaited, or NoHeader
    at, why,     \* where the reader is, and why it ended
    session,     \* "handshake", "create" or "serve"
    closing,     \* the connection's dispose flag
    chunks,      \* what readMessage() delivered
    replies      \* codes the server wrote

input == <<sent, arrived, eof>>
reader == <<received, taken, buf, need, header, at, why>>
dialog == <<session, closing, chunks, replies>>
vars == <<input, reader, dialog>>

NoHeader == [type |-> "none"]

FrameSize(f) == HeaderSize + (IF f.len > 0 THEN f.len ELSE 0)

(* Begin(s)[i] bytes of stream s precede frame i.                          *)
Begin(s) == LET B[i \in 1 .. Len(s) + 1] ==
                    IF i = 1 THEN 0 ELSE B[i - 1] + FrameSize(s[i - 1])
            IN  B
Total(s) == Begin(s)[Len(s) + 1]

Init == /\ sent \in Streams
        /\ arrived = 0 /\ eof = FALSE
        /\ received = 0 /\ taken = 0
        /\ buf = EmptyBuffer
        /\ need = HeaderSize /\ header = NoHeader
        /\ at = "grow" /\ why = "none"
        /\ session = "handshake" /\ closing = FALSE
        /\ chunks = << >> /\ replies = << >>
-----------------------------------------------------------------------------
(* The network.                                                            *)
Arrive == /\ ~eof
          /\ arrived' \in arrived + 1 .. Total(sent)
          /\ UNCHANGED <<sent, eof, reader, dialog>>

ClientCloses == /\ ~eof
                /\ eof' = TRUE
                /\ UNCHANGED <<sent, arrived, reader, dialog>>

(* An error of readMessage() ends the session.  do_cycle() answers a       *)
(* failed handshake with 0x00, whatever the error was; that write may fail *)
(* too.                                                                    *)
Refused(code) == replies' \in {replies, Append(replies, code)}

EndAs(reason) ==
    /\ at' = "ended" /\ why' = reason
    /\ IF session = "handshake" THEN Refused("handshake 0") ELSE UNCHANGED replies
    /\ UNCHANGED <<session, closing, chunks>>
-----------------------------------------------------------------------------
(* grow(): enough is buffered, or there is room for "need" more bytes, or  *)
(* the rest is moved to the start, or it is an overflow.                   *)
GrowFull ==                  \* variant: the unread rest is never moved
    /\ at = "grow"
    /\ IF Size(buf) >= need
       THEN at' = "parse" /\ UNCHANGED <<buf, why, dialog>>
       ELSE IF FreeSpace(buf) < need
            THEN EndAs("overflow") /\ UNCHANGED buf
            ELSE at' = "fill" /\ UNCHANGED <<buf, why, dialog>>
    /\ UNCHANGED <<input, received, taken, need, header>>

Grow ==
    /\ at = "grow"
    /\ IF Size(buf) >= need
       THEN at' = "parse" /\ UNCHANGED <<buf, why, dialog>>
       ELSE LET b == IF FreeSpace(buf) < need THEN Compact(buf) ELSE buf
            IN  /\ buf' = b
                /\ IF FreeSpace(b) < need
                   THEN EndAs("overflow")
                   ELSE at' = "fill" /\ UNCHANGED <<why, dialog>>
    /\ UNCHANGED <<input, received, taken, need, header>>

(* st_read() returned n bytes, as many as there are and fit.               *)
FillWhole(n) ==              \* variant: one byte more than needed is awaited
    /\ at = "fill"
    /\ n <= arrived - received /\ n <= FreeSpace(buf)
    /\ buf' = Store(buf, received, n)
    /\ received' = received + n
    /\ at' = IF Size(buf') > need THEN "parse" ELSE "fill"
    /\ UNCHANGED <<input, taken, need, header, why, dialog>>

Fill(n) ==
    /\ at = "fill"
    /\ n <= arrived - received /\ n <= FreeSpace(buf)
    /\ buf' = Store(buf, received, n)
    /\ received' = received + n
    /\ at' = IF Size(buf') >= need THEN "parse" ELSE "fill"
    /\ UNCHANGED <<input, taken, need, header, why, dialog>>

(* st_read() failed: end of stream, 60 s of silence, or an interrupt.  It  *)
(* looks into the socket first, so nothing was waiting there.              *)
FillFails ==
    /\ at = "fill"
    /\ arrived = received
    /\ EndAs("silence")
    /\ UNCHANGED <<input, received, taken, buf, need, header>>
-----------------------------------------------------------------------------
(* The frame whose header these bytes are; bytes from anywhere else in the *)
(* stream are no header.                                                   *)
HeaderIn(bytes) ==
    LET start == {i \in 1 .. Len(sent) :
                      bytes = [j \in 1 .. HeaderSize |-> Begin(sent)[i] + j]}
    IN  IF start = {} THEN [flag |-> FALSE, type |-> "other", len |-> 0, ok |-> FALSE]
                      ELSE sent[CHOOSE i \in start : TRUE]

(* readHeader(): flag, timestamp, type and length leave the buffer, then   *)
(* the length is checked.                                                  *)
ReadHeaderUnchecked ==       \* variant: a body over DataMax is accepted
    /\ at = "parse" /\ header = NoHeader
    /\ LET h == HeaderIn(Slice(buf, HeaderSize))
       IN  /\ buf' = Skip(buf, HeaderSize)
           /\ taken' = taken + HeaderSize
           /\ IF h.flag /\ h.len > 0
              THEN /\ header' = h /\ need' = h.len
                   /\ at' = "grow" /\ UNCHANGED <<why, dialog>>
              ELSE EndAs("header") /\ UNCHANGED <<header, need>>
    /\ UNCHANGED <<input, received>>

ReadHeader ==
    /\ at = "parse" /\ header = NoHeader
    /\ LET h == HeaderIn(Slice(buf, HeaderSize))
       IN  /\ buf' = Skip(buf, HeaderSize)
           /\ taken' = taken + HeaderSize
           /\ IF h.flag /\ h.len > 0 /\ h.len <= DataMax
              THEN /\ header' = h /\ need' = h.len
                   /\ at' = "grow" /\ UNCHANGED <<why, dialog>>
              ELSE EndAs("header") /\ UNCHANGED <<header, need>>
    /\ UNCHANGED <<input, received>>

(* The end of readMessage(): the body is copied out of the buffer.         *)
TakeBody ==
    /\ at = "parse" /\ header # NoHeader
    /\ chunks' = Append(chunks, [type |-> header.type, data |-> Slice(buf, need)])
    /\ buf' = Skip(buf, need)
    /\ taken' = taken + need
    /\ header' = NoHeader /\ need' = HeaderSize
    /\ UNCHANGED <<input, received>>

GoesOn == at' = "grow" /\ UNCHANGED why
Ends(reason) == at' = "ended" /\ why' = reason

(* handshake() and checkUserMessage(): a message that is no handshake, or  *)
(* not well formed, an unknown application or a wrong secret are refused;  *)
(* the accepting reply may fail.                                           *)
Handshake ==
    /\ session = "handshake"
    /\ TakeBody
    /\ \/ /\ header.type # "handshake" \/ ~header.ok
          /\ Refused("handshake 0") /\ Ends("refused") /\ UNCHANGED session
       \/ /\ header.type = "handshake" /\ header.ok
          /\ \/ Refused("handshake 2") /\ Ends("refused") /\ UNCHANGED session
             \/ UNCHANGED replies /\ Ends("write") /\ UNCHANGED session
             \/ /\ replies' = Append(replies, "handshake 1")
                /\ session' = "create" /\ GoesOn
    /\ UNCHANGED closing

(* createConnection(): another type is not answered; a duplicate is        *)
(* refused; the accepting reply may fail.                                  *)
CreateAnyType ==             \* variant: the type is not tested
    /\ session = "create"
    /\ TakeBody
    /\ \/ Refused("create 2") /\ Ends("refused") /\ UNCHANGED session
       \/ UNCHANGED replies /\ Ends("write") /\ UNCHANGED session
       \/ /\ replies' = Append(replies, "create 1")
          /\ session' = "serve" /\ GoesOn
    /\ UNCHANGED closing

Create ==
    /\ session = "create"
    /\ TakeBody
    /\ \/ /\ header.type # "create"
          /\ UNCHANGED <<session, replies>> /\ Ends("refused")
       \/ /\ header.type = "create"
          /\ \/ Refused("create 2") /\ Ends("refused") /\ UNCHANGED session
             \/ UNCHANGED replies /\ Ends("write") /\ UNCHANGED session
             \/ /\ replies' = Append(replies, "create 1")
                /\ session' = "serve" /\ GoesOn
    /\ UNCHANGED closing

(* forwardServer(): CLOSE sets dispose, a malformed PUSH callback is an    *)
(* error, every other message is taken as it is.                           *)
Forward ==
    /\ session = "serve"
    /\ TakeBody
    /\ closing' = (closing \/ header.type = "close")
    /\ IF header.type = "push" /\ ~header.ok THEN Ends("refused") ELSE GoesOn
    /\ UNCHANGED <<session, replies>>

(* The connection's coroutine saw dispose and stops the receive thread.    *)
Stopped ==
    /\ closing /\ at \in {"grow", "fill"}
    /\ Ends("closed")
    /\ UNCHANGED <<input, received, taken, buf, need, header, dialog>>
-----------------------------------------------------------------------------
Reads == \/ Grow \/ (\E n \in 1 .. Cap : Fill(n)) \/ FillFails \/ ReadHeader
         \/ Handshake \/ Create \/ Forward

Next == Arrive \/ ClientCloses \/ Reads \/ Stopped

(* The scheduler runs the reading coroutine whenever it can go on.         *)
Spec == Init /\ [][Next]_vars /\ WF_vars(Reads)
-----------------------------------------------------------------------------
TypeOK == /\ sent \in Streams
          /\ arrived \in Nat /\ received \in Nat /\ taken \in Nat
          /\ eof \in BOOLEAN /\ closing \in BOOLEAN
          /\ buf \in Buffer
          /\ need \in 1 .. IF HeaderSize > DataMax THEN HeaderSize ELSE DataMax
          /\ header \in Frame \cup {NoHeader}
          /\ at \in {"grow", "fill", "parse", "ended"}
          /\ session \in {"handshake", "create", "serve"}

(* The window of the buffer is exactly what was received and not consumed, *)
(* byte for byte and in order, through every move to the start of the      *)
(* memory and every partial read (LPushFastBuffer::grow).                  *)
Window ==
    /\ taken + Size(buf) = received
    /\ \A i \in 0 .. Size(buf) - 1 : buf.mem[buf.p + i] = taken + i + 1

(* With the room that the buffer has, ERROR_READER_BUFFER_OVERFLOW is not  *)
(* reachable, whatever rest is unread when grow() is called.               *)
NeverOverflows == why # "overflow"

(* readMessage() delivers the client's frames whole, in order, none twice  *)
(* and none skipped, however TCP cuts the bytes.                           *)
AcceptableFrame(f) == f.flag /\ f.len \in 1 .. DataMax
WholeFrame(s, i) ==
    [type |-> s[i].type,
     data |-> [j \in 1 .. s[i].len |-> Begin(s)[i] + HeaderSize + j]]

Stream == INSTANCE FrameStream WITH
              Acceptable <- AcceptableFrame, Whole <- WholeFrame,
              sent <- sent, delivered <- chunks, open <- at # "ended"

ImplementsFrameStream == Stream!Spec

(* A message reaches forwardServer() only after both logins were answered  *)
(* with success, even if the client sent everything in one segment; and a  *)
(* session that was refused is not read any further.                       *)
ServedAfterLogin ==
    /\ Len(chunks) > 2 => replies = <<"handshake 1", "create 1">>
    /\ session = "serve" => chunks[1].type = "handshake" /\ chunks[2].type = "create"

(* Every frame that arrived in full is delivered, or the session ended:    *)
(* no complete frame waits in the buffer for more bytes to come.           *)
WholeFrameHandled ==
    \A i \in 1 .. 4 :
        i <= Len(sent) /\ arrived >= Begin(sent)[i + 1]
            ~> Len(chunks) >= i \/ at = "ended"

(* Everything the reader relies on when it takes bytes from the buffer and *)
(* acts on them.                                                           *)
ReaderSafe == TypeOK /\ Window /\ NeverOverflows /\ ServedAfterLogin
=============================================================================
