------------------------------- MODULE LPushLog ------------------------------
(***************************************************************************)
(* The log file (LPushFastLog, lpushLogger.cpp): a line is formatted in a  *)
(* buffer of LogMax bytes, the file is opened when the first line needs it *)
(* and again after every failure, and two processes may have it open.      *)
(* Lines are numbered; of their text only the sizes are kept.              *)
(***************************************************************************)
EXTENDS Integers, SequencesExt

CONSTANTS
    Procs,
    LogMax,                    \* LOG_MAX_SIZE
    Headers, Messages, Errors, \* sizes of a line's parts; 0 in Errors: errno = 0
    MinLevel,                  \* conf->loglevel
    MaxLines,                  \* bound on the lines formatted
    None

SizeAssumption ==
    /\ LogMax \in Nat /\ LogMax > 2
    /\ Headers \cup Messages \cup Errors \subseteq Nat
    /\ None \notin Seq(Nat)

Verbose == 1  Info == 2  Trace == 3  Warn == 4  Error == 5

VARIABLES
    file,          \* the numbers of the lines in the file, or None
    fd,            \* [kind, at] of each process; at: its own offset
    line,          \* what write_log() is to write, or None
    next           \* number of the next line

vars == <<file, fd, line, next>>

Gone   == [kind |-> "gone", at |-> 0]       \* not started or ended
Closed == [kind |-> "closed", at |-> 0]
Absent == [kind |-> "absent", at |-> 0]     \* the first open said ENOENT
Lesser(a, b) == IF a < b THEN a ELSE b

(* snprintf(log_data + at, LOG_MAX_SIZE - at, ..) of n characters: the     *)
(* first byte behind those it writes, its 0 included.  With at above       *)
(* LOG_MAX_SIZE the difference is negative, and as a size_t bounds nothing.*)
ExtentUnreserved(at, n) == at + Lesser(LogMax, n + 1)   \* variant: bounded by LOG_MAX_SIZE

Extent(at, n) == IF at > LogMax THEN at + n + 1 ELSE at + Lesser(LogMax - at, n + 1)

(* generate_header(): snprintf() returns the size it would have needed.    *)
HeaderSize(h) == Lesser(LogMax - 1, h)

(* error() appends the text of errno, the other levels nothing.            *)
Text(level, e) == IF level = Error THEN e ELSE 0

(* verbose() .. error(): header, message and text follow one another, each *)
(* behind the size that the ones before it would have needed.              *)
Size(level, h, m, e) == HeaderSize(h) + m + Text(level, e)

End(level, h, m, e) ==
    IF Text(level, e) > 0 THEN Extent(HeaderSize(h) + m, e) ELSE Extent(HeaderSize(h), m)

Written(size) == Lesser(LogMax - 2, size) + 1           \* write_log(), with LOG_TAIL

Init ==
    /\ file \in {None, <<0>>}
    /\ fd = [p \in Procs |-> Gone] /\ line = [p \in Procs |-> None] /\ next = 1

Initialize(p) ==
    /\ fd[p] = Gone
    /\ fd' = [fd EXCEPT ![p] = Closed]
    /\ UNCHANGED <<file, line, next>>

Destroy(p) ==
    /\ fd[p] \notin {Gone, Absent} /\ line[p] = None
    /\ fd' = [fd EXCEPT ![p] = Gone] /\ UNCHANGED <<file, line, next>>

Says(p, level, h, m, e) ==
    /\ fd[p] # Gone /\ line[p] = None /\ level >= MinLevel /\ next <= MaxLines
    /\ line' = [line EXCEPT ![p] = [no |-> next, size |-> Size(level, h, m, e),
                                    text |-> Text(level, e), end |-> End(level, h, m, e),
                                    written |-> Written(Size(level, h, m, e))]]
    /\ next' = next + 1 /\ UNCHANGED <<file, fd>>

(* What was written behind the buffer may end the process, now or later.   *)
Overruns(p) ==
    /\ line[p] # None /\ line[p].end > LogMax
    /\ fd' = [fd EXCEPT ![p] = Gone] /\ line' = [line EXCEPT ![p] = None]
    /\ UNCHANGED <<file, next>>

(* open_log_file(): O_APPEND if the file exists, else a second open that   *)
(* creates it, without O_APPEND.  Both may fail: the line is dropped.      *)
OpenAtStart(p) ==              \* variant: no O_APPEND
    /\ line[p] # None /\ fd[p] = Closed
    /\ fd' = [fd EXCEPT ![p] = IF file = None THEN Absent ELSE [kind |-> "own", at |-> 0]]
    /\ UNCHANGED <<file, line, next>>

OpenLogFile(p) ==
    /\ line[p] # None /\ fd[p] = Closed
    /\ fd' = [fd EXCEPT ![p] = IF file = None THEN Absent ELSE [kind |-> "append", at |-> 0]]
    /\ UNCHANGED <<file, line, next>>

CreateLogFile(p) ==
    /\ fd[p] = Absent
    /\ fd' = [fd EXCEPT ![p] = [kind |-> "own", at |-> 0]] /\ file' = << >>
    /\ UNCHANGED <<line, next>>

OpenFails(p) ==
    /\ line[p] # None /\ fd[p] \in {Closed, Absent}
    /\ fd' = [fd EXCEPT ![p] = Closed] /\ line' = [line EXCEPT ![p] = None]
    /\ UNCHANGED <<file, next>>

WriteLog(p) ==
    /\ line[p] # None
    /\ \/ fd[p].kind = "append" /\ file' = Append(file, line[p].no) /\ UNCHANGED fd
       \/ /\ fd[p].kind = "own"
          /\ file' = IF fd[p].at < Len(file)
                     THEN [file EXCEPT ![fd[p].at + 1] = line[p].no]
                     ELSE Append(file, line[p].no)
          /\ fd' = [fd EXCEPT ![p].at = @ + 1]
    /\ line' = [line EXCEPT ![p] = None] /\ UNCHANGED next

Next ==
    \E p \in Procs :
        \/ Initialize(p) \/ Destroy(p) \/ OpenLogFile(p) \/ CreateLogFile(p)
        \/ OpenFails(p) \/ WriteLog(p) \/ Overruns(p)
        \/ \E level \in Verbose .. Error, h \in Headers, m \in Messages, e \in Errors :
               Says(p, level, h, m, e)

Spec == Init /\ [][Next]_vars
-----------------------------------------------------------------------------
(* What is passed to write() leaves a byte of the buffer for the end of    *)
(* the string, and a line that fits is written whole.  Formatting a line   *)
(* writes behind the buffer in one case only: error() appends the text of  *)
(* errno to a header and a message that did not fit (lpushLogger.cpp:264). *)
LineBounded ==
    \A p \in Procs : line[p] # None =>
        /\ line[p].written <= LogMax - 1
        /\ line[p].size <= LogMax - 2 => line[p].written = line[p].size + 1
        /\ line[p].end > LogMax => line[p].text > 0 /\ line[p].size - line[p].text > LogMax

(* A log file that was there before (its line is number 0) is only ever    *)
(* extended: neither a restart nor a second start, which logs why it gives *)
(* up, overwrites it.  The process that created the file has no O_APPEND:  *)
(* it does overwrite what others append meanwhile.                         *)
OnlyExtended ==
    [][file # None /\ (\E k \in DOMAIN file : file[k] = 0) => IsPrefix(file, file')]_vars
=============================================================================
