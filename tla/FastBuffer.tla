----------------------------- MODULE FastBuffer -----------------------------
(***************************************************************************)
(* The receive buffer of a connection (LPushFastBuffer): memory of fixed   *)
(* size with a window p .. end - 1 of bytes that were received and not     *)
(* consumed.  A byte is known by its position 1, 2, ... in the stream the  *)
(* client sends, 0 stands for memory nothing was received into.            *)
(***************************************************************************)
EXTENDS Integers, Sequences

CONSTANT Cap       \* nb_buffer, LP_DEFAULT_RECV_BUFFER_SIZE in the code

ASSUME CapAssumption == Cap \in Nat

Slot   == 0 .. Cap - 1
Buffer == [mem : [Slot -> Nat], p : 0 .. Cap, end : 0 .. Cap]

EmptyBuffer == [mem |-> [i \in Slot |-> 0], p |-> 0, end |-> 0]

Size(b)      == b.end - b.p
FreeSpace(b) == Cap - b.end

(* read_slice(), read_1byte(): the next n bytes, and the window after them. *)
Slice(b, n) == [i \in 1 .. n |-> b.mem[b.p + i - 1]]
Skip(b, n)  == [b EXCEPT !.p = @ + n]

(* grow(): the unread bytes are moved to the start of the memory.          *)
CompactForgets(b) ==         \* variant: the pointers move, the bytes do not
    [b EXCEPT !.p = 0, !.end = Size(b)]

Compact(b) ==
    [b EXCEPT !.mem = [i \in Slot |-> IF i < Size(b) THEN b.mem[b.p + i]
                                                     ELSE b.mem[i]],
              !.p = 0, !.end = Size(b)]

(* skt->read(end, ...) stored the n bytes of the stream that follow the    *)
(* first "from" ones.                                                      *)
Store(b, from, n) ==
    [b EXCEPT !.mem = [i \in Slot |-> IF i \in b.end .. b.end + n - 1
                                      THEN from + (i - b.end) + 1
                                      ELSE b.mem[i]],
              !.end = @ + n]
=============================================================================
