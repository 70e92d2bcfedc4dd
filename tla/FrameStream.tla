----------------------------- MODULE FrameStream ----------------------------
(***************************************************************************)
(* What a connection promises about the messages of its client: the frames *)
(* arrive whole, in order, none twice and none skipped, until the stream   *)
(* is closed; a frame that is not acceptable is never delivered.           *)
(***************************************************************************)
EXTENDS Naturals, Sequences

CONSTANTS Acceptable(_),      \* may a frame be delivered at all?
          Whole(_, _)         \* what the delivery of frame i of a stream is

VARIABLES sent,        \* the frames of the client, in order
          delivered,   \* what was handed to the connection
          open

Init == delivered = << >> /\ open = TRUE

Deliver ==
    /\ open
    /\ Len(delivered) < Len(sent)
    /\ LET i == Len(delivered) + 1
       IN  /\ Acceptable(sent[i])
           /\ delivered' = Append(delivered, Whole(sent, i))
    /\ open' \in BOOLEAN
    /\ UNCHANGED sent

Close == open /\ open' = FALSE /\ UNCHANGED <<sent, delivered>>

Next == Deliver \/ Close

Spec == Init /\ [][Next]_<<sent, delivered, open>>
=============================================================================
