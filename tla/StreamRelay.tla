---------------------------- MODULE StreamRelay ----------------------------
(***************************************************************************)
(* What a session promises the two ends of the flow it relays, whatever    *)
(* packets, windows, retransmissions and states it takes: two reliable     *)
(* byte streams.  The upstream gets the client's bytes in order and then   *)
(* its end; what the client is told has arrived did arrive; the client     *)
(* confirms no more than the upstream sent; and an orderly end of the flow *)
(* has both streams complete.                                              *)
(***************************************************************************)
EXTENDS Naturals, Sequences

CONSTANTS
    ClientBytes, ServerBytes   \* lengths of the two streams

VARIABLES
    given,       \* what the upstream was given, byte by byte
    shut,        \* the upstream was told that the client's stream has ended
    acked,       \* how far the client was told it has arrived, its end counted as one more
    taken,       \* bytes of the upstream's stream the session has taken
    eof,         \* that stream has ended
    confirmed,   \* how far the client confirmed it: the opening, the bytes, the end
    end          \* "open", "clean" or "reset"

vars == <<given, shut, acked, taken, eof, confirmed, end>>

Init ==
    /\ given = <<>> /\ ~shut /\ acked = 0
    /\ taken = 0 /\ ~eof /\ confirmed = 0
    /\ end = "open"

\* The upstream is given more of the client's stream, until its output is shut.
Give ==
    \E n \in Len(given)..ClientBytes :
        given' = [i \in 1..n |-> i] /\ (shut => n = Len(given))

\* Its output is shut behind the last byte, or once it has ended its own side.
Shut ==
    /\ shut => shut'
    /\ shut' => shut \/ eof \/ Len(given') = ClientBytes

\* The client is told of no byte that was not given to an upstream still there to read it,
\* and of its end exactly when that was passed on.
Acknowledge ==
    /\ acked' \in acked..(ClientBytes + 1)
    /\ acked' <= Len(given') \/ eof \/ shut'
    /\ acked' = ClientBytes + 1 <=> shut'

Confirm == confirmed' \in confirmed..(IF eof THEN taken + 2 ELSE taken + 1)

Exchange ==
    /\ end = "open"
    /\ Give /\ Shut /\ Acknowledge /\ Confirm
    /\ UNCHANGED <<taken, eof, end>>

Take ==
    /\ end = "open" /\ ~eof
    /\ \E n \in (taken + 1)..ServerBytes : taken' = n
    /\ UNCHANGED <<given, shut, acked, eof, confirmed, end>>

Finish ==
    /\ end = "open" /\ ~eof /\ eof'
    /\ UNCHANGED <<given, shut, acked, taken, confirmed, end>>

\* The flow ends in order: each stream has ended, and the other side knows it.
Close ==
    /\ end = "open" /\ end' = "clean"
    /\ shut /\ eof /\ confirmed' = taken + 2
    /\ acked' = 0
    /\ UNCHANGED <<given, shut, taken, eof>>

\* Or it is torn down, and both sides are told; a segment under way may have been given.
Reset ==
    /\ end = "open" /\ end' = "reset"
    /\ Give
    /\ acked' = 0 /\ confirmed' = 0
    /\ UNCHANGED <<shut, taken, eof>>

Next == Exchange \/ Take \/ Finish \/ Close \/ Reset

Spec == Init /\ [][Next]_vars

=============================================================================
