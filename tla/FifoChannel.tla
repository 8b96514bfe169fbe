----------------------------- MODULE FifoChannel -----------------------------
(* What the producer/consumer programs promise: a bounded channel that       *)
(* delivers Item(0), Item(1), ..., Item(Total - 1) once each and in order.   *)
EXTENDS Naturals, Sequences

CONSTANTS Cap,      \* how many items the channel holds
          Total,    \* how many items are sent
          Item(_)   \* the k-th item sent

VARIABLES chan, sent, got

vars == <<chan, sent, got>>

Init == chan = << >> /\ sent = 0 /\ got = << >>

Put ==
    /\ sent < Total /\ Len(chan) < Cap
    /\ chan' = Append(chan, Item(sent))
    /\ sent' = sent + 1
    /\ UNCHANGED got

Take ==
    /\ chan # << >>
    /\ got' = Append(got, Head(chan))
    /\ chan' = Tail(chan)
    /\ UNCHANGED sent

Next == Put \/ Take

Spec == Init /\ [][Next]_vars
=============================================================================
