----------------------------- MODULE ItemStream ------------------------------
(* What the queue of condition_sem1.c promises: an endless stream of items,  *)
(* 0 .. Limit - 1 over and over, through a channel of Cap places; what is    *)
(* shown is what was put in first.                                           *)
EXTENDS Naturals, Sequences

CONSTANTS Cap,     \* how many items the channel holds
          Limit    \* the items start again at 0 here

VARIABLES chan, item, shown

vars == <<chan, item, shown>>

Init == chan = << >> /\ item = 0 /\ shown = 0

Put ==
    /\ Len(chan) < Cap
    /\ chan' = Append(chan, item)
    /\ item' = IF item + 1 = Limit THEN 0 ELSE item + 1
    /\ UNCHANGED shown

Take ==
    /\ chan # << >>
    /\ shown' = Head(chan)
    /\ chan' = Tail(chan)
    /\ UNCHANGED item

Next == Put \/ Take

Spec == Init /\ [][Next]_vars
=============================================================================
