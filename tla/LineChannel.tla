------------------------------- MODULE LineChannel -------------------------------
(* What the daemon promises the endpoint: a channel that deals with what a  *)
(* file holds in the order it was written, handing over each piece or, in   *)
(* its turn, giving up on it, and that comes back to a piece it has dealt   *)
(* with only once for each thing that went wrong.  Router implements it.    *)
EXTENDS Integers

CONSTANT Pieces     \* [file, epoch, from, to]; epoch 1 until the file is truncated

VARIABLES
    copies,         \* how often a piece was handed over
    lost,           \* pieces given up on
    faults          \* what went wrong so far

channelVars == <<copies, lost, faults>>

ChannelInit == copies = [x \in Pieces |-> 0] /\ lost = {} /\ faults = 0

DealtWith == {x \in Pieces : copies[x] > 0} \cup lost
Times(x)  == copies[x] + (IF x \in lost THEN 1 ELSE 0)

\* What lies before a piece that was dealt with was dealt with.
InOrder ==
    \A x \in DealtWith : x.epoch = 1 =>
        \A b \in 0..(x.from - 1) :
            \E y \in DealtWith : y.file = x.file /\ y.epoch = 1 /\ y.from <= b /\ b < y.to

\* Some pieces are handed over, all at once; one again only for a fault.
HandOver ==
    /\ copies' \in [Pieces -> Nat]
    /\ \A x \in Pieces : copies'[x] # copies[x] => copies'[x] = copies[x] + 1 /\ Times(x) <= faults
    /\ UNCHANGED <<lost, faults>>

\* Something may go wrong, and pieces that were never handed over may be given
\* up on, with or without it.
GiveUp ==
    /\ lost \subseteq lost' /\ lost' \subseteq Pieces
    /\ \A x \in lost' \ lost : copies[x] = 0
    /\ faults' \in {faults, faults + 1}
    /\ UNCHANGED copies

ChannelNext == (HandOver \/ GiveUp) /\ InOrder'
ChannelSpec == ChannelInit /\ [][ChannelNext]_channelVars
==================================================================================
