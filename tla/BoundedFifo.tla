---------------------------- MODULE BoundedFifo ----------------------------
(* What a bounded single-producer single-consumer queue promises: what is *)
(* put in comes out once, in the order it was put in, and at most Room    *)
(* items wait inside.  A refused push or pop is a stuttering step.        *)
EXTENDS Naturals, Sequences

CONSTANTS Items, Room

VARIABLES
  queue,    \* items put in and not taken yet
  received  \* items taken so far, in order

Init == queue = << >> /\ received = << >>

Put(x) ==
  /\ Len(queue) < Room
  /\ queue' = Append(queue, x)
  /\ UNCHANGED received

Take ==
  /\ queue # << >>
  /\ queue' = Tail(queue)
  /\ received' = Append(received, Head(queue))

Next == Take \/ \E x \in Items : Put(x)

Spec == Init /\ [][Next]_<<queue, received>>
=============================================================================
