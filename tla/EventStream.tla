---------------------------- MODULE EventStream ----------------------------
(***************************************************************************)
(* What the price pipeline promises to the task that watches the positions *)
(* of an exchange: it sees the price events of each feed in the order in   *)
(* which the feed published them, none twice and none skipped.  It may lag *)
(* behind, and it may stop for good.                                       *)
(***************************************************************************)
EXTENDS Naturals, Sequences

CONSTANT Feeds

VARIABLES
  published,  \* published[f]: number of events that feed f has published
  seen        \* seen[f]: numbers of the events of f that were seen, in order

Init ==
  /\ published = [f \in Feeds |-> 0]
  /\ seen = [f \in Feeds |-> <<>>]

Publish(f) ==
  /\ published' = [published EXCEPT ![f] = @ + 1]
  /\ UNCHANGED seen

See(f) ==
  /\ Len(seen[f]) < published[f]
  /\ seen' = [seen EXCEPT ![f] = Append(@, Len(@) + 1)]
  /\ UNCHANGED published

Next == \E f \in Feeds : Publish(f) \/ See(f)

Spec == Init /\ [][Next]_<<published, seen>>
=============================================================================
