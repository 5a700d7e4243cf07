---------------------------- MODULE MCPublication ----------------------------
(***************************************************************************)
(* Small instances of Publication for TLC.                                 *)
(***************************************************************************)
EXTENDS PublicationDocs, PublicationInvariant, TLC

\* One publication, early at 0, due at 1 and 2, expired from 3 on.
OneSlot  == [p \in Publications |-> 1]
OneClose == [p \in Publications |-> 3]

\* Due from the start.
EarlySlot == [p \in Publications |-> 0]

\* A window of one instant after OneSlot, of two after EarlySlot.
BriefClose == [p \in Publications |-> 2]

\* Two publications, the second one slot later, both expired from 3 on.
TwoSlots == [p \in Publications |-> IF p = CHOOSE q \in Publications : TRUE THEN 1 ELSE 2]

\* A lease taken as the first slot opens runs out before the clock stops.
ASSUME HorizonAssumption ==
    \E p \in Publications : ScheduledAt[p] + Lease <= MaxTime

SymmetricNames == Permutations(Workers) \cup Permutations(Attempts)
=============================================================================
