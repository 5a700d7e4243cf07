------------------------------- MODULE MCDesk -------------------------------
(***************************************************************************)
(* Desk and Aftercare for TLC: the runs of one kind are interchangeable.   *)
(* TLC also evaluates what Manifest proves of wall times for every small   *)
(* zone: clocks that skip, repeat and keep up to four units.               *)
(***************************************************************************)
EXTENDS Aftercare, Integers, TLC

Times == INSTANCE Manifest

ASSUME WallTimesAgree ==
    \A before, after, offset \in -2..2, wall \in -6..6 :
        LET zone == [at |-> 0, before |-> before, after |-> after]
            stamp == [wall |-> wall, offset |-> offset]
        IN  Times!Resolves(zone, stamp)
              <=> Times!OffsetAt(zone, Times!Instant(stamp)) = offset

Interchangeable ==
    UNION {Permutations(S) : S \in {Imports, Commissioners, Deletions,
                                      Digests, Bindings}}
=============================================================================
