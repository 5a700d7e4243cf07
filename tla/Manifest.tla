------------------------------ MODULE Manifest ------------------------------
(***************************************************************************)
(* The rules a publish manifest is held to before anything reaches the     *)
(* ledger (manifest.py): a wall time must be one its zone has, and an      *)
(* entry's window must not be empty.                                       *)
(*                                                                         *)
(* Times are integers of one unit.  A zone is one transition: the UTC      *)
(* instant `at' and the offsets `before' and `after' it.  Every wall time  *)
(* near a transition of an IANA zone sees exactly that much of the zone,   *)
(* its transitions being months apart and its offsets hours.               *)
(***************************************************************************)
EXTENDS Integers, TLAPS

Zones == [at : Int, before : Int, after : Int]

(* A wall time that carries its explicit UTC offset. *)
Stamps == [wall : Int, offset : Int]

(* The UTC instant a stamp denotes (astimezone(timezone.utc)). *)
Instant(stamp) == stamp.wall - stamp.offset

-----------------------------------------------------------------------------
(* What the calendar says: the offset in force at a UTC instant. *)
OffsetAt(zone, instant) ==
  IF instant < zone.at THEN zone.before ELSE zone.after

(* What zoneinfo answers for a wall time: the first reading (fold = 0)     *)
(* turns to the new offset when the later of the two clocks has reached    *)
(* the transition, the second (fold = 1) when the earlier one has.         *)
Later(zone) == IF zone.before < zone.after THEN zone.after ELSE zone.before
Earlier(zone) == IF zone.before < zone.after THEN zone.before ELSE zone.after

OffsetOfWall(zone, wall, fold) ==
  LET turn == zone.at + (IF fold = 0 THEN Later(zone) ELSE Earlier(zone))
  IN  IF wall < turn THEN zone.before ELSE zone.after

(* The round trip through UTC that finds the hour a zone skips. *)
Exists(zone, wall) ==
  LET instant == wall - OffsetOfWall(zone, wall, 0)
  IN  instant + OffsetAt(zone, instant) = wall

(* _resolve_wall_time returns rather than raises. *)
Resolves(zone, stamp) ==
  /\ Exists(zone, stamp.wall)
  /\ stamp.offset \in {OffsetOfWall(zone, stamp.wall, fold) : fold \in {0, 1}}

-----------------------------------------------------------------------------
(* An entry's `expires' holds the stated expires_at, or is empty; `day' is *)
(* DEFAULT_EXPIRY.                                                         *)
ExpiresAt(entry, day) ==
  IF entry.expires = {}
  THEN Instant(entry.scheduled) + day
  ELSE Instant(CHOOSE stated \in entry.expires : TRUE)

(* ManifestEntry._times: the slot resolves, and a stated expiry resolves   *)
(* too and lies after it.                                                  *)
TimesAccepted(entry) ==
  /\ Resolves(entry.zone, entry.scheduled)
  /\ \A stated \in entry.expires :
        /\ Resolves(entry.zone, stated)
        /\ Instant(stated) > Instant(entry.scheduled)

-----------------------------------------------------------------------------
(* A stamp is accepted exactly when its offset is the one the zone has at  *)
(* the instant it denotes: the hour a zone skips is refused with either    *)
(* offset and both readings of the hour it repeats are accepted, each as   *)
(* its own instant (manifest.py:78-119).                                   *)
THEOREM AcceptsWhatTheZoneHas ==
  ASSUME NEW zone \in Zones, NEW stamp \in Stamps
  PROVE  Resolves(zone, stamp)
           <=> OffsetAt(zone, Instant(stamp)) = stamp.offset
<1> DEFINE w == stamp.wall
           o == stamp.offset
           T == zone.at
           a == zone.before
           b == zone.after
<1>1. w \in Int /\ o \in Int /\ T \in Int /\ a \in Int /\ b \in Int
  BY DEF Zones, Stamps
<1>2. Resolves(zone, stamp)
        <=> /\ Exists(zone, w)
            /\ o = OffsetOfWall(zone, w, 0) \/ o = OffsetOfWall(zone, w, 1)
  BY DEF Resolves
<1>3. /\ OffsetOfWall(zone, w, 0)
           = IF w < T + (IF a < b THEN b ELSE a) THEN a ELSE b
      /\ OffsetOfWall(zone, w, 1)
           = IF w < T + (IF a < b THEN a ELSE b) THEN a ELSE b
  BY DEF OffsetOfWall, Later, Earlier
<1>4. OffsetAt(zone, Instant(stamp)) = IF w - o < T THEN a ELSE b
  BY DEF OffsetAt, Instant
<1>5. Exists(zone, w)
        <=> LET i == w - OffsetOfWall(zone, w, 0)
            IN  i + (IF i < T THEN a ELSE b) = w
  BY DEF Exists, OffsetAt
<1>6. CASE a < b
  <2>1. Exists(zone, w) <=> (w < T + a \/ w >= T + b)
    BY <1>1, <1>3, <1>5, <1>6
  <2> QED
    BY <1>1, <1>2, <1>3, <1>4, <1>6, <2>1
<1>7. CASE ~(a < b)
  <2>1. Exists(zone, w)
    BY <1>1, <1>3, <1>5, <1>7
  <2> QED
    BY <1>1, <1>2, <1>3, <1>4, <1>7, <2>1
<1> QED
  BY <1>6, <1>7

(* Every entry that validates has a window: it expires after its slot,     *)
(* whether the expiry is stated or defaulted (manifest.py:139-149).        *)
THEOREM WindowIsNeverEmpty ==
  ASSUME NEW day \in Int, day > 0,
         NEW entry, entry.scheduled \in Stamps, TimesAccepted(entry)
  PROVE  ExpiresAt(entry, day) > Instant(entry.scheduled)
<1>1. CASE entry.expires = {}
  <2>1. Instant(entry.scheduled) \in Int
    BY DEF Stamps, Instant
  <2> QED
    BY <1>1, <2>1 DEF ExpiresAt
<1>2. CASE entry.expires # {}
  <2>1. (CHOOSE stated \in entry.expires : TRUE) \in entry.expires
    BY <1>2
  <2> QED
    BY <1>2, <2>1 DEF ExpiresAt, TimesAccepted
<1> QED
  BY <1>1, <1>2
=============================================================================
