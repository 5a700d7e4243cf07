------------------------------ MODULE Exchange ------------------------------
(***************************************************************************)
(* What one call of LinkedInClient.publish promises its caller, without    *)
(* media, budgets or status codes: at most one create request leaves, and  *)
(* the caller is told that a post exists, or that none does and none can   *)
(* appear, only when that is so. Whatever is not known is told as unknown. *)
(* PublicationService settles its row with this answer (service.py:313).   *)
(***************************************************************************)
CONSTANT Calls

VARIABLES
    wire,   \* what LinkedIn made of the create request of each call
    told    \* how the call ended for its caller

exchangeVars == <<wire, told>>

Wires == {"none", "inflight", "accepted", "refused", "throttled"}
Ends  == {"none", "published", "pending", "failed", "unknown"}

ExchangeInit ==
    /\ wire = [c \in Calls |-> "none"]
    /\ told = [c \in Calls |-> "none"]

\* What the caller may be told while the request stands as it does.
Truthful(state) ==
    CASE state = "none"      -> {"unknown", "pending", "failed"}
      [] state = "inflight"  -> {"unknown"}
      [] state = "accepted"  -> {"unknown", "published"}
      [] state = "refused"   -> {"unknown", "failed"}
      [] state = "throttled" -> {"unknown", "pending"}

\* The request leaves, once, and only while its caller still waits.
Leave(c) ==
    /\ wire[c] = "none" /\ told[c] = "none"
    /\ wire' = [wire EXCEPT ![c] = "inflight"]
    /\ UNCHANGED told

\* LinkedIn decides, at any later time: the caller may have given up.
Decide(c) ==
    /\ wire[c] = "inflight"
    /\ \E state \in {"accepted", "refused", "throttled"} :
          wire' = [wire EXCEPT ![c] = state]
    /\ UNCHANGED told

Tell(c) ==
    /\ told[c] = "none"
    /\ \E end \in Truthful(wire[c]) : told' = [told EXCEPT ![c] = end]
    /\ UNCHANGED wire

ExchangeNext == \E c \in Calls : Leave(c) \/ Decide(c) \/ Tell(c)

ExchangeSpec == ExchangeInit /\ [][ExchangeNext]_exchangeVars

-----------------------------------------------------------------------------
(***************************************************************************)
(* What follows for the caller, who settles a row with what it was told.   *)
(***************************************************************************)
ExchangeTypeOK ==
    /\ wire \in [Calls -> Wires]
    /\ told \in [Calls -> Ends]

\* What a caller was told stays true, whatever LinkedIn decides afterwards: a row
\* is published only over a post, and put back or failed only where there is no
\* post and none can appear any more (service.py:313).
StaysTrue == \A c \in Calls : told[c] # "none" => told[c] \in Truthful(wire[c])
=============================================================================
