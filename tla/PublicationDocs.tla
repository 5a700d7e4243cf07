--------------------------- MODULE PublicationDocs ---------------------------
(***************************************************************************)
(* Sentences of the repository's documentation and comments, stated of     *)
(* Publication as written. Each is refuted by a run of its own: the        *)
(* behaviours of the code are wider than the sentence.                     *)
(***************************************************************************)
EXTENDS Publication

\* service.py:289: "every gate, re-read at the last possible moment": no send is
\* authorized against what the ledger says at that moment, be it an approval that
\* is revoked (store.py:168: "only while not revoked") or publishing that is
\* disabled (service.py:369: "Re-check approval, window, kill switch").
GatesAreReread ==
    [][\A w \in Workers :
          /\ pc[w] = "gate" /\ pc'[w] \in {"commit", "grant"} =>
                 approval[cur[w]].revokedAt = Never
          /\ pc[w] = "gate" /\ pc'[w] = "commit" => enabled]_vars

\* cli.py:543: a grant "licenses a single send so that the capability can be
\* enabled afterwards": a tick that finds nothing due but publications that are
\* approved and granted takes them, though their capability is not enabled yet.
CanaryIsTaken ==
    [][\A w \in Workers :
          /\ pc[w] = "due" /\ pc'[w] # "due"
          /\ Due(moment[w]) # {}
          /\ \A p \in Due(moment[w]) :
                ApprovalActive(p, moment[w]) /\ GrantUsable(p, moment[w])
          => pc'[w] = "batch"]_vars

\* service.py:179: a tick is to "Publish every approved, due record": it takes
\* every record that is due and approved as long as they fit on its page.
ApprovedIsTaken ==
    [][\A w \in Workers :
          LET wanted == {p \in Due(moment[w]) : ApprovalActive(p, moment[w])} IN
          pc[w] = "due" /\ pc'[w] = "batch" /\ Cardinality(wanted) <= Limit =>
              wanted \X {"pending"} \subseteq todo'[w]]_vars
=============================================================================
