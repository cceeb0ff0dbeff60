--------------------------- MODULE MCBudgetLedger ---------------------------
(* Small instances of BudgetLedger for TLC. *)
EXTENDS BudgetLedgerInvariant, TLC

\* Identities are interchangeable: only equality of handlers, rows, tokens and keys is
\* ever tested.  Commands, previews and keys are numbered and are never given back, so
\* that it is enough to let each be taken when the one before it was.
FirstUnused(S) == \A n \in S : n = 1 \/ n - 1 \in S

InOrder ==
    /\ FirstUnused(Created)
    /\ FirstUnused({req[c].key : c \in Created})
    /\ FirstUnused({v \in Previews : preview[v] # NoPreview})

\* A preview that expires after it served differs from one that does not by what can no
\* longer be done with it.
ExpiresUnused == \A c \in Created : preview'[req[c].preview] = preview[req[c].preview]

Used == {req[c].preview : c \in Created}

\* The next preview is asked for when the one before it was confirmed or has expired.
OnePending ==
    \A v, w \in Previews : v # w /\ preview[v] # NoPreview /\ preview[w] # NoPreview =>
        \E u \in {v, w} : u \in Used \/ preview[u].state = "expired"

Ordered == InOrder' /\ ExpiresUnused /\ OnePending'

OrderedSpec == Init /\ [][Next /\ Ordered]_vars

\* The others are left to TLC.  Used by the safety runs alone.
Symmetry == Permutations(Procs) \cup Permutations(Values)
=============================================================================
