------------------------------- MODULE MCHydrator -------------------------------
(* Small instances of Hydrator for TLC.                                       *)
EXTENDS Hydrator

CONSTANTS i1, i2, s1, s2, hook

\* Every kind, with itself where batches or the hook matter, and next to a kind
\* that fares otherwise.
KindPairs == {<<"block", "block">>, <<"pdf", "asset">>, <<"media", "channel">>,
              <<"lesson", "course">>,
              <<"certificate", "certificate">>}

\* Passes of either length, and neither a key nor a store.
Settings == {<<TRUE, TRUE, TRUE>>, <<TRUE, TRUE, FALSE>>, <<FALSE, FALSE, TRUE>>}

SmallInit ==
    /\ Init
    /\ <<kind[i1], kind[i2]>> \in KindPairs
    /\ <<env.key, env.store, env.prompt>> \in Settings
SmallSpec == SmallInit /\ [][Next]_vars /\ Fairness
================================================================================
