------------------------------ MODULE MCMarket ------------------------------
(* Two commands at a time, on two apps of one version, or on one app of    *)
(* two versions.                                                           *)
EXTENDS Market, Naturals, TLC

CONSTANTS c1, c2, a1, a2, v1, v2

MCWorker == {c1, c2}
MCApp == {a1, a2}
OneApp == {a1}
MCVersion == {v1, v2}
AllSymmetry == Permutations(MCWorker) \cup Permutations(MCApp) \cup Permutations(MCVersion)

UsesApp(a) == \/ \E c \in Worker : app[c] = a
              \/ script[a] # None \/ info[a] # None
              \/ \E v \in Version : effect[a][v] # "none"
UsesVersion(v) == \/ \E c \in Worker : package[c] = v
                  \/ \E a \in App : v \in {script[a], info[a]} \/ effect[a][v] # "none"

\* Bound: two apps, or two versions, but not both.
TwoOfOne == \/ Cardinality({a \in App : UsesApp(a)}) <= 1
            \/ Cardinality({v \in Version : UsesVersion(v)}) <= 1
=============================================================================
