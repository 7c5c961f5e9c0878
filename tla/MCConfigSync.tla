---------------------------- MODULE MCConfigSync ----------------------------
(* Instances of ConfigSync for TLC: a connector's cid is its primary key.  *)
EXTENDS ConfigSync, TLC

CONSTANTS w1, w2, t1, t2, x, y

MCWorkspace == {w1, w2}
MCRequest   == {t1, t2}
MCCharges   == {<<x, y>>}
MCCidOf     == [r \in 1..MaxRows |-> r]

Symmetry == Permutations(MCWorkspace) \cup Permutations(MCRequest)
====
