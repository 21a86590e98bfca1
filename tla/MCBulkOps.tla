----------------------------- MODULE MCBulkOps -----------------------------
(* Instances of BulkOps for TLC: three items, batches and pages of two.    *)
EXTENDS BulkOps

CONSTANTS i1, i2, i3, l1, l2, n1, n2

MCItem == {i1, i2, i3}
MCLabel == {l1, l2}

(* Groups named by name, by ID and a system group.                         *)
MCGiven == {n1, l1, System}

(* No label; one; two with the names that commands are given.              *)
MCBefore == {[l \in MCLabel |-> None],
             [l \in MCLabel |-> IF l = l1 THEN n1 ELSE None],
             [l \in MCLabel |-> IF l = l1 THEN n1 ELSE n2]}

(* One ID; a batch and a half, with an ID that is given twice.             *)
MCIdLists == {<<i1>>, <<i1, i1, i2>>}
=============================================================================
