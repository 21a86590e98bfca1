------------------------------ MODULE MCSessions ------------------------------
(* Instances of Sessions for TLC: the profiles "default" (d) with the      *)
(* accounts a and c, and "work" (w) with the account b.                    *)
EXTENDS Sessions

CONSTANTS d, w, a, b, c

MCProfile == {d, w}
MCAccount == {a, b, c}
MCOf == [x \in MCAccount |-> IF x = b THEN w ELSE d]
AnySelect == {None, d, w}
=============================================================================
