----------------------------- MODULE MCKibiMeta -----------------------------
(* Small instances of KibiMeta for TLC: one strategy shared by dashboards and  *)
(* buttons, as ui_setting_defaults.js configures it, or two of them.           *)
EXTENDS KibiMeta

CONSTANTS default, dashboards, buttons, id1, id2, q1, q2, q3

IndexOf == [q \in Queries |-> IF q = q1 THEN 1 ELSE 0]  \* q1 sorts after the others

All(n) == [s \in Strategies |-> n]
All1 == All(1)
All2 == All(2)
=============================================================================
