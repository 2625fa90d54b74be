--------------------------- MODULE MCChannelSetup ---------------------------
EXTENDS ChannelSetup
\* One organization connects b1, b2 and the numbers n1 and n2, another one connects b1.
\* The app m1 has n1 and n3, which nobody connects but customers write to; m2 has n2.
MCOrgOf     == [r \in Requests |-> IF r = "r3" THEN "o2" ELSE "o1"]
MCAccountOf == [r \in Requests |-> CASE r = "r2" -> "b2" [] r = "w1" -> "n1"
                                     [] r = "w2" -> "n2" [] OTHER -> "b1"]
MCAppOf     == [n \in Numbers |-> IF n = "n2" THEN "m2" ELSE "m1"]
MCSentTo    == [u \in Updates |-> IF u = "u1" THEN "b1" ELSE "n3"]
=============================================================================
