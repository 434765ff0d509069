------------------------------ MODULE MCTransfer ------------------------------
(* Two series in two tables; two points of the first share a bucket.  The maps: *)
(* a wildcard, an exact key before it whose sensor is gone, two keys that become *)
(* the same beside a hand-written id that is no UUID, and no mapping.  The device *)
(* is called "d.p", so that reading "p.x" of a device "d" has a key that becomes  *)
(* that of its reading "x".                                                       *)
EXTENDS Transfer

MCPoints ==
  {[table |-> "t1", series |-> "x", time |-> 0], [table |-> "t1", series |-> "x", time |-> 1],
   [table |-> "t2", series |-> "y", time |-> 1]}
MCTables == <<"t1", "t2">>
MCExact == [x |-> "d.p.x", y |-> "d.p.y"]
MCWildcard == [x |-> "d.p.*", y |-> "d.p.*"]
MCDevice == [x |-> "d.p", y |-> "d.p"]
MCNormal == [k \in {"d.p:*", "d.p:x", "d:p.x", "d:p"} |->
               CASE k = "d.p:*" -> "d.p.*" [] k = "d:p" -> "d.p" [] OTHER -> "d.p.x"]
MCMaps ==
  {[k \in {"d.p:*"} |-> "s1"],
   [k \in {"d.p:*", "d.p:x"} |-> IF k = "d.p:x" THEN "" ELSE "s1"],
   [k \in {"d:p", "d.p:x", "d:p.x"} |-> IF k = "d.p:x" THEN "s2" ELSE "bad"], << >>}
==============================================================================
