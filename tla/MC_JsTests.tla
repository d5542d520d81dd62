----------------------------- MODULE MC_JsTests -----------------------------
(* Three tests of a manifest: a plain one, a random one expected to fail,   *)
(* and a slow disabled one, so that every filter can empty the selection   *)
(* and every LABELS category can be reached.                               *)
EXTENDS JsTests, TLC

CONSTANTS t1, t2, t3

MCInfo ==
  [t \in {t1} |-> [enable |-> TRUE, random |-> FALSE, slow |-> FALSE, expect |-> TRUE]]
  @@ [t \in {t2} |-> [enable |-> TRUE, random |-> TRUE, slow |-> FALSE, expect |-> FALSE]]
  @@ [t \in {t3} |-> [enable |-> FALSE, random |-> FALSE, slow |-> TRUE, expect |-> TRUE]]
====
