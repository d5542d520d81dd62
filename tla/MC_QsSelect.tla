---------------------------- MODULE MC_QsSelect ----------------------------
(***************************************************************************)
(* A schema exercising every branch of addStubMember and readConfigFile.   *)
(*   I1 (scriptable): m1 three required params (fast-path eligible),       *)
(*      m2 two params, last optional, a1 readonly nsIVariant attribute,    *)
(*      a2 noscript attribute, c1 a const.                                 *)
(*   I2 (scriptable): m3 four params, a3 writable nsIVariant attribute,    *)
(*      m5 notxpcom, m6 an unrecognized flag, m7 a parameter with one.     *)
(*   I3 is found but not scriptable; I4 has no .idl file.                  *)
(***************************************************************************)
EXTENDS QsSelect

CONSTANTS I1, I2, I3, I4, m1, m2, a1, a2, c1, m3, a3, m5, m6, m7, m4

P(opt, bad) == [optional |-> opt, unknownFlag |-> bad]
Req == P(FALSE, FALSE)

M(kind, params) ==
  [kind |-> kind, noscript |-> FALSE, notxpcom |-> FALSE, readonly |-> FALSE,
   variant |-> FALSE, unknownFlag |-> FALSE, params |-> params]

MCInfo ==
  ( m1 :> M("method", <<Req, Req, Req>>)
 @@ m2 :> M("method", <<Req, P(TRUE, FALSE)>>)
 @@ a1 :> [M("attribute", << >>) EXCEPT !.readonly = TRUE, !.variant = TRUE]
 @@ a2 :> [M("attribute", << >>) EXCEPT !.noscript = TRUE]
 @@ c1 :> M("const", << >>)
 @@ m3 :> M("method", <<Req, Req, Req, Req>>)
 @@ a3 :> [M("attribute", << >>) EXCEPT !.variant = TRUE]
 @@ m5 :> [M("method", << >>) EXCEPT !.notxpcom = TRUE]
 @@ m6 :> [M("method", <<Req>>) EXCEPT !.unknownFlag = TRUE]
 @@ m7 :> M("method", <<P(FALSE, TRUE)>>)
 @@ m4 :> M("method", << >>) )

MCMembersOf ==
  [i \in {I1, I2, I3, I4} |->
     CASE i = I1 -> <<m1, m2, a1, a2, c1>>
       [] i = I2 -> <<m3, a3, m5, m6, m7>>
       [] i = I3 -> <<m4>>
       [] i = I4 -> << >>]

S(i, m) == [form |-> "ok", iface |-> i, member |-> m]

MCSelectors ==
  { S(I1, Star), S(I1, m1), S(I1, m2), S(I1, a1), S(I1, a2), S(I1, c1),
    S(I1, NoSuch), S(I2, Star), S(I2, m3), S(I2, a3), S(I2, m6), S(I2, m7),
    S(I3, m4), S(I4, NoSuch), [form |-> "nodot", iface |-> I1, member |-> NoSuch] }
=============================================================================
