----------------------------- MODULE MC_QsStubs -----------------------------
(* Two interfaces whose members cover every branch of the stub writers: a   *)
(* traceable method, a method with an out parameter, a writable and a       *)
(* readonly attribute, a traceable method with an out parameter and a       *)
(* plain method.  Their result types are an interface, a forward           *)
(* declaration, nsIVariant and a builtin, some shared between members.     *)
EXTENDS QsStubs

CONSTANTS I1, I2, m1, m2, a1, a2, m3, m4

Mth(tr, bad, r) ==
  [kind |-> "method", readonly |-> FALSE, traceable |-> tr, badParam |-> bad, result |-> r]
Att(ro, r) ==
  [kind |-> "attribute", readonly |-> ro, traceable |-> FALSE, badParam |-> FALSE, result |-> r]

T(kind, real) == [kind |-> kind, real |-> real]

MCTypeInfo ==
  ("void" :> T("builtin", NONE)) @@ ("PRInt32" :> T("typedef", "long"))
  @@ ("long" :> T("builtin", NONE)) @@ ("DOMString" :> T("native", NONE))
  @@ ("nsIVariant" :> T("interface", NONE)) @@ ("nsIDOMNode" :> T("interface", NONE))
  @@ ("nsIDOMEvent" :> T("forward", NONE)) @@ ("nsIDOMNodeRef" :> T("typedef", "nsIDOMNode"))

MCInterfaces == <<I1, I2>>

MCIfaceOf == [m \in {m1, m2, a1, a2} |-> I1] @@ [m \in {m3, m4} |-> I2]

MCInfo ==
  (m1 :> Mth(TRUE, FALSE, "nsIDOMNode")) @@ (m2 :> Mth(FALSE, TRUE, "nsIDOMEvent"))
  @@ (a1 :> Att(FALSE, "nsIVariant")) @@ (a2 :> Att(TRUE, "nsIDOMEvent"))
  @@ (m3 :> Mth(TRUE, TRUE, "PRInt32")) @@ (m4 :> Mth(FALSE, FALSE, "nsIDOMNode"))

\* The same members, with the readonly attribute typed by a typedef of an
\* interface (xpidl accepts `typedef nsIDOMNode nsIDOMNodeRef;`).
MCInfoTypedefResult == [MCInfo EXCEPT ![a2].result = "nsIDOMNodeRef"]

\* iface.stubMembers: any order of up to 3 distinct members of I1, up to 2 of I2.
Orders(S, len) == {s \in BoundedSeq(S, len) : IsInjective(s)}

MCStubChoices ==
  {f \in [{I1, I2} -> Orders({m1, m2, a1, a2, m3, m4}, 3)] :
     /\ f[I1] \in Orders({m1, m2, a1, a2}, 3)
     /\ f[I2] \in Orders({m3, m4}, 2)}

MCCustomChoices ==
  {StubName(m1, "call"), StubName(a1, "set"), StubName(m2, "call")}
====
