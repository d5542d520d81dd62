---------------------------- MODULE MC_QsMarshal ----------------------------
(***************************************************************************)
(* QsMarshal over a small IDL type universe: one type of each classifier  *)
(* branch, a typedef and a typedef of a typedef, and every member of up   *)
(* to two parameters over the argument types, in each of the ways a        *)
(* customMethodCalls entry can take it over.                               *)
(***************************************************************************)
EXTENDS QsMarshal

Builtin(n, ptr) == [kind |-> "builtin", name |-> n, real |-> NONE, special |-> "", ptr |-> ptr]
Native(n, sp) == [kind |-> "native", name |-> n, real |-> NONE, special |-> sp, ptr |-> FALSE]
Iface(n, k) == [kind |-> k, name |-> n, real |-> NONE, special |-> "", ptr |-> FALSE]
Typedef(n, r) == [kind |-> "typedef", name |-> n, real |-> r, special |-> "", ptr |-> FALSE]

MCTypeInfo ==
  [t \in {"void", "boolean", "short", "unsigned long", "long long", "double"} |-> Builtin(t, FALSE)]
  @@ [t \in {"string"} |-> Builtin(t, TRUE)]
  @@ ("DOMString" :> Native("DOMString", "domstring")
      @@ "ACString" :> Native("ACString", "cstring")
      @@ "jsval" :> Native("jsval", "jsval"))
  @@ [t \in {"nsIVariant", "nsIAtom", "nsIDOMNode"} |-> Iface(t, "interface")]
  @@ ("nsIFwd" :> Iface("nsIFwd", "forward")
      @@ "PRUint32" :> Typedef("PRUint32", "unsigned long")
      @@ "PRSize" :> Typedef("PRSize", "PRUint32"))

MCTypes == DOMAIN MCTypeInfo

\* How a member's stub name can appear in customMethodCalls: absent (the
\* generated call, canFail), or an override that can or cannot fail.
Overrides == {[custom |-> FALSE, canFail |-> TRUE],
              [custom |-> TRUE, canFail |-> FALSE],
              [custom |-> TRUE, canFail |-> TRUE]}

ParamTypes == {"boolean", "unsigned long", "string", "DOMString", "nsIVariant",
               "nsIAtom", "nsIDOMNode", "PRSize", "long long"}
Params == [type : ParamTypes, optional : BOOLEAN]

MCCandidates ==
  {[kind |-> "method", type |-> r, params |-> ps, readonly |-> FALSE,
    custom |-> o.custom, canFail |-> o.canFail] :
     r \in MCTypes, ps \in BoundedSeq(Params, 2), o \in Overrides}
  \cup
  {[kind |-> "attribute", type |-> r, params |-> <<>>, readonly |-> ro,
    custom |-> o.custom, canFail |-> o.canFail] :
     r \in MCTypes \ {"void"}, ro \in BOOLEAN, o \in Overrides}
====
