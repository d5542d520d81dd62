------------------------------- MODULE QsStubs -------------------------------
(***************************************************************************)
(* The stub writers of qsgen.py: writeStubFile's loop over the interfaces  *)
(* (lines 1466-1467), writeStubsForInterface (1234-1270) and the writers   *)
(* it calls: writeAttrStubs, writeMethodStub, writeTraceableStub,          *)
(* writeQuickStub (649-891) and writeTraceableQuickStub (1094-1201).       *)
(*                                                                         *)
(* The C++ text is abstracted to the definitions it contains: a function   *)
(* or spec table is a record of its name, the names it calls, the custom   *)
(* code it runs (the config key the code came from) and the member whose   *)
(* signature it was generated from.  The config's customMethodCalls is     *)
(* `custom` (the stub names with a per-member override) and `template`     *)
(* (the interfaces with an "Iface_" override); the "<T>_generated" keys    *)
(* writeQuickStub stores into the template's dict are `generated`.         *)
(*                                                                         *)
(* Before the stubs, writeStubFile collects the result types of every      *)
(* stubbed member (1436-1463) and writeResultXPCInterfacesArray (1278-    *)
(* 1301) declares one interfaces[] slot k_T per type; each definition      *)
(* records the slots its result conversion indexes (lines 617, 1084).      *)
(* The #include lines and the slot numbers are text and are left out.      *)
(***************************************************************************)
EXTENDS Naturals, Sequences, SequencesExt, FiniteSets

CONSTANTS
  Interfaces,     \* readConfigFile's interfaces, in discovery order
  Members,        \* IDL members that may be stubbed
  IfaceOf,        \* member.iface
  Info,           \* [kind, readonly, traceable, badParam] per member
  StubChoices,    \* possible iface.stubMembers, a set of functions
  CustomChoices,  \* stub names a config may give a per-member override
  TypeInfo,       \* [kind, real] of each IDL type name (real: a typedef's type)
  NONE

VARIABLES
  stubMembers,    \* iface.stubMembers
  template,       \* customMethodCalls has an "Iface_" entry
  custom,         \* customMethodCalls has an entry for this stub name
  phase,          \* "results" (lines 1460-1461) or "stubs" (1466-1467)
  resulttypes,    \* resulttypes of writeStubFile
  cache,          \* the k_T slots writeResultXPCInterfacesArray declared
  k, n,           \* the interface and member loops
  generated,      \* template names marked "<T>_generated"
  specs,          \* propspecs, funcspecs, tracespecs of the current interface
  tables,         \* the spec tables written for each interface
  out,            \* the definitions written to the stub file, in order
  outcome

vars == <<stubMembers, template, custom, phase, resulttypes, cache, k, n, generated,
          specs, tables, out, outcome>>
fileVars == <<phase, resulttypes, cache>>

IfSet == ToSet(Interfaces)

StubName(m, acc) == <<"stub", m, acc>>   \* Iface_Method, Iface_GetX, Iface_SetX
TemplateName(i, acc) == <<"tmpl", i, acc>>   \* Iface, Iface_Get, Iface_Set
TnName(m) == <<"tn", m, "call">>
TrcinfoName(m) == <<"trcinfo", m, "call">>
TableName(i, t) == <<"table", i, t>>
GetterOnly == <<"ext", "js_GetterOnlyPropertyStub", "set">>

Fn(name, calls, runs, arg) ==
  [name |-> name, calls |-> calls, runs |-> runs, arg |-> arg, cache |-> {}]

\* Lines 135-139.
RECURSIVE UnaliasType(_)
UnaliasType(t) == IF TypeInfo[t].kind = "typedef" THEN UnaliasType(TypeInfo[t].real) ELSE t

\* Lines 145-148, 150-158, 590-591.
IsInterfaceType(t) == TypeInfo[UnaliasType(t)].kind \in {"interface", "forward"}
IsVariantType(t) == IsInterfaceType(t) /\ UnaliasType(t) = "nsIVariant"

\* Lines 609-620 (writeResultConv) and 1076-1084 (writeTraceableResultConv):
\* an interface result other than nsIVariant is wrapped through the slot
\* k_<type.name> of the member's own, unresolved, result type.
ResultCacheRef(t) == IF IsInterfaceType(t) /\ ~IsVariantType(t) THEN {t} ELSE {}

\* Lines 881-882 and 1192: a body that ends in its result conversion.
Converting(f, m) == [f EXCEPT !.cache = ResultCacheRef(Info[m].result)]

NoSpecs == [props |-> <<>>, funcs |-> <<>>, traces |-> <<>>]

\* Lines 714-887: the body of function `name`, generated for accessor acc
\* of m and running `code`.  A method's parameters go through
\* validateParam (line 793) while the body is being written; a rejected
\* one raises UserError and the function is left unfinished.
Body(st, name, m, acc, code) ==
  IF acc = "call" /\ Info[m].badParam
  THEN [st EXCEPT !.failed = TRUE]
  ELSE [st EXCEPT !.out = Append(@, IF acc = "set" THEN Fn(name, {}, code, m)
                                    ELSE Converting(Fn(name, {}, code, m), m))]

\* Mutant: the forwarding stub is written before the template body.
WriteQuickStub_wrapperFirst(st, m, acc) ==
  LET sn == StubName(m, acc)
      tn == TemplateName(IfaceOf[m], acc)
      wrap == Fn(sn, {tn}, NONE, m)
  IN IF sn \in custom THEN Body(st, sn, m, acc, sn)
     ELSE IF template[IfaceOf[m]] /\ tn \in st.gen
       THEN [st EXCEPT !.out = Append(@, wrap)]
     ELSE IF template[IfaceOf[m]]
       THEN Body([st EXCEPT !.gen = @ \cup {tn}, !.out = Append(@, wrap)], tn, m, acc, tn)
     ELSE Body(st, sn, m, acc, NONE)

\* Mutant: the "_generated" marker is never stored.
WriteQuickStub_noMarker(st, m, acc) ==
  LET sn == StubName(m, acc)
      tn == TemplateName(IfaceOf[m], acc)
      wrap == Fn(sn, {tn}, NONE, m)
  IN IF sn \in custom THEN Body(st, sn, m, acc, sn)
     ELSE IF template[IfaceOf[m]] /\ tn \in st.gen
       THEN [st EXCEPT !.out = Append(@, wrap)]
     ELSE IF template[IfaceOf[m]]
       THEN LET b == Body(st, tn, m, acc, tn)
            IN IF b.failed THEN b ELSE [b EXCEPT !.out = Append(@, wrap)]
     ELSE Body(st, sn, m, acc, NONE)

\* Mutant: one "_generated" marker per interface, not per template name.
WriteQuickStub_ifaceMarker(st, m, acc) ==
  LET sn == StubName(m, acc)
      tn == TemplateName(IfaceOf[m], acc)
      wrap == Fn(sn, {tn}, NONE, m)
      marked == \E a \in {"call", "get", "set"} : TemplateName(IfaceOf[m], a) \in st.gen
  IN IF sn \in custom THEN Body(st, sn, m, acc, sn)
     ELSE IF template[IfaceOf[m]] /\ marked
       THEN [st EXCEPT !.out = Append(@, wrap)]
     ELSE IF template[IfaceOf[m]]
       THEN LET b == Body([st EXCEPT !.gen = @ \cup {tn}], tn, m, acc, tn)
            IN IF b.failed THEN b ELSE [b EXCEPT !.out = Append(@, wrap)]
     ELSE Body(st, sn, m, acc, NONE)

\* Lines 666-712 and 889-891.  A per-member override is looked up first;
\* else an interface template: the first member using it writes the
\* template body (marking it generated), and every member then gets a stub
\* forwarding to it with its own native name; else a generic stub.
WriteQuickStub(st, m, acc) ==
  LET sn == StubName(m, acc)
      tn == TemplateName(IfaceOf[m], acc)
      wrap == Fn(sn, {tn}, NONE, m)
  IN IF sn \in custom THEN Body(st, sn, m, acc, sn)
     ELSE IF template[IfaceOf[m]] /\ tn \in st.gen
       THEN [st EXCEPT !.out = Append(@, wrap)]
     ELSE IF template[IfaceOf[m]]
       THEN LET b == Body([st EXCEPT !.gen = @ \cup {tn}], tn, m, acc, tn)
            IN IF b.failed THEN b ELSE [b EXCEPT !.out = Append(@, wrap)]
     ELSE Body(st, sn, m, acc, NONE)

\* Mutant: the FASTCALL function is given the generic stub's name.
WriteTraceableQuickStub_noSuffix(st, m) ==
  LET sn == StubName(m, "call") IN
  IF Info[m].badParam THEN [st EXCEPT !.failed = TRUE]
  ELSE [st EXCEPT !.out = @ \o <<Fn(sn, {}, IF sn \in custom THEN sn ELSE NONE, m),
                                 Fn(TrcinfoName(m), {sn}, NONE, m)>>]

\* Lines 1094-1201: the "_tn" FASTCALL stub validates every parameter
\* (line 1149) and runs only a per-member override (line 1104); then the
\* JS_DEFINE_TRCINFO naming the generic stub and the "_tn" stub.
WriteTraceableQuickStub(st, m) ==
  LET sn == StubName(m, "call") IN
  IF Info[m].badParam THEN [st EXCEPT !.failed = TRUE]
  ELSE [st EXCEPT !.out = @ \o <<Converting(Fn(TnName(m), {}, IF sn \in custom THEN sn ELSE NONE, m), m),
                                 Fn(TrcinfoName(m), {sn, TnName(m)}, NONE, m)>>]

\* Lines 1203-1212: the getter, then the setter unless the attribute is
\* readonly (its setter is the runtime's js_GetterOnlyPropertyStub).
WriteAttrStubs(st, m) ==
  LET g == WriteQuickStub(st, m, "get")
  IN IF Info[m].readonly THEN g ELSE WriteQuickStub(g, m, "set")

\* Lines 1214-1216, 1222, 1229-1231: the spec table entry of a member.
AttrSpec(m) ==
  [member |-> m,
   fns |-> {StubName(m, "get"), IF Info[m].readonly THEN GetterOnly ELSE StubName(m, "set")}]
MethodSpec(m) == [member |-> m, fns |-> {StubName(m, "call")}]
TraceSpec(m) == [member |-> m, fns |-> {TrcinfoName(m)}]

\* Lines 1254-1269: a table is written only if it has entries.
TableFns(i, s) ==
  SelectSeq(<<Fn(TableName(i, "props"), UNION {e.fns : e \in ToSet(s.props)}, NONE, NONE),
              Fn(TableName(i, "funcs"), UNION {e.fns : e \in ToSet(s.funcs)}, NONE, NONE),
              Fn(TableName(i, "traces"), UNION {e.fns : e \in ToSet(s.traces)}, NONE, NONE)>>,
            LAMBDA f : f.calls # {})

Init ==
  /\ stubMembers \in StubChoices
  /\ template \in [IfSet -> BOOLEAN]
  /\ custom \in SUBSET CustomChoices
  /\ phase = "results"
  /\ resulttypes = {}
  /\ cache = {}
  /\ k = 1
  /\ n = 1
  /\ generated = {}
  /\ specs = NoSpecs
  /\ tables = [i \in IfSet |-> NoSpecs]
  /\ out = <<>>
  /\ outcome = "running"

\* Lines 1426-1434, 1436-1441: includeType resolves typedefs and gives None
\* for a builtin or native type; line 1449 leaves nsIVariant out.
ResultTypeOf(m) ==
  LET t == UnaliasType(Info[m].result)
  IN IF TypeInfo[t].kind \in {"builtin", "native"} \/ IsVariantType(t) THEN {} ELSE {t}

\* Mutant: writeIncludesForMember takes the result type of methods only.
ResultTypesOf_methodsOnly(i) ==
  UNION {ResultTypeOf(m) : m \in {x \in ToSet(stubMembers[i]) : Info[x].kind = "method"}}

\* Lines 1443-1453: writeIncludesForInterface over iface.stubMembers.
ResultTypesOf(i) == UNION {ResultTypeOf(m) : m \in ToSet(stubMembers[i])}

\* Lines 1460-1461: one interface's result types per step.
CollectResultTypes ==
  /\ phase = "results"
  /\ k <= Len(Interfaces)
  /\ resulttypes' = resulttypes \cup ResultTypesOf(Interfaces[k])
  /\ k' = k + 1
  /\ UNCHANGED <<stubMembers, template, custom, phase, cache, n, generated, specs, tables, out, outcome>>

\* Lines 1463, 1278-1301: one slot per collected type, declared above the
\* stubs; then the loop of line 1466 starts.
WriteResultCache ==
  /\ phase = "results"
  /\ k > Len(Interfaces)
  /\ cache' = resulttypes
  /\ phase' = "stubs"
  /\ k' = 1
  /\ UNCHANGED <<stubMembers, template, custom, resulttypes, n, generated, specs, tables, out, outcome>>

St == [out |-> out, gen |-> generated, failed |-> FALSE]

\* Line 1239: the member the loop of writeStubsForInterface is at.
InMember ==
  /\ phase = "stubs"
  /\ outcome = "running"
  /\ k <= Len(Interfaces)
  /\ n <= Len(stubMembers[Interfaces[k]])

Cur == stubMembers[Interfaces[k]][n]

\* Lines 1240-1242.
WriteAttrMember ==
  /\ InMember
  /\ Info[Cur].kind = "attribute"
  /\ LET r == WriteAttrStubs(St, Cur) IN
       /\ out' = r.out
       /\ generated' = r.gen
  /\ specs' = [specs EXCEPT !.props = Append(@, AttrSpec(Cur))]
  /\ n' = n + 1
  /\ UNCHANGED <<fileVars, stubMembers, template, custom, k, tables, outcome>>

\* Lines 1243-1244, 1248-1249: a method the fast path does not take.
WriteMethodMember ==
  /\ InMember
  /\ Info[Cur].kind = "method"
  /\ ~Info[Cur].traceable
  /\ LET r == WriteQuickStub(St, Cur, "call") IN
       /\ out' = r.out
       /\ generated' = r.gen
       /\ \/ /\ r.failed
             /\ outcome' = "UserError"
             /\ UNCHANGED <<specs, n>>
          \/ /\ ~r.failed
             /\ specs' = [specs EXCEPT !.funcs = Append(@, MethodSpec(Cur))]
             /\ n' = n + 1
             /\ UNCHANGED outcome
  /\ UNCHANGED <<fileVars, stubMembers, template, custom, k, tables>>

\* Lines 1243-1247: a traceable method gets the generic stub, then the
\* fast-path stub, and is listed only among the traceables.
WriteTraceableMember ==
  /\ InMember
  /\ Info[Cur].kind = "method"
  /\ Info[Cur].traceable
  /\ LET g == WriteQuickStub(St, Cur, "call")
         r == IF g.failed THEN g ELSE WriteTraceableQuickStub(g, Cur)
     IN /\ out' = r.out
        /\ generated' = r.gen
        /\ \/ /\ r.failed
              /\ outcome' = "UserError"
              /\ UNCHANGED <<specs, n>>
           \/ /\ ~r.failed
              /\ specs' = [specs EXCEPT !.traces = Append(@, TraceSpec(Cur))]
              /\ n' = n + 1
              /\ UNCHANGED outcome
  /\ UNCHANGED <<fileVars, stubMembers, template, custom, k, tables>>

\* Lines 1254-1270, then the next interface of line 1466.
EndInterface ==
  /\ phase = "stubs"
  /\ outcome = "running"
  /\ k <= Len(Interfaces)
  /\ n > Len(stubMembers[Interfaces[k]])
  /\ out' = out \o TableFns(Interfaces[k], specs)
  /\ tables' = [tables EXCEPT ![Interfaces[k]] = specs]
  /\ specs' = NoSpecs
  /\ k' = k + 1
  /\ n' = 1
  /\ UNCHANGED <<fileVars, stubMembers, template, custom, generated, outcome>>

\* Line 1468: every interface written; writeDefiner follows.
Finish ==
  /\ phase = "stubs"
  /\ outcome = "running"
  /\ k > Len(Interfaces)
  /\ outcome' = "ok"
  /\ UNCHANGED <<fileVars, stubMembers, template, custom, k, n, generated, specs, tables, out>>

Next ==
  \/ CollectResultTypes
  \/ WriteResultCache
  \/ WriteAttrMember
  \/ WriteMethodMember
  \/ WriteTraceableMember
  \/ EndInterface
  \/ Finish

Spec == Init /\ [][Next]_vars /\ WF_vars(Next)

-----------------------------------------------------------------------------
Stubbed == UNION {ToSet(stubMembers[i]) : i \in IfSet}

Accessors(m) ==
  IF Info[m].kind = "method" THEN {"call"}
  ELSE IF Info[m].readonly THEN {"get"} ELSE {"get", "set"}

\* The stub of accessor acc of m forwards to its interface's template.
UsesTemplate(m, acc) == template[IfaceOf[m]] /\ StubName(m, acc) \notin custom

DefinedAt(nm) == {p \in 1..Len(out) : out[p].name = nm}

Names == {StubName(m, a) : m \in Members, a \in {"call", "get", "set"}}
           \cup {TemplateName(i, a) : i \in IfSet, a \in {"call", "get", "set"}}
           \cup {TnName(m) : m \in Members} \cup {TrcinfoName(m) : m \in Members}
           \cup {TableName(i, t) : i \in IfSet, t \in {"props", "funcs", "traces"}}

TypeOK ==
  /\ k \in 1..(Len(Interfaces) + 1)
  /\ generated \subseteq {TemplateName(i, a) : i \in IfSet, a \in {"call", "get", "set"}}
  /\ \A p \in 1..Len(out) :
       /\ out[p].name \in Names
       /\ out[p].calls \subseteq Names \cup {GetterOnly}
       /\ out[p].runs \in CustomChoices \cup generated \cup {NONE}
  /\ outcome \in {"running", "ok", "UserError"}
  /\ phase \in {"results", "stubs"}
  /\ cache \subseteq DOMAIN TypeInfo
  /\ \A p \in 1..Len(out) : out[p].cache \subseteq DOMAIN TypeInfo

\* No two definitions written to the stub file share a name: the generic
\* stub, the "_tn" fast-path stub, the template body and the forwarding
\* stubs of writeQuickStub are distinct C++ functions (a repeated name is
\* a redefinition the compiler rejects).
EachDefinedOnce ==
  \A p, q \in 1..Len(out) : p # q => out[p].name # out[q].name

\* Every function or spec table written names only functions written
\* above it, or the runtime's js_GetterOnlyPropertyStub: the stubs are
\* static, so writeQuickStub must write a template body before the first
\* stub forwarding to it, and the JS_DEFINE_TRCINFO after both stubs.
DefinedBeforeUse ==
  \A p \in 1..Len(out) : \A c \in out[p].calls :
    c = GetterOnly \/ \E q \in 1..(p - 1) : out[q].name = c

\* Spec section 8, scenario 5, against writeQuickStub's "_generated"
\* marker: once the stubs are written, each interface template an accessor
\* uses has exactly one body, and that accessor's stub forwards to it with
\* the member's own native name.
SharedTemplateForwarding ==
  outcome = "ok" =>
    \A m \in Stubbed : \A acc \in Accessors(m) : UsesTemplate(m, acc) =>
      /\ Cardinality(DefinedAt(TemplateName(IfaceOf[m], acc))) = 1
      /\ \E p \in 1..Len(out) :
           out[p] = Fn(StubName(m, acc), {TemplateName(IfaceOf[m], acc)}, NONE, m)

\* Spec section 4.2: a parameter with iid_is, size_is or out semantics is a
\* fatal configuration error.  validateParam is called only while a stub
\* body is written (lines 793, 1149): a run that finishes has stubbed no
\* method with such a parameter.
DisallowedParamRejected ==
  outcome = "ok" => \A m \in Stubbed : ~Info[m].badParam

\* Every interfaces[] slot k_T that a result conversion written to the stub
\* file indexes (writeResultConv line 617, writeTraceableResultConv line
\* 1084) was declared by writeResultXPCInterfacesArray above the stubs,
\* from the result types writeStubFile collected over every stubbed member
\* (lines 1436-1463).  An undeclared k_T does not compile.
ResultCacheDeclared ==
  \A p \in 1..Len(out) : out[p].cache \subseteq cache
====
