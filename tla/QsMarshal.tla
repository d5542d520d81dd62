------------------------------ MODULE QsMarshal ------------------------------
(***************************************************************************)
(* The type classifier and marshaling writers of qsgen.py (lines 135-168,  *)
(* 358-631, 893-1092) as they are driven for one member by writeQuickStub  *)
(* (649-891) and writeTraceableQuickStub (1094-1201).                      *)
(*                                                                         *)
(* The C++ text is abstracted to the events that matter: the argc check,   *)
(* each read of an argument (from argv directly, guarded by argc, or from  *)
(* *vp), the declarations and uses of `nsresult rv`, the "!; // TODO"      *)
(* placeholders, failed assertions, and the C type the fast-path stub      *)
(* declares and the one its result conversion returns.  The template       *)
(* tables are the sets of their keys.                                      *)
(***************************************************************************)
EXTENDS Naturals, Sequences, SequencesExt, FiniteSets

CONSTANTS
  Types,        \* IDL types
  TypeInfo,     \* [kind, name, real, special, ptr] per type
  Candidates,   \* members a config may select, one per initial state
  NONE

VARIABLES
  m,            \* the member being stubbed
  pc,           \* "validate", "stub", "trace", "done"
  bodies,       \* accessor -> events of its generic stub
  trace,        \* the fast-path stub
  outcome

vars == <<m, pc, bodies, trace, outcome>>

\* Lines 135-139.
RECURSIVE UnaliasType(_)
UnaliasType(t) ==
  IF TypeInfo[t].kind = "typedef" THEN UnaliasType(TypeInfo[t].real) ELSE t

\* Lines 145-148, 590-591.
IsInterfaceType(t) == TypeInfo[UnaliasType(t)].kind \in {"interface", "forward"}
IsVariantType(t) == IsInterfaceType(t) /\ TypeInfo[UnaliasType(t)].name = "nsIVariant"

\* Lines 160-168: the template key of a builtin or native type.
GetBuiltinOrNativeTypeName(t) ==
  LET u == TypeInfo[UnaliasType(t)] IN
  IF u.kind = "builtin" THEN u.name
  ELSE IF u.kind = "native" THEN "[" \o u.special \o "]"
  ELSE NONE

\* The keys of argumentUnboxingTemplates (358-422), resultConvTemplates
\* (548-588) and traceableArgumentConversionTemplates (955-985).
ArgumentUnboxingKeys ==
  {"short", "unsigned short", "long", "unsigned long", "float", "double",
   "boolean", "[astring]", "[domstring]", "string", "wstring", "[cstring]"}
ResultConvKeys ==
  {"void", "short", "long", "long long", "unsigned short", "unsigned long",
   "unsigned long long", "float", "double", "boolean", "[astring]", "[domstring]"}
TraceableArgumentKeys == ArgumentUnboxingKeys

\* Lines 893-930: traceTypeMap's C types, "_default" for any other key.
TraceTypeMap ==
  [k \in {"void", "boolean", "short", "unsigned short", "long", "unsigned long",
          "float", "double", "[astring]", "[domstring]", "[cstring]", "string",
          "wstring"} |->
     CASE k \in {"short", "long"} -> "int32"
       [] k \in {"unsigned short", "unsigned long"} -> "uint32"
       [] k = "boolean" -> "JSBool"
       [] k \in {"float", "double"} -> "jsdouble"
       [] k \in {"void"} -> "jsval"
       [] OTHER -> "JSString *"]
GetTraceType(key) == IF key \in DOMAIN TraceTypeMap THEN TraceTypeMap[key] ELSE "jsval"

\* Lines 1041-1064: the C type each traceableResultConvTemplates entry returns.
TraceableResultConv ==
  [k \in {"void", "short", "unsigned short", "long", "unsigned long", "boolean",
          "[domstring]", "[astring]"} |->
     CASE k \in {"short", "long"} -> "int32"
       [] k \in {"unsigned short", "unsigned long"} -> "uint32"
       [] k = "boolean" -> "JSBool"
       [] OTHER -> "jsval"]

\* Events of a written stub body.
Todo == <<"todo">>       \* a "!; // TODO" placeholder and its warning
DeclRv == <<"declRv">>   \* "nsresult rv;"
UseRv == <<"useRv">>     \* an assignment or test of rv
Failure == <<"assert">>   \* a failed Python assert: the run dies

\* Lines 441-451: where argument i is read from; i = NONE is a setter's *vp.
ReadFrom(i, optional) ==
  <<"read", i, IF i = NONE THEN "vp" ELSE IF optional THEN "guarded" ELSE "direct">>

\* Mutant: an interface argument does not report that it declared rv.
WriteArgumentUnboxing_forgetRv(acc, i, t, optional, haveCcx) ==
  LET key == GetBuiltinOrNativeTypeName(t) IN
  IF key # NONE
  THEN IF key \in ArgumentUnboxingKeys
       THEN [acc EXCEPT !.ev = @ \o <<ReadFrom(i, optional)>>]
       ELSE [acc EXCEPT !.ev = @ \o <<Todo>>]
  ELSE IF IsInterfaceType(t) /\ TypeInfo[t].name = "nsIVariant"
       THEN [acc EXCEPT !.ev = @ \o <<IF haveCcx THEN ReadFrom(i, optional) ELSE Failure>>]
  ELSE IF IsInterfaceType(t) /\ TypeInfo[t].name # "nsIAtom"
       THEN [acc EXCEPT !.ev = @ \o (IF acc.rv THEN <<>> ELSE <<DeclRv>>)
                                 \o <<UseRv, ReadFrom(i, optional)>>]
  ELSE [acc EXCEPT !.ev = @ \o <<Todo>>]

\* Lines 429-508: unbox argument i of type t into acc = [ev, rv], where rv
\* is the rvdeclared flag threaded through the calls.
WriteArgumentUnboxing(acc, i, t, optional, haveCcx) ==
  LET key == GetBuiltinOrNativeTypeName(t) IN
  IF key # NONE
  THEN IF key \in ArgumentUnboxingKeys
       THEN [acc EXCEPT !.ev = @ \o <<ReadFrom(i, optional)>>]
       ELSE [acc EXCEPT !.ev = @ \o <<Todo>>]
  ELSE IF IsInterfaceType(t) /\ TypeInfo[t].name = "nsIVariant"
       THEN [acc EXCEPT !.ev = @ \o <<IF haveCcx THEN ReadFrom(i, optional) ELSE Failure>>]
  ELSE IF IsInterfaceType(t) /\ TypeInfo[t].name # "nsIAtom"
       THEN [ev |-> acc.ev \o (IF acc.rv THEN <<>> ELSE <<DeclRv>>)
                           \o <<UseRv, ReadFrom(i, optional)>>,
             rv |-> TRUE]
  ELSE [acc EXCEPT !.ev = @ \o <<Todo>>]

\* Lines 510-533: a result variable can be declared.
CanDeclareResult(t) ==
  LET u == TypeInfo[UnaliasType(t)] IN
  \/ u.kind = "builtin" /\ ~u.ptr
  \/ u.kind = "native" /\ GetBuiltinOrNativeTypeName(t) \in {"[domstring]", "[astring]"}
  \/ u.kind \in {"interface", "forward"}

\* Lines 593-624: the result can be converted to a jsval.
CanConvertResult(t) ==
  \/ GetBuiltinOrNativeTypeName(t) \in ResultConvKeys
  \/ GetBuiltinOrNativeTypeName(t) = NONE /\ IsInterfaceType(t)

\* Lines 626-630.
AnyParamRequiresCcx(ps) == \E i \in 1..Len(ps) : IsVariantType(ps[i].type)

\* Mutant: every optional parameter is dropped from the argc check.
RequiredArgs_countRequired(ps, n) ==
  Cardinality({i \in 1..n : ~ps[i].optional})

\* Lines 779-781: the parameters up to the last required one.
RECURSIVE RequiredArgs(_, _)
RequiredArgs(ps, n) ==
  IF n > 0 /\ ps[n].optional THEN RequiredArgs(ps, n - 1) ELSE n

\* Lines 987-1039: the fast-path stub's argument i, passed as _arg<i>.
WriteTraceableArgumentConversion(acc, i, t, haveCcx) ==
  LET key == GetBuiltinOrNativeTypeName(t) IN
  IF key # NONE
  THEN IF key \in TraceableArgumentKeys
       THEN [acc EXCEPT !.ev = @ \o <<ReadFrom(i, FALSE)>>]
       ELSE [acc EXCEPT !.ev = @ \o <<Todo>>]
  ELSE IF IsInterfaceType(t) /\ TypeInfo[t].name = "nsIVariant"
       THEN [acc EXCEPT !.ev = @ \o <<IF haveCcx THEN ReadFrom(i, FALSE) ELSE Failure>>]
  ELSE IF IsInterfaceType(t) /\ TypeInfo[t].name # "nsIAtom"
       THEN [ev |-> acc.ev \o (IF acc.rv THEN <<>> ELSE <<DeclRv>>)
                           \o <<UseRv, ReadFrom(i, FALSE)>>,
             rv |-> TRUE]
  ELSE [acc EXCEPT !.ev = @ \o <<Todo>>]

\* Lines 223-240 with --enable-traceables: addStubMember's mayTrace.
Traceable(mm) ==
  mm.kind = "method" /\ Len(mm.params) <= 3 /\ \A i \in 1..Len(mm.params) : ~mm.params[i].optional

\* Mutant: the check is written even when no argument is required.
ArgcCheck_always(r) == <<<<"argc", r>>>>

\* Lines 782-785: "if (argc < r) return xpc_qsThrow(...)" when r > 0.
ArgcCheck(r) == IF r > 0 THEN <<<<"argc", r>>>> ELSE <<>>

\* Lines 1207, 1212: the accessors writeAttrStubs/writeMethodStub write.
Accessors(mm) ==
  IF mm.kind = "method" THEN {"call"}
  ELSE IF mm.readonly THEN {"get"} ELSE {"get", "set"}

\* Lines 732, 777-884: the body writeQuickStub writes for accessor acc of
\* member mm (a generic stub, or one running the member's own override).
GenericStub(mm, acc) ==
  LET ps == IF acc = "call" THEN mm.params ELSE <<>>
      haveCcx == acc = "call" /\ AnyParamRequiresCcx(ps)
      r == RequiredArgs(ps, Len(ps))
      base == [ev |-> IF acc = "call" THEN ArgcCheck(r) ELSE <<>>, rv |-> FALSE]
      args == IF acc = "set"
              THEN WriteArgumentUnboxing(base, NONE, mm.type, FALSE, FALSE)
              ELSE FoldLeftDomain(LAMBDA a, i :
                     WriteArgumentUnboxing(a, i - 1, ps[i].type, ps[i].optional, haveCcx),
                     base, ps)
      rvDecl == IF mm.canFail /\ ~args.rv THEN <<DeclRv>> ELSE <<>>
      hasResult == acc # "set"
      resDecl == IF hasResult /\ (~mm.custom \/ acc = "get") /\ ~CanDeclareResult(mm.type)
                 THEN <<Todo>> ELSE <<>>
      call == IF mm.custom THEN <<>> ELSE <<UseRv>>
      debug == IF mm.custom /\ acc = "get" /\ mm.canFail THEN <<UseRv>> ELSE <<>>
      check == IF mm.canFail THEN <<UseRv>> ELSE <<>>
      conv == IF hasResult /\ ~CanConvertResult(mm.type) THEN <<Todo>> ELSE <<>>
  IN args.ev \o rvDecl \o resDecl \o call \o debug \o check \o conv

\* Lines 1094-1201 (the parts the events record): arguments, then the
\* member's override or the checked native call, then the result, whose
\* declared C type comes from traceTypeMap keyed by member.type, the
\* type's name as written in the IDL (lines 1098, 1107), while the result
\* conversion is keyed by the resolved type (line 1192).
TraceStub(mm) ==
  LET ps == mm.params
      haveCcx == AnyParamRequiresCcx(ps)
      args == FoldLeftDomain(LAMBDA a, i :
                WriteTraceableArgumentConversion(a, i - 1, ps[i].type, haveCcx),
                [ev |-> <<>>, rv |-> FALSE], ps)
      call == IF mm.custom THEN <<>>
              ELSE (IF args.rv THEN <<>> ELSE <<DeclRv>>)
                   \o (IF CanDeclareResult(mm.type) THEN <<>> ELSE <<Todo>>)
                   \o <<UseRv, UseRv>>
      key == GetBuiltinOrNativeTypeName(mm.type)
      returns == IF key # NONE
                 THEN IF key \in DOMAIN TraceableResultConv THEN TraceableResultConv[key] ELSE NONE
                 ELSE IF IsInterfaceType(mm.type) THEN "jsval" ELSE NONE
  IN [ev |-> args.ev \o call \o (IF returns = NONE THEN <<Todo>> ELSE <<>>),
      declared |-> GetTraceType(TypeInfo[mm.type].name),
      returns |-> returns]

Init ==
  /\ m \in Candidates
  /\ pc = "validate"
  /\ bodies = [acc \in {} |-> <<>>]
  /\ trace = NONE
  /\ outcome = "running"

\* Mutant: writable nsIVariant attributes are let through.
Validate_noVariantCheck ==
  /\ pc = "validate"
  /\ pc' = "stub"
  /\ UNCHANGED <<m, bodies, trace, outcome>>

\* Lines 209-215: addStubMember rejects a writable nsIVariant attribute.
Validate ==
  /\ pc = "validate"
  /\ \/ /\ m.kind = "attribute" /\ ~m.readonly /\ IsVariantType(m.type)
        /\ outcome' = "UserError"
        /\ pc' = "done"
     \/ /\ ~(m.kind = "attribute" /\ ~m.readonly /\ IsVariantType(m.type))
        /\ pc' = "stub"
        /\ UNCHANGED outcome
  /\ UNCHANGED <<m, bodies, trace>>

Failed(ev) == Failure \in ToSet(ev)

\* Lines 1203-1223: the generic stubs of the member.
WriteStubs ==
  /\ pc = "stub"
  /\ bodies' = [acc \in Accessors(m) |-> GenericStub(m, acc)]
  /\ pc' = IF Traceable(m) THEN "trace" ELSE "done"
  /\ outcome' = IF \E acc \in Accessors(m) : Failed(bodies'[acc]) THEN "AssertionError"
                ELSE IF Traceable(m) THEN "running" ELSE "ok"
  /\ UNCHANGED <<m, trace>>

\* Lines 1225-1232, 1245-1247: the fast-path stub of a traceable method.
WriteTraceable ==
  /\ pc = "trace"
  /\ outcome = "running"
  /\ trace' = TraceStub(m)
  /\ pc' = "done"
  /\ outcome' = IF Failed(trace'.ev) THEN "AssertionError" ELSE "ok"
  /\ UNCHANGED <<m, bodies>>

Next == Validate \/ WriteStubs \/ WriteTraceable

Spec == Init /\ [][Next]_vars /\ WF_vars(Next)

-----------------------------------------------------------------------------
MaxParams == 3
Events ==
  {Todo, DeclRv, UseRv, Failure}
  \cup {<<"argc", r>> : r \in 1..MaxParams}
  \cup {<<"read", i, w>> : i \in 0..MaxParams - 1, w \in {"guarded", "direct"}}
  \cup {<<"read", NONE, "vp">>}
CTypes == {"int32", "uint32", "JSBool", "jsdouble", "jsval", "JSString *"}

TypeOK ==
  /\ m.kind \in {"method", "attribute"} /\ m.type \in Types
  /\ m.params \in Seq([type : Types, optional : BOOLEAN])
  /\ {m.readonly, m.custom, m.canFail} \subseteq BOOLEAN
  /\ pc \in {"validate", "stub", "trace", "done"}
  /\ DOMAIN bodies \subseteq {"call", "get", "set"}
  /\ \A acc \in DOMAIN bodies : bodies[acc] \in Seq(Events)
  /\ trace \in {NONE} \cup [ev : Seq(Events), declared : CTypes, returns : CTypes \cup {NONE}]
  /\ outcome \in {"running", "ok", "UserError", "AssertionError"}

\* The positions of event e in body b.
At(b, e) == {k \in 1..Len(b) : b[k] = e}

\* Every body: writeQuickStub reads argv[i] without a guard only after the
\* "if (argc < n)" check it wrote has ruled out i >= n (lines 779-785,
\* 441-451).  The count is that of the parameters up to the last required
\* one, so an optional parameter followed by a required one is read
\* directly too.
NoUnguardedArgvRead ==
  \A acc \in DOMAIN bodies :
    \A k \in 1..Len(bodies[acc]) :
      bodies[acc][k][1] = "read" /\ bodies[acc][k][3] = "direct" =>
        \E j \in 1..k - 1 : bodies[acc][j][1] = "argc" /\ bodies[acc][j][2] > bodies[acc][k][2]

\* Every generic and fast-path stub declares "nsresult rv" at most once and
\* before any statement uses it: the rvdeclared flag threaded through
\* writeArgumentUnboxing, the canFail declaration and the native call
\* (lines 786-805, 810-812, 1147-1159).
RvDeclaredOnceBeforeUse ==
  LET Good(b) == /\ Cardinality(At(b, DeclRv)) <= 1
                 /\ \A k \in At(b, UseRv) : \E j \in At(b, DeclRv) : j < k
  IN /\ \A acc \in DOMAIN bodies : Good(bodies[acc])
     /\ trace # NONE => Good(trace.ev)

\* No member addStubMember accepts makes a writer's assertion fail: the
\* setter of a writable nsIVariant attribute would unbox without a call
\* context (line 471), and addStubMember refuses it first (lines 209-215).
PlannerAssertionsHold == outcome # "AssertionError"

\* A method eligible for a fast-path stub (lines 223-240), whose generic stub
\* converts every argument and its result, gets a fast-path stub without a
\* "!; // TODO" placeholder (line 1090): spec section 4.4 makes the fast
\* path an alternative calling convention for the same method.
EligibleHasFastConversions ==
  pc = "done" /\ trace # NONE /\ Todo \notin ToSet(bodies["call"])
    => Todo \notin ToSet(trace.ev)

\* The fast-path stub returns a value of the C type it declares: the type
\* line 1107 writes for the function and the one the result conversion of
\* line 1192 returns.
TraceReturnAgrees ==
  trace # NONE /\ trace.returns # NONE => trace.declared = trace.returns
====
