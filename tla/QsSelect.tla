------------------------------ MODULE QsSelect ------------------------------
(***************************************************************************)
(* Member selection of qsgen.py: readConfigFile walks conf.members, one    *)
(* "Interface.member" or "Interface.*" selector at a time, discovering     *)
(* each interface on first mention (getInterface) and appending every      *)
(* accepted member to iface.stubMembers (addStubMember), which also sets   *)
(* member.traceable.  Any UserError aborts the whole run.                  *)
(*                                                                         *)
(* Names and member objects are model values; a member is a record of the  *)
(* IDL facts addStubMember reads.  Error messages are abstracted to the    *)
(* kind of exception raised.                                               *)
(***************************************************************************)
EXTENDS Naturals, Sequences, SequencesExt

CONSTANTS
  Ifaces,       \* interface names a selector may mention
  Found,        \* interfaces whose .idl findIDL/loadIDL find and declare
  Scriptable,   \* interfaces carrying the [scriptable] attribute
  MembersOf,    \* [Ifaces -> Seq(MemberIds)]: iface.members in IDL order
  MemberIds,    \* member objects of all interfaces
  Info,         \* [MemberIds -> record of the member's IDL facts]
  Selectors,    \* the selectors a config file may list
  MaxSelectors, \* bound on Len(conf.members)
  Star,         \* the member part "*"
  NoSuch,       \* a member name no interface declares
  NONE          \* member.traceable before addStubMember sets it

ASSUME Found \subseteq Ifaces /\ Scriptable \subseteq Found
ASSUME MaxSelectors \in Nat

VARIABLES
  config,       \* conf.members, fixed once the config is read
  enable,       \* the --enable-traceables option
  pc,           \* index of the selector being processed
  interfaces,   \* the interfaces list, in discovery order
  stubMembers,  \* iface.stubMembers for each interface
  traceable,    \* member.traceable: NONE until addStubMember sets it
  outcome       \* "running", "ok", or the exception that ended the run

vars == <<config, enable, pc, interfaces, stubMembers, traceable, outcome>>

Outcomes == {"running", "ok", "UserError", "NameError"}

Sel == config[pc]

\* getInterface: an interface is appended on its first mention only.
Discover(i) == IF i \in ToSet(interfaces) THEN interfaces ELSE Append(interfaces, i)

\* Mutant: the writable-nsIVariant-attribute check dropped.
RejectsMember_noVariantCheck(m, tr) ==
  LET r == Info[m] IN
  \/ r.kind \notin {"method", "attribute"}
  \/ r.noscript
  \/ r.notxpcom
  \/ r.unknownFlag
  \/ tr[m] = TRUE
  \/ r.kind = "method" /\ \E k \in DOMAIN r.params : r.params[k].unknownFlag

\* addStubMember's checks (lines 198-238).  vars(member) holds every True
\* attribute of the member, member.traceable from an earlier call included.
RejectsMember(m, tr) ==
  LET r == Info[m] IN
  \/ r.kind \notin {"method", "attribute"}
  \/ r.noscript
  \/ r.notxpcom
  \/ r.kind = "attribute" /\ ~r.readonly /\ r.variant
  \/ r.unknownFlag
  \/ tr[m] = TRUE
  \/ r.kind = "method" /\ \E k \in DOMAIN r.params : r.params[k].unknownFlag

\* mayTrace (lines 223-234): set by the arity test, cleared by any
\* optional parameter.
MayTrace(m) ==
  LET r == Info[m] IN
  /\ r.kind = "method"
  /\ FoldLeft(LAMBDA acc, p : acc /\ ~p.optional, Len(r.params) <= 3, r.params)

\* Mutant: the member put in front of stubMembers instead of appended.
AddStubMember_prepend(s, m) ==
  IF ~s.ok \/ RejectsMember(m, s.tr)
  THEN [s EXCEPT !.ok = FALSE]
  ELSE [stubs |-> << m >> \o s.stubs,
        tr    |-> [s.tr EXCEPT ![m] = enable /\ MayTrace(m)],
        ok    |-> TRUE]

\* Mutant: `member.traceable = ...` indented into the `if member.kind ==
\* 'method'` block, so an attribute never gets the attribute.
AddStubMember_traceMethodsOnly(s, m) ==
  IF ~s.ok \/ RejectsMember(m, s.tr)
  THEN [s EXCEPT !.ok = FALSE]
  ELSE [stubs |-> Append(s.stubs, m),
        tr    |-> IF Info[m].kind = "method"
                  THEN [s.tr EXCEPT ![m] = enable /\ MayTrace(m)] ELSE s.tr,
        ok    |-> TRUE]

\* One call of addStubMember on the accumulated (stubs, traceable) pair.
AddStubMember(s, m) ==
  IF ~s.ok \/ RejectsMember(m, s.tr)
  THEN [s EXCEPT !.ok = FALSE]
  ELSE [stubs |-> Append(s.stubs, m),
        tr    |-> [s.tr EXCEPT ![m] = enable /\ MayTrace(m)],
        ok    |-> TRUE]

\* The members "Interface.*" stubs (lines 305-306).
WildcardMembers(i) ==
  SelectSeq(MembersOf[i],
            LAMBDA m : Info[m].kind \in {"method", "attribute"} /\ ~Info[m].noscript)

\* `for memberId in conf.members`: the next selector.
NextSelector == pc + 1

Abort(kind, ifs) ==
  /\ outcome' = kind
  /\ interfaces' = ifs
  /\ UNCHANGED <<config, enable, pc, stubMembers, traceable>>

Init ==
  /\ config \in BoundedSeq(Selectors, MaxSelectors)
  /\ enable \in BOOLEAN
  /\ pc = 1
  /\ interfaces = <<>>
  /\ stubMembers = [i \in Ifaces |-> <<>>]
  /\ traceable = [m \in MemberIds |-> NONE]
  /\ outcome = "running"

Running == outcome = "running" /\ pc <= Len(config)

\* parseMemberId: a selector without exactly one dot.
RejectMalformedId ==
  /\ Running
  /\ Sel.form # "ok"
  /\ Abort("UserError", interfaces)

\* getInterface: findIDL finds no file, or the file lacks the interface.
RejectMissingIdl ==
  /\ Running
  /\ Sel.form = "ok"
  /\ Sel.iface \notin Found
  /\ Abort("UserError", interfaces)

\* The scriptable check formats `idlFile`, a local of readConfigFile that is
\* only ever assigned on line 312, so Python raises UnboundLocalError.
RejectUnscriptable ==
  /\ Running
  /\ Sel.form = "ok"
  /\ Sel.iface \in Found \ Scriptable
  /\ Abort("NameError", Discover(Sel.iface))

\* "Interface.*": addStubMember on every scriptable method and attribute.
SelectAll ==
  /\ Running
  /\ Sel.form = "ok"
  /\ Sel.iface \in Scriptable
  /\ Sel.member = Star
  /\ LET i == Sel.iface
         r == FoldLeft(AddStubMember,
                       [stubs |-> stubMembers[i], tr |-> traceable, ok |-> TRUE],
                       WildcardMembers(i))
     IN \/ /\ r.ok
           /\ stubMembers' = [stubMembers EXCEPT ![i] = r.stubs]
           /\ traceable' = r.tr
           /\ interfaces' = Discover(i)
           /\ pc' = NextSelector
           /\ UNCHANGED <<config, enable, outcome>>
        \/ /\ ~r.ok
           /\ Abort("UserError", Discover(i))

Named == Running /\ Sel.form = "ok" /\ Sel.iface \in Scriptable /\ Sel.member # Star

\* "Interface.member" naming no member of the interface (lines 311-315).
RejectUnknownMember ==
  /\ Named
  /\ Sel.member \notin ToSet(MembersOf[Sel.iface])
  /\ Abort("UserError", Discover(Sel.iface))

\* "Interface.member" already in iface.stubMembers (lines 316-319).
RejectRepeatedMember ==
  /\ Named
  /\ Sel.member \in ToSet(stubMembers[Sel.iface])
  /\ Abort("UserError", Discover(Sel.iface))

\* "Interface.member": addStubMember on the named member (line 320).
SelectMember ==
  /\ Named
  /\ Sel.member \in ToSet(MembersOf[Sel.iface]) \ ToSet(stubMembers[Sel.iface])
  /\ LET i == Sel.iface
         r == AddStubMember([stubs |-> stubMembers[i], tr |-> traceable, ok |-> TRUE],
                            Sel.member)
     IN \/ /\ r.ok
           /\ stubMembers' = [stubMembers EXCEPT ![i] = r.stubs]
           /\ traceable' = r.tr
           /\ interfaces' = Discover(i)
           /\ pc' = NextSelector
           /\ UNCHANGED <<config, enable, outcome>>
        \/ /\ ~r.ok
           /\ Abort("UserError", Discover(i))

\* readConfigFile returns (conf, interfaces).
Finish ==
  /\ outcome = "running"
  /\ pc > Len(config)
  /\ outcome' = "ok"
  /\ UNCHANGED <<config, enable, pc, interfaces, stubMembers, traceable>>

Next ==
  \/ RejectMalformedId
  \/ RejectMissingIdl
  \/ RejectUnscriptable
  \/ SelectAll
  \/ RejectUnknownMember
  \/ RejectRepeatedMember
  \/ SelectMember
  \/ Finish

Spec == Init /\ [][Next]_vars /\ WF_vars(Next)

-----------------------------------------------------------------------------
(* Reference definitions, written from spec.md sections 3 and 4.2.       *)

\* The members a config selects, in order, wildcards expanded.
Expansion(cfg) ==
  FlattenSeq([k \in DOMAIN cfg |->
                IF cfg[k].form # "ok" THEN << >>
                ELSE IF cfg[k].member = Star THEN WildcardMembers(cfg[k].iface)
                ELSE << cfg[k].member >>])

HasDuplicate(cfg) == ~IsInjective(Expansion(cfg))

\* Section 4.2: what the Validator accepts.
Valid(m) ==
  LET r == Info[m] IN
  /\ r.kind \in {"method", "attribute"}
  /\ ~r.noscript /\ ~r.notxpcom /\ ~r.unknownFlag
  /\ (r.kind = "attribute" /\ r.variant) => r.readonly
  /\ \A k \in DOMAIN r.params : ~r.params[k].unknownFlag

ValidSelector(s) ==
  /\ s.form = "ok"
  /\ s.iface \in Scriptable
  /\ s.member = Star => \A m \in ToSet(WildcardMembers(s.iface)) : Valid(m)
  /\ s.member # Star => s.member \in ToSet(MembersOf[s.iface]) /\ Valid(s.member)

Done == outcome # "running"

-----------------------------------------------------------------------------
(* Properties.                                                             *)

TypeOK ==
  /\ config \in Seq(Selectors)
  /\ enable \in BOOLEAN
  /\ pc \in 1..(Len(config) + 1)
  /\ interfaces \in Seq(Ifaces)
  /\ stubMembers \in [Ifaces -> Seq(MemberIds)]
  /\ traceable \in [MemberIds -> BOOLEAN \cup {NONE}]
  /\ outcome \in Outcomes
  \* every stubbed member has member.traceable, which writeDefiner reads
  \* for attributes and methods alike (lines 1348, 1362: else AttributeError)
  /\ \A i \in Ifaces : \A m \in ToSet(stubMembers[i]) : traceable[m] \in BOOLEAN

\* readConfigFile/addStubMember: a config that selects no member twice is
\* accepted exactly when every selector names a scriptable interface and
\* valid members (spec section 8, first bullet); a rejected one stops the run.
AcceptsExactlyValidSelections ==
  (Done /\ ~HasDuplicate(config))
    => (outcome = "ok" <=> \A k \in DOMAIN config : ValidSelector(config[k]))

\* Spec section 3: a member selected twice, by name or through "Interface.*",
\* is a fatal configuration error, so an accepted config has no duplicate.
DuplicateSelectionRejected ==
  outcome = "ok" => ~HasDuplicate(config)

\* addStubMember: each interface's stubMembers is exactly the selected
\* members of that interface, in selection order (the order that decides
\* the generated tables).
StubsFollowSelection ==
  outcome = "ok" =>
    \A i \in Ifaces :
      stubMembers[i] = SelectSeq(Expansion(config), LAMBDA m : m \in ToSet(MembersOf[i]))

=============================================================================
