# Model-checking project for the XPConnect quick-stub generator

This directory holds TLA+ models of the two Python programs in this repository:

- `src/libs/js1.8/src/xpconnect/src/qsgen.py` (1550 lines). This is the quick-stub generator. It reads a config file and the IDL of the interfaces it names. For each selected interface member it writes a C++ SpiderMonkey getter, setter or method ("quick stub"). It also writes a static hash table, `tableData`, that the runtime searches by interface IID.
- `src/deps/js/src/tests/jstests.py` (366 lines). This is the JS test-suite runner. It filters a manifest's tests, runs them on a worker pool, tallies results in `ResultsSink` and reports regressions through its exit status and `--failure-file`.

The generator is a single-threaded batch program. Nothing in it runs concurrently, and nothing is persisted between runs. In the test runner, the worker pool runs tests concurrently, but (as far as this repository shows) the results reach `ResultsSink.push` one at a time, in any order. What is hard about the generator is ordering and sequencing:

- the order of config selectors;
- the order in which interfaces are discovered, which fixes the table layout;
- the bucket order of the hash table;
- state that one call leaves on a shared object and a later call reads, such as `member.traceable` and the template `_generated` marker;
- error paths that abort halfway through writing output.

The models cover these. Text formatting is left out: C++ text and IID formatting are abstracted to the facts they carry.

## 1. Inventory

### Components of qsgen.py

| Component | Code | State it keeps | Operations |
|---|---|---|---|
| Config reader | `Configuration` 254-267, `readConfigFile` 269-322, `getInterface` 279-293, `parseMemberId` 245-252, `findIDL`/`loadIDL` 176-193 | `interfaces` (discovery order), `interfacesByName` cache, `conf.*` | one loop step per selector; wildcard or named selection |
| Member validator | `addStubMember` 195-243, `validateParam` 632-647 | `iface.stubMembers`, `member.traceable` (written onto the shared IDL object) | accept, or raise `UserError`; compute fast-path (traceable) eligibility |
| Type classifier | `unaliasType` .. `getBuiltinOrNativeTypeName` 135-168, `isVariantType` 590 | none | map an IDL type to a template key |
| Marshaling planner | `writeArgumentUnboxing` 429-508, `writeResultDecl` 510-533, `outParamForm` 535-545, `writeResultConv` 593-624, template tables 358-422, 548-588 | `rvdeclared` flag threaded through the calls | argument unboxing, result declaration, result boxing; TODO placeholder on an unsupported type |
| Stub synthesizer | `writeQuickStub` 649-891, `writeAttrStubs` 1203-1216, `writeMethodStub` 1218-1223, `writeStubsForInterface` 1234-1270 | the `<Iface>_generated` markers stored in the shared `customMethodCalls` dicts | one stub per method; a getter and a setter (or `js_GetterOnlyPropertyStub`) per attribute; shared template bodies |
| Traceable (fast-path) stubs | `traceTypeMap` 893-940, `writeTraceableArgumentConversion` 987-1039, `writeTraceableResultConv` 1066-1092, `writeTraceableQuickStub` 1094-1201, `writeTraceableStub` 1225-1232 | none | the `_tn` FASTCALL stub and its `JS_DEFINE_TRCINFO` |
| Dispatch table builder | `hashIID` 1272-1274, `writeDefiner` 1303-1401 | `buckets`, `entryIndexes`, `arraySize`, `entries` | fill buckets; assign home and overflow slots; write entries with parent and chain indexes |
| Output driver | `main` 1489-1548, `writeHeaderFile` 327-347, `writeStubFile` 1419-1470, `writeResultXPCInterfacesArray` 1278-1301, `writeMakeDependOutput` 1475-1487 | module-global `make_dependencies`, `make_targets`; output files | header first, then the stub file, then the makedepend file; any `UserError` exits 1 |

### Components of jstests.py

| Component | Code | State | Operations |
|---|---|---|---|
| Test filtering | `__main__` 238-330, `exclude_tests` 12-20 | `test_list` | manifest parse, `-f`, arguments, exclusions, random, skipped and slow filters |
| Results sink | `ResultsSink` 71-168 | `groups`, `counts[3]`, `n`, `finished` | `push` per test output; `list`; `all_passed` |
| Runner | `run_tests` 170-189, `TestTask` 46-69 | `pb`, `finished` | one `TestTask` per test on `workers.Source` |

The worker pool (`workers.Source`), the `tests`, `manifest` and `progressbar` modules, and the `xpidl`/`header` modules that `qsgen.py` imports are not in this repository.

### How the generator's parts interact

Data flows in one direction, through plain calls:

1. `main` calls `readConfigFile`, which calls `getInterface` and `addStubMember`.
2. `main` then calls `writeHeaderFile`.
3. `main` then calls `writeStubFile`. Per interface, that calls `writeStubsForInterface` → `writeQuickStub`/`writeTraceableQuickStub` → the marshaling writers. At the end it calls `writeDefiner`.

Two pieces of shared mutable state link the steps:

- `member.traceable` is written by `addStubMember` onto the IDL member object. The next `addStubMember` call on the same member reads it, through its `vars(member)` check. The stub writers read it too.
- The `customMethodCalls[...]` dicts are read from the config. `writeQuickStub` writes `<Iface>[_Get|_Set]_generated` keys into them so that a shared template body is emitted only once.

### What makes each component correct (the properties)

- **Config reader / validator:**
  - a config that selects no member twice is accepted exactly when every selector is valid;
  - a member selected twice is rejected (spec section 3);
  - `stubMembers` follows selection order;
  - every stubbed member has `member.traceable` set, attributes included, since `writeDefiner` reads it for every member (lines 1348, 1362).
- **Dispatch table:**
  - the runtime search finds every interface that has stub members, and no other;
  - overflow slots are dense and chains go forward;
  - parent links visit exactly the tabled ancestors, nearest first;
  - the table implements an abstract map from interface to entry (refinement);
  - `writeDefiner` always finishes on an acyclic base relation, and the parent walk ends even on a cyclic one (spec section 4.6 step 4), which the code does not do.
- **Stub synthesizer:**
  - one stub per method, and two per attribute;
  - a shared template body is emitted once, before every wrapper that calls it;
  - every `interfaces[k_T]` slot a result conversion indexes is declared by `writeResultXPCInterfacesArray` (the code does not declare it when the result type is a typedef of an interface).
- **Marshaling:**
  - a stub reads `argv[i]` unguarded only behind an `argc` check that rules out `i >= argc`;
  - `nsresult rv` is declared once, before any use, across the argument writers, the `canFail` declaration and the call;
  - no writer's assertion fails for a member that `addStubMember` accepts;
  - a method eligible for the fast path, with a complete generic stub, gets a complete fast-path stub (the code does not);
  - the fast-path stub returns the C type it declares (the code does not for typedef'd results).
- **JS test runner:**
  - the exit status is 1 exactly when some test regressed, and a `--failure-file`, when asked for, lists exactly the regressions (the code exits 1 when nothing is selected, and never writes the file under `--tinderbox`).
- **Output driver:**
  - a config file that fails when run, or lacks `name` or `members`, stops the run before any output is written;
  - exit status 0 only with a new header, a complete stub file and, when asked for, a makedepend file; the stub file is closed on every exit.

## 2. Plan

Modules, in the order they were written. The most important behaviour came first: which members become stubs, and the table the runtime searches.

1. `QsSelect`. Member selection: `readConfigFile`, `getInterface`, `parseMemberId`, `addStubMember`. Checked by `MC_QsSelect`.
2. `QsDefiner` and `QsDispatchMap`. `QsDefiner` models `writeDefiner` step by step and the runtime search of `tableData`. `QsDispatchMap` is the abstract specification: a map from interface to entry. `QsDefiner` implements it through `INSTANCE QsDispatchMap WITH published <- Published`. Checked by `MC_QsDefiner`.
3. `QsStubs`. `writeStubsForInterface`/`writeAttrStubs`/`writeMethodStub`/`writeQuickStub`, with the custom-call lookup and the shared template marker. Checked by `MC_QsStubs`.
4. `QsMarshal`. The type classifier, the marshaling writers and the fast-path stub of one member, as the sequence of events its stub bodies get. Checked by `MC_QsMarshal`.
5. `QsGen`. `main`'s sequence of output files with every error path, taking from the modules above only what decides it: whether the config is accepted and which interface first fails `validateParam`.

Added later: `JsTests`, the test runner's filters, results sink and exit status (checked by `MC_JsTests`); `Terminates` as a liveness property of the passing `definer` run (the refinement run was folded into it), `writeStubFile`'s result-type pass and `writeResultXPCInterfacesArray` in `QsStubs`, and `Configuration`'s required-settings check in `QsGen`.

Still open: feeding `QsSelect`'s `interfaces` into `QsDefiner`'s input as one composed run (each is checked over every input the other can produce, so the composition would add state space rather than behaviours), and an abstract specification for `QsStubs` (a set of C++ definitions with call edges).

## 3. Modules and how they match the code

### QsSelect: member selection (`qsgen.py` 176-322)

State:

| Variable | Code |
|---|---|
| `config` | `conf.members` |
| `enable` | `--enable-traceables` |
| `pc` | loop index over `conf.members` |
| `interfaces` | `interfaces` |
| `stubMembers` | `iface.stubMembers` |
| `traceable` | `member.traceable`, `NONE` until set |
| `outcome` | running, ok, `UserError`, or `NameError` |

Actions, one per outcome of a loop iteration:

| Action | Code |
|---|---|
| `RejectMalformedId` | `parseMemberId` |
| `RejectMissingIdl` | `findIDL`/`getName` |
| `RejectUnscriptable` | line 299. The code formats `idlFile`, which is unbound there, so Python raises `UnboundLocalError` instead of the intended `UserError`; the model says `NameError`. |
| `SelectAll` | `Interface.*`: `addStubMember` folded over the scriptable members, aborting on the first rejection |
| `RejectUnknownMember` | named path, name not in `iface.namemap` |
| `RejectRepeatedMember` | named path, member already in `stubMembers` |
| `SelectMember` | named path, `addStubMember` |
| `Finish` | `readConfigFile` returns |

`AddStubMember`, `RejectsMember` and `MayTrace` are `addStubMember`'s checks and its `mayTrace` loop. `MayTrace` is written as the loop (`FoldLeft`). `member.traceable` is set for every accepted member, attributes included (line 240); the type invariant checks that, since `writeDefiner` reads it for every stubbed member.

`MC_QsSelect` defines a schema with every branch:

- an eligible 3-parameter method;
- a method with an optional parameter;
- a readonly and a writable `nsIVariant` attribute;
- a `noscript` attribute and a const;
- a 4-parameter method;
- a `notxpcom` method;
- a member and a parameter with an unrecognized flag;
- an unscriptable interface, and an interface with no IDL file.

Configs are every sequence of at most 3 of 15 selectors, with traceables on and off. Three selectors are enough for "named then wildcard" and "wildcard then named" on the same member, with a third selector before or after them.

### QsDefiner: the dispatch table (`qsgen.py` 1303-1401)

The input is the `interfaces` list (`ifs`), plus for each interface:

- `hashIID` of its uuid (`hash`);
- its IDL base (`base`; acyclic, except in the run `definer_cyclic_base`);
- the kinds of its `stubMembers` (`kinds`).

The phases follow the three loops of `writeDefiner`:

| Action | Code |
|---|---|
| `FillBucket` | 1310-1315. Interfaces with no stub member are discarded. |
| `IndexBucket` | 1322-1327. Bucket i's first interface gets index i. The others get `OverflowSlot`s from `arraySize` upward. |
| `AllocateEntries` | 1329-1331 |
| `WriteEntry` | 1333-1388. The entry gets `Entry`: the sub-table flags, `ParentIndex` (the walk up `iface.base` to the first ancestor with an entry) and `ChainIndex`. It is enabled only when `WalkEnds`: the `while` loop of 1367-1374 reaches `None` or an ancestor with an entry. Otherwise the code loops forever, which the model shows as no further step. |
| `Emit` | 1390-1401 |

`size` is `int(len(interfaces) / 0.6)`. For the lengths checked, the float quotient never drops below 5n/3, so this equals `(5 * n) \div 3`.

`Lookup` is the runtime search of `tableData`: start at `hash % size`, stop at a zero IID, follow `chain`. It lives in `xpcquickstubs.cpp`, which is not in this repository, so it is modelled from spec section 4.6 step 5. It returns "not found" on a table of size 0; whether the runtime divides by zero there is not checked.

`QsDispatchMap` is the abstract promise: every interface with stub members is eventually published with its sub-table flags and its nearest tabled ancestor, and a published entry never changes. The refinement mapping `Published` reads back every entry that the runtime search already finds.

### QsStubs: the stub writers (`qsgen.py` 649-891, 1094-1270, 1278-1301, 1418-1468)

The input is each interface's `stubMembers` (any order of distinct members) and the config's overrides:

- `template[i]` says `customMethodCalls` has an `"<Iface>_"` entry;
- `custom` is the set of stub names with their own entry.

Each member's kind, `readonly`, `traceable`, result type and whether one of its parameters is disallowed (`iid_is`, `size_is`, `out`) are fixed in `MC_QsStubs`. `traceable` is computed by `QsSelect`. The result types are an interface, a forward declaration, `nsIVariant` and a typedef of a builtin; `MCInfoTypedefResult` retypes the readonly attribute with a typedef of an interface. `TypeInfo` gives each type name its kind and, for a typedef, the type it names.

State:

| Variable | Code |
|---|---|
| `out` | the stub file. Each definition is a record: its name, the names it calls, the custom code it runs, and the member it was generated from. |
| `generated` | the `<T>_generated` keys `writeQuickStub` stores into the template dict |
| `specs` | `propspecs`/`funcspecs`/`tracespecs` |
| `tables` | the spec tables written |
| `phase` | before (`"results"`) or in (`"stubs"`) `writeStubFile`'s stub loop |
| `resulttypes` | `resulttypes` of `writeStubFile` |
| `cache` | the `k_T` slots `writeResultXPCInterfacesArray` declares |

Each definition in `out` also records the slots its result conversion indexes (`Converting`, `ResultCacheRef`): `k_<type.name>` of the member's unresolved result type, for an interface other than `nsIVariant` (lines 617, 1084). A setter and a forwarding stub convert no result.

Actions:

| Action | Code |
|---|---|
| `CollectResultTypes` | 1460-1461: `writeIncludesForInterface` for one interface; `includeType` resolves typedefs and skips builtins, natives and `nsIVariant` (`ResultTypeOf`) |
| `WriteResultCache` | 1462-1463, 1278-1301: one slot per collected type, above every stub |
| `WriteAttrMember`, `WriteMethodMember`, `WriteTraceableMember` | the three branches of the member loop |
| `EndInterface` | the table writing |
| `Finish` | the end of `writeStubFile`'s loop |

`WriteQuickStub` keeps `writeQuickStub`'s order of lookups: the member's override, then the interface template (its body once, then a forwarding stub), then the generic stub. `Body` is where `validateParam` raises: a method's disallowed parameter ends the run with `UserError` and an unfinished file.

### QsMarshal: the marshaling writers (`qsgen.py` 135-168, 358-630, 649-891, 893-1201)

One member, chosen from `Candidates`, goes through addStubMember's `nsIVariant` check and then gets its generic stubs and, if it is eligible, its fast-path stub. A stub body is the sequence of events the writers emit:

- `<<"argc", r>>` for the `if (argc < r)` check;
- `<<"read", i, how>>` for reading argument `i`: `"direct"` from `argv[i]`, `"guarded"` behind `i < argc`, or `"vp"` for a setter's `*vp`;
- `DeclRv` and `UseRv` for `nsresult rv;` and each statement that assigns or tests `rv`;
- `Todo` for a `!; // TODO` placeholder;
- `Failure` for a Python `assert` that fails and ends the run.

The template tables are the sets of their keys (`ArgumentUnboxingKeys`, `ResultConvKeys`, `TraceableArgumentKeys`, `TraceableResultConv` with the C type each entry returns). `traceTypeMap` is `TraceTypeMap`. `UnaliasType` is the recursive typedef resolution.

State: `m` (the member), `pc`, `bodies` (accessor to events), `trace` (the fast-path stub: events, declared return type, returned type) and `outcome`.

| Action | Code |
|---|---|
| `Validate` | 209-215: a writable `nsIVariant` attribute is a `UserError`. |
| `WriteStubs` | 1203-1223: `writeQuickStub` for each accessor; `GenericStub` is lines 732 and 777-884. |
| `WriteTraceable` | 1225-1232: `writeTraceableQuickStub`; `TraceStub` is lines 1094-1201. |

`MC_QsMarshal` has a type of every classifier branch: builtins (including a pointer type and `long long`), natives with `domstring`, `cstring` and `jsval` special types, `nsIVariant`, `nsIAtom`, an ordinary and a forward-declared interface, the typedef `PRUint32` and a typedef of it. Members are every method with up to two parameters over 9 argument types (each optional or not) and 16 result types, and every attribute, each in the three ways the config can take it over: no override (`canFail`), an override that cannot fail, one that can.

### QsGen: the output driver (`qsgen.py` 327-348, 1418-1548)

State: the inputs (`settings`: the config file, malformed or defining some of `name` and `members`; `selection`: how `readConfigFile` ended (`"ok"`, `UserError`, or the `NameError` of line 301); `badIface`, `dependReq`), `pc`, the loop cursor `k`, the three output files (each `"absent"`, `"old"` from an earlier run, or `"new"`; the stub file also records how many interfaces it holds, whether the definer was written and whether it is open), `make_targets`, the exit status and how the failure was reported.

| Action | Code |
|---|---|
| `ReadConfig` | 254-267, 1528-1533: a config file that fails under `execfile` raises its own exception (a traceback); a missing required setting or a rejected selection is a `UserError`; the `UnboundLocalError` of line 301 (an unscriptable interface) is not, so `main` re-raises it as a traceback |
| `WriteHeader` | 327-348, 1534; opening the file may raise `IOError` |
| `OpenStub` | 1418-1423; `make_targets` gets the file before `open` |
| `WriteInterface` | 1466-1467; `validateParam` raises `UserError` in interface `badIface` |
| `WriteDefiner` | 1468-1470, 1535-1536 |
| `WriteDepend` | 1475-1487, 1537-1538 |
| `Fail` | 1539-1548: `UserError` is a warning, `IOError` (not caught by the `OSError` branch in Python 2) a traceback; exit status 1; `writeStubFile`'s `finally` has closed the stub file |

### JsTests: the test runner's results (`jstests.py` 52-56, 71-189, 301-365)

The inputs are `opts` (the options the filters and `list()` read: `--random`, `--run-skipped`, `--run-only-skipped`, `--run-slow-tests`, `--failure-file`, `--tinderbox`) and `picked`, the tests that `-f`, the path arguments, `-x` and `--no-extensions` keep; all of these filter by path, so together they are any subset of the manifest. `MC_JsTests` has three tests: a plain one, a random one expected to fail, and a disabled slow one, so that each filter can empty the selection and every `LABELS` category is reached.

State: `pc`, `selected` (`test_list`), `pushed`, and `ResultsSink`'s `groups`, `counts`, `n` and `finished`; `failureFile` (what `list()` wrote, `NONE` if nothing) and the exit `status`.

| Action | Code |
|---|---|
| `Filter` | 301-330: the random, run-only-skipped and slow filters (`Selected`) |
| `NoTests` | 348-349, 364: `no tests selected`, then `NameError` on `results`, exit 1 |
| `Push` | 82-124: one output, in any order; a disabled test not run (`Runs`, lines 52-56) is a `NullTestOutput` counted as a skip; otherwise any result, grouped by `LABELS` (`DevLabel`) and counted by `Column` |
| `EndRun` | 183: `pipeline.start` returns whether every task ran (the user may interrupt it) |
| `List` | 188-189, 146-168, 364-365: `list()` unless `--tinderbox`, then the exit status from `all_passed()` |

The worker pool, the tests themselves and the user's interrupt are not in this repository: the order of outputs, each result and whether the pool finishes are choices.

## 4. Runs

| Run | Cfg | Expect | What it shows |
|---|---|---|---|
| `select` | `MC_QsSelect.cfg` | pass | `readConfigFile` accepts exactly the valid duplicate-free configs; `stubMembers` follows the selection and every stubbed member has `traceable` set (17,496 states). |
| `select_duplicate` | `MC_QsSelect_dup.cfg` | violation | `I1.m1` then `I1.*` with traceables off stubs `m1` twice, which the spec forbids. |
| `stubs` | `MC_QsStubs.cfg` | pass | For every member order, template and override combination of two interfaces (6,560 inputs), each definition is written once and before its use, every template accessor has one body and a forwarding stub per member and every cache slot a result conversion indexes is declared (46,480 states). |
| `stubs_result_cache` | `MC_QsStubs_cache.cfg` | violation | A readonly attribute typed `nsIDOMNodeRef`, a typedef of `nsIDOMNode`: the cache declares `k_nsIDOMNode` (typedef resolved), the getter indexes `k_nsIDOMNodeRef` (unresolved), so the stub file does not compile. |
| `stubs_param` | `MC_QsStubs_param.cfg` | violation | With an interface template, `I1.m1` then `I1.m2` where `m2` has an out parameter: `m2`'s stub only forwards to the template already written, `validateParam` never runs, and the run succeeds. Spec section 4.2 makes this fatal. |
| `definer` | `MC_QsDefiner.cfg` | pass | For up to 3 interfaces, hash values 0, 1 and 4, 3 stub-kind sets and every acyclic base relation, the table is well formed, the runtime search finds exactly the tabled interfaces, parent links follow ancestry, `writeDefiner` implements `QsDispatchMap`, and it always finishes (1.4M states, about 2.5 minutes). |
| `definer_cyclic_base` | `MC_QsDefiner_cycle.cfg` | violation | With every base relation, cycles included, `u1` selected with base `u2` and `u2` its own base: the parent walk never ends, so `writeDefiner` hangs. Spec section 4.6 step 4 makes a parent cycle a fatal error. |
| `marshal` | `MC_QsMarshal.cfg` | pass | Over 16,554 members, the generic stubs read `argv` only behind the argc check, declare `rv` once before use and no writer's assertion fails (54,027 states). |
| `marshal_fastpath_conv` | `MC_QsMarshal_fastconv.cfg` | violation | A traceable method returning `double` has a complete generic stub, but `traceableResultConvTemplates` has no `double` entry, so its fast-path stub gets `!; // TODO` and does not compile. |
| `marshal_trace_return` | `MC_QsMarshal_tracereturn.cfg` | violation | A traceable method returning `PRUint32` is declared `jsval` (`getTraceType(member.type)`, line 1107) but returns `uint32(result)` (conversion chosen from the resolved type, line 1192). |
| `jstests_report` | `MC_JsTests.cfg` | violation | With a selection the filters empty (here no test picked), `jstests.py` prints `no tests selected` and then reads the unbound `results` at line 364: a `NameError`, exit status 1, although no test regressed. |
| `driver` | `MC_QsGen.cfg` | pass | For every config outcome, failing interface, makedepend option, earlier outputs and `IOError` point, `main` exits 0 only with complete outputs, and the stub file is open only inside `writeStubFile` and always closed (2,107 states). |

Bounds:

- The stub run's member set has every combination the writers branch on: a traceable method, a method with a disallowed parameter, a writable and a readonly attribute, a traceable method with a disallowed parameter, and a plain method. Up to three members of one interface reach the "template already generated" branch for a method after an attribute, or for a second method; the second interface shows the spec lists being reset between interfaces.
- Three interfaces give the table sizes 0, 1, 3 and 5. Hash values 0, 1 and 4 give, at size 3, a collision of different hashes (1 and 4) and, at size 5, the first and the last bucket; equal hashes collide at every size. The base relation gives ancestors that are untabled, unselected or deeper than one level.
- The cyclic-base run needs a selected interface whose bases reach a cycle of unselected interfaces: two interfaces in the list and three in the IDL are enough, with two hash values and two stub-kind sets to keep the temporal check fast. It uses no symmetry because it checks liveness.
- The marshaling run needs an optional parameter before a required one (for the argc count), two interface parameters (for `rvdeclared`), a typedef of a typedef (one level of resolution is not enough) and a writable `nsIVariant` attribute; two parameters give all of these. Three parameters would only repeat them.
- The driver run has three interfaces, so a validation failure can come first, in the middle or last.
- The definer runs use no symmetry: the passing run checks liveness (`Terminates`, and the refinement's `WF`), where symmetry reduction is unsound.
- The stub run's result types include two members with one interface result, an attribute and a traceable method with interface results (so both the generic and the fast-path conversion index the cache), and `nsIVariant`, which is left out of the cache.

Fairness: `WF_vars(Next)` on every module. The generator and the test runner's main thread are single sequential processes that always take their next step, so weak fairness on that one process is what the code does. The runs stop at `outcome # "running"` and at `pc = "done"` (`pc = "exit"` in `JsTests`) because the program ends there. That is why the cfgs say `CHECK_DEADLOCK FALSE`.

### What the passing runs cannot see

- `StubsFollowSelection` and `EachDefinedOnce` never see the duplicate-stub bug of `select_duplicate`: their inputs repeat no member.
- `LookupFindsExactlyTabled` says nothing about a table of size 0 (no interface at all): `Lookup` is modelled with a guard there.
- `ExitStatusReportsOutputs` tells neither a warning from a traceback nor a truncated stub file from an old one (hazards at lines 1544 and 793).
- `RunReportsRegressions` is also broken by `--tinderbox` with `--failure-file` (the file is never written), but TLC reports the shorter empty-selection trace of `jstests_report`.

## 5. Not modelled, and why

- **C++ text.** The `substitute` templates, IID formatting (`uuid_re`) and include lists are output formatting. The properties are about which functions and entries exist, not how they are spelled. Two template typos are noted as hazards instead: the `long long` result template lacks a `)`, and the `wstring` traceable template lacks a `$`.
- **What `Configuration`'s `execfile` runs**: arbitrary Python in the config file. The model keeps only its outcomes: it fails, or it defines some of the required settings.
- **`loadIDL`'s `make_dependencies`**: one IDL file per interface, appended when `getInterface` first meets it, so it is the `interfaces` list of `QsSelect` mapped to files; the parse is `xpidl`'s, outside this repository.
- **The `#include` lines and slot numbers** of `writeStubFile` and `writeResultXPCInterfacesArray`: text. The set of declared slots is modelled.
- **What a failed run leaves on disk.** A `validateParam` failure leaves a new header and a truncated stub file (hazard at line 793). The spec only says the run aborts, so this is recorded as a hazard, not checked as a property.
- **Two spec differences in `writeDefiner`** are recorded as hazards and not checked by their own runs: the table size is `int(len(interfaces)/0.6)` over all interfaces where the spec says `ceil(n/0.6)` over interfaces with stubs, and overflow slots go in bucket order where the spec says discovery order. Neither changes what the runtime search finds, which `definer` checks.
- **A typedef of `nsIVariant` or `nsIAtom` as a parameter type** (hazard at line 469). `writeArgumentUnboxing` classifies through the typedef but then compares the unresolved `type.name`, so such a parameter is unwrapped as an ordinary interface instead of being converted to a variant. The type universe of `MC_QsMarshal` has typedefs of builtins only; with a typedef of `nsIVariant` added, a property "every generic stub is the stub of the member with its typedefs resolved" fails. The runs allowed are spent on the two typedef findings already checked (`stubs_result_cache`, `marshal_trace_return`).
- **Failure return values of the fast-path stubs** (`getTraceInfoDefaultReturn`): text of the error branches.
- **In jstests.py:** the worker pool (`workers.Source`), the manifest parser and the `tests` module are not in this repository; their effect is the inputs of `JsTests`. The debugger path (332-346), `check_manifest` and option parsing are process calls and text. The tinderbox and progress-bar printing is output text; the progress counts are modelled but no property states what they must show (a crash of a test expected to fail is counted as a skip, hazard at line 106). `xul_debug.lower() is 'true'` (line 297) compares identity and is always false, so `--xul-info` debug is never set; it only feeds the manifest parser.
- **A traceable method under an interface template** (hazard at line 1104): `writeTraceableQuickStub` looks up only the member's own override, so the fast-path stub calls the native method while the generic stub runs the template. Spec section 9 leaves this interaction open, so it is recorded, not checked.
