------------------------------- MODULE JsTests -------------------------------
(***************************************************************************)
(* The test-runner script jstests.py from the point where the manifest is  *)
(* parsed: the filters of __main__ (lines 301-330), run_tests (170-189)    *)
(* pushing one output per test into a ResultsSink (71-124), the summary    *)
(* list() (146-168) and the exit status (348-365).                         *)
(*                                                                         *)
(* The worker pool, the tests module and the JS shell are not in this      *)
(* repository: the order in which outputs reach push, the result each run  *)
(* yields and whether the user interrupts the pool (pipeline.start then    *)
(* returns False, "partial run -- interrupted by user") are choices.       *)
(* A test is a model value with its manifest flags; paths, messages and    *)
(* the progress bar text are left out.  -f, the path arguments, -x and     *)
(* --no-extensions all keep the tests whose path they match: together     *)
(* they are the input set `picked`.                                        *)
(***************************************************************************)
EXTENDS Naturals, FiniteSets

CONSTANTS
  Tests,        \* tests of the parsed manifest
  Info,         \* [enable, random, slow, expect] of each test
  NONE

VARIABLES
  opts,         \* the options the filters and list() read (input)
  picked,       \* tests kept by -f, the arguments, -x, --no-extensions (input)
  pc,           \* "filter", "none", "run", "list", "exit"
  selected,     \* test_list after the filters
  pushed,       \* tests whose output reached ResultsSink.push
  groups,       \* groups: dev label -> tests ("" for no label)
  counts,       \* counts: [pass, fail, skip]
  n,            \* n
  finished,     \* results.finished
  failureFile,  \* contents of --failure-file, NONE if not written
  status        \* exit status, NONE while running

vars == <<opts, picked, pc, selected, pushed, groups, counts, n, finished, failureFile, status>>

Options == [random : BOOLEAN, runSkipped : BOOLEAN, runOnlySkipped : BOOLEAN,
            runSlow : BOOLEAN, failureFile : BOOLEAN, tinderbox : BOOLEAN]

Results == {"PASS", "FAIL", "CRASH"}
Labels == {"REGRESSIONS", "FIXES", ""}

\* Lines 322-330: the random, run-only-skipped and slow filters.
Selected ==
  LET s1 == IF opts.random THEN picked ELSE {t \in picked : ~Info[t].random}
      s2 == IF opts.runOnlySkipped THEN {t \in s1 : ~Info[t].enable} ELSE s1
  IN IF opts.runSlow THEN s2 ELSE {t \in s2 : ~Info[t].slow}

\* Lines 52-56 and 326: a disabled test runs only with --run-skipped, which
\* --run-only-skipped turns on.
Runs(t) == Info[t].enable \/ opts.runSkipped \/ opts.runOnlySkipped

\* Lines 126-143: the dev category of LABELS[(result, expect, random)].
DevLabel(r, t) ==
  CASE r = "CRASH" -> "REGRESSIONS"
    [] r = "FAIL"  -> IF Info[t].expect /\ ~Info[t].random THEN "REGRESSIONS" ELSE ""
    [] r = "PASS"  -> IF ~Info[t].expect /\ ~Info[t].random THEN "FIXES" ELSE ""

\* Lines 104-109: the progress column a result is counted in.
Column(r, t) ==
  IF r = "PASS" /\ ~Info[t].random THEN 1
  ELSE IF Info[t].expect /\ ~Info[t].random THEN 2
  ELSE 3

Bump(c, i) == [c EXCEPT ![i] = @ + 1]

Init ==
  /\ opts \in Options
  /\ picked \in SUBSET Tests
  /\ pc = "filter"
  /\ selected = {}
  /\ pushed = {}
  /\ groups = [l \in Labels |-> {}]
  /\ counts = <<0, 0, 0>>
  /\ n = 0
  /\ finished = FALSE
  /\ failureFile = NONE
  /\ status = NONE

Filter ==
  /\ pc = "filter"
  /\ selected' = Selected
  /\ pc' = IF Selected = {} THEN "none" ELSE "run"
  /\ UNCHANGED <<opts, picked, pushed, groups, counts, n, finished, failureFile, status>>

\* Lines 348-349 and 364: 'no tests selected' is printed, then
\* results.all_passed() reads `results`, which only the else branch binds:
\* NameError, and Python exits 1.
NoTests ==
  /\ pc = "none"
  /\ pc' = "exit"
  /\ status' = 1
  /\ UNCHANGED <<opts, picked, selected, pushed, groups, counts, n, finished, failureFile>>

\* Lines 82-124: one test's output is pushed.  A test that does not run is
\* a NullTestOutput, counted as skipped and put in no group.
Push ==
  /\ pc = "run"
  /\ \E t \in selected \ pushed :
       /\ pushed' = pushed \cup {t}
       /\ n' = n + 1
       /\ IF Runs(t)
          THEN \E r \in Results :
                 /\ groups' = [groups EXCEPT ![DevLabel(r, t)] = @ \cup {t}]
                 /\ counts' = Bump(counts, Column(r, t))
          ELSE /\ counts' = Bump(counts, 3)
               /\ UNCHANGED groups
  /\ UNCHANGED <<opts, picked, pc, selected, finished, failureFile, status>>

\* Lines 183-184: pipeline.start returns True when every task ran, False
\* when the user interrupted it.
EndRun ==
  /\ pc = "run"
  /\ \/ pushed = selected /\ finished' = TRUE
     \/ pushed # selected /\ finished' = FALSE
  /\ pc' = "list"
  /\ UNCHANGED <<opts, picked, selected, pushed, groups, counts, n, failureFile, status>>

\* Lines 188-189, 146-168, 364-365: without --tinderbox, list() writes the
\* failure file (the REGRESSIONS group when not all passed); the run exits
\* 1 when all_passed() is false.
List ==
  /\ pc = "list"
  /\ failureFile' = IF opts.tinderbox \/ ~opts.failureFile THEN NONE
                    ELSE groups["REGRESSIONS"]
  /\ status' = IF groups["REGRESSIONS"] = {} THEN 0 ELSE 1
  /\ pc' = "exit"
  /\ UNCHANGED <<opts, picked, selected, pushed, groups, counts, n, finished>>

Next == Filter \/ NoTests \/ Push \/ EndRun \/ List

Spec == Init /\ [][Next]_vars /\ WF_vars(Next)

-----------------------------------------------------------------------------

TypeOK ==
  /\ pc \in {"filter", "none", "run", "list", "exit"}
  /\ selected \subseteq Tests /\ pushed \subseteq selected
  /\ groups \in [Labels -> SUBSET Tests]
  /\ counts \in (0..Cardinality(Tests)) \X (0..Cardinality(Tests)) \X (0..Cardinality(Tests))
  /\ failureFile \in {NONE} \cup SUBSET Tests
  /\ status \in {NONE, 0, 1}

\* The regressions of a run: a crash, or a failure of a test expected to
\* pass (the REGRESSIONS category of LABELS, lines 126-143).
Regressions == groups["REGRESSIONS"]

\* What the script reports when it ends: exit status 1 exactly when some
\* test regressed (lines 162-168, 364-365), and a --failure-file, when
\* asked for, lists exactly the regressions ("write tests that have not
\* passed", line 231), whatever the selection and the output options.
RunReportsRegressions ==
  pc = "exit" =>
    /\ (status = 1) <=> (Regressions # {})
    /\ opts.failureFile => failureFile = Regressions
====
