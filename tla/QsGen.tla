------------------------------- MODULE QsGen -------------------------------
(***************************************************************************)
(* main of qsgen.py (lines 1490-1548): readConfigFile, then the header     *)
(* file, the stub file and the optional makedepend file, under one         *)
(* try/except that turns UserError and IDLError into a warning and any     *)
(* other exception into a traceback, exit status 1 either way.            *)
(*                                                                         *)
(* A file's state is "absent", "old" (left by an earlier run) or "new"     *)
(* (written by this run).  The stub file also records how many             *)
(* interfaces' stubs it holds, whether the definer was written and whether *)
(* it is open; the makedepend file records the targets it names.           *)
(* The config file is execfile'd (line 258): it is malformed (a Python     *)
(* error), or defines some of the required settings `name` and `members`.  *)
(* What the other modules check decides the other inputs: whether the      *)
(* selection is accepted (QsSelect) and which interface, if any, holds the *)
(* first body whose validateParam raises (QsStubs, run stubs_param).       *)
(* Opening an output file can fail with IOError, which main does not       *)
(* catch.                                                                  *)
(***************************************************************************)
EXTENDS Naturals, Sequences

CONSTANTS
  N,            \* Len(interfaces)
  NONE

VARIABLES
  settings,     \* the config file: malformed, or the required settings it defines (input)
  selection,    \* how readConfigFile ends: "ok", "UserError", "NameError" (input)
  badIface,     \* interface whose stubs raise UserError, or NONE (input)
  dependReq,    \* --makedepend-output was given (input)
  pc,           \* "read", "header", "stubOpen", "stubs", "depend", "exit"
  k,            \* cursor of writeStubFile's interface loop
  header,       \* header file
  stub,         \* stub file
  depend,       \* makedepend file
  targets,      \* make_targets
  status,       \* exit status, NONE while running
  report        \* "warn" or "traceback" for a failed run

input == <<settings, selection, badIface, dependReq>>
vars == <<settings, selection, badIface, dependReq, pc, k, header, stub, depend, targets, status, report>>

OnDisk == {"absent", "old"}

Required == {"name", "members"}

\* The ends of readConfigFile (QsSelect's outcomes).
Selections == {"ok", "UserError", "NameError"}

ConfigFiles ==
  {[malformed |-> TRUE, defines |-> {}]} \cup [malformed : {FALSE}, defines : SUBSET Required]

\* Mutant: writeStubFile without its try/finally, so a failure leaves the
\* stub file open.
Fail_noClose(r) ==
  /\ pc' = "exit"
  /\ status' = 1
  /\ report' = r
  /\ UNCHANGED stub

\* Lines 1539-1548: the except clause; the stub file, if open, has been
\* closed by writeStubFile's finally (line 1469) on the way out.
Fail(r) ==
  /\ pc' = "exit"
  /\ status' = 1
  /\ report' = r
  /\ stub' = [stub EXCEPT !.open = FALSE]

\* Lines 1489-1527: options parsed; the earlier run's files are on disk.
Init ==
  /\ settings \in ConfigFiles
  /\ selection \in Selections
  /\ badIface \in {NONE} \cup 1..N
  /\ dependReq \in BOOLEAN
  /\ pc = "read"
  /\ k = 1
  /\ header \in OnDisk
  /\ stub \in [state : OnDisk, written : {0}, definer : {FALSE}, open : {FALSE}]
  /\ depend \in [state : OnDisk, targets : {<< >>}]
  /\ targets = << >>
  /\ status = NONE
  /\ report = NONE

\* Lines 254-267, 1528-1533: Configuration runs the config file, whose own
\* errors are not UserError and end in a traceback, and raises UserError
\* for a missing required setting; readConfigFile then accepts the
\* selection, raises UserError, or raises UnboundLocalError (a NameError,
\* line 301, for an interface that is not scriptable), which the except
\* clause re-raises as a traceback.
ReadConfig ==
  /\ pc = "read"
  /\ CASE settings.malformed -> Fail("traceback")
       [] ~(Required \subseteq settings.defines) -> Fail("warn")
       [] selection = "UserError" -> Fail("warn")
       [] selection = "NameError" -> Fail("traceback")
       [] OTHER -> pc' = "header" /\ UNCHANGED <<stub, status, report>>
  /\ UNCHANGED <<input, k, header, depend, targets>>

\* Lines 327-348, 1534: writeHeaderFile; open(filename, 'w') may raise.
WriteHeader ==
  /\ pc = "header"
  /\ \/ header' = "new" /\ pc' = "stubOpen" /\ UNCHANGED <<stub, status, report>>
     \/ Fail("traceback") /\ UNCHANGED header
  /\ UNCHANGED <<input, k, depend, targets>>

\* Lines 1418-1423: the file is named in make_targets before it is opened.
OpenStub ==
  /\ pc = "stubOpen"
  /\ targets' = Append(targets, "stub")
  /\ \/ /\ stub' = [state |-> "new", written |-> 0, definer |-> FALSE, open |-> TRUE]
        /\ pc' = "stubs"
        /\ UNCHANGED <<status, report>>
     \/ Fail("traceback")
  /\ UNCHANGED <<input, k, header, depend>>

\* Lines 1466-1467: writeStubsForInterface for interface k; validateParam
\* (line 793) raises UserError in the middle of it.
WriteInterface ==
  /\ pc = "stubs"
  /\ k <= N
  /\ \/ /\ k # badIface
        /\ stub' = [stub EXCEPT !.written = k]
        /\ k' = k + 1
        /\ UNCHANGED <<pc, status, report>>
     \/ /\ k = badIface
        /\ Fail("warn")
        /\ UNCHANGED k
  /\ UNCHANGED <<input, header, depend, targets>>

\* Mutant: the definer is written one interface early.
WriteDefiner_early ==
  /\ pc = "stubs"
  /\ k >= N
  /\ stub' = [stub EXCEPT !.definer = TRUE, !.open = FALSE]
  /\ IF dependReq THEN pc' = "depend" /\ UNCHANGED <<status, report>>
                  ELSE pc' = "exit" /\ status' = 0 /\ UNCHANGED report
  /\ UNCHANGED <<input, k, header, depend, targets>>

\* Lines 1468-1470, 1535-1536: writeDefiner, the file is closed; main
\* exits 0 unless a makedepend file is requested.
WriteDefiner ==
  /\ pc = "stubs"
  /\ k > N
  /\ stub' = [stub EXCEPT !.definer = TRUE, !.open = FALSE]
  /\ IF dependReq THEN pc' = "depend" /\ UNCHANGED <<status, report>>
                  ELSE pc' = "exit" /\ status' = 0 /\ UNCHANGED report
  /\ UNCHANGED <<input, k, header, depend, targets>>

\* Lines 1475-1487, 1537-1538: writeMakeDependOutput names make_targets.
WriteDepend ==
  /\ pc = "depend"
  /\ \/ depend' = [state |-> "new", targets |-> targets] /\ pc' = "exit" /\ status' = 0
        /\ UNCHANGED <<stub, report>>
     \/ Fail("traceback") /\ UNCHANGED depend
  /\ UNCHANGED <<input, k, header, targets>>

Next ==
  \/ ReadConfig
  \/ WriteHeader
  \/ OpenStub
  \/ WriteInterface
  \/ WriteDefiner
  \/ WriteDepend

Spec == Init /\ [][Next]_vars /\ WF_vars(Next)

-----------------------------------------------------------------------------

TypeOK ==
  /\ settings \in ConfigFiles
  /\ selection \in Selections /\ dependReq \in BOOLEAN
  /\ badIface \in {NONE} \cup 1..N
  /\ pc \in {"read", "header", "stubOpen", "stubs", "depend", "exit"}
  /\ k \in 1..N + 1
  /\ header \in OnDisk \cup {"new"}
  /\ stub \in [state : OnDisk \cup {"new"}, written : 0..N, definer : BOOLEAN, open : BOOLEAN]
  /\ depend \in [state : OnDisk \cup {"new"}, targets : Seq({"stub"})]
  /\ targets \in Seq({"stub"})
  /\ status \in {NONE, 0, 1}
  /\ report \in {NONE, "warn", "traceback"}
  \* the stub file is open only inside writeStubFile's try (1422-1469)
  /\ stub.open => pc = "stubs"

\* The stub file holds every interface's stubs and the definer.
StubComplete == stub.state = "new" /\ stub.written = N /\ stub.definer

\* Every run of main ends with the stub file closed, and exit status 0
\* only when this run wrote the header, the complete stub file and, when
\* asked for, a makedepend file naming the stub file as its target.
ExitStatusReportsOutputs ==
  pc = "exit" =>
    /\ ~stub.open
    /\ status = 0 =>
         /\ header = "new" /\ StubComplete
         /\ dependReq => depend.state = "new" /\ depend.targets = <<"stub">>
====
