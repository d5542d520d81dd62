----------------------------- MODULE QsDefiner -----------------------------
(***************************************************************************)
(* writeDefiner of qsgen.py: the static hash table tableData that          *)
(* xpc_qsDefineQuickStubs searches by interface IID.  The three loops of   *)
(* the code are three phases here:                                         *)
(*   "fill"    (lines 1310-1315) one interface per step into its bucket;   *)
(*   "index"   (lines 1320-1327) one bucket per step: its first interface  *)
(*             gets the bucket's index, the others overflow slots;         *)
(*   "entries" (lines 1329-1388) one interface per step: its entry, with   *)
(*             sub-table flags, parent index and chain index.              *)
(* The input is the interfaces list of readConfigFile: distinct            *)
(* interfaces in discovery order, each with the IDs first 32 bits, its     *)
(* IDL base and the kinds of its stubMembers.                              *)
(***************************************************************************)
EXTENDS Naturals, Sequences, SequencesExt

CONSTANTS
  U,            \* interfaces of the IDL files read
  MaxIfaces,    \* bound on Len(interfaces)
  Hashes,       \* candidate values of hashIID(uuid) = int(uuid[:8], 16)
  KindChoices,  \* candidate sets of stub kinds: "attr", "method", "trace"
  BaseChoices,  \* candidate iface.base functions (acyclic)
  NoBase,       \* iface.base is None
  NULL          \* XPC_QS_NULL_INDEX, and the zero IID of an empty entry

VARIABLES
  ifs,          \* interfaces (input)
  hash,         \* hashIID of each interface's uuid (input)
  base,         \* iface.base (input)
  kinds,        \* kinds of each interface's stubMembers (input)
  pc,           \* "fill", "index", "entries", "done"
  i,            \* outer loop cursor: interface or bucket
  j,            \* inner loop cursor: position in bucket i
  buckets,      \* buckets
  entryIndexes, \* entryIndexes: interface -> index in tableData
  arraySize,    \* arraySize
  entries       \* entries: tableData

input == <<ifs, hash, base, kinds>>
vars == <<ifs, hash, base, kinds, pc, i, j, buckets, entryIndexes, arraySize, entries>>

\* size = int(len(interfaces) / 0.6); for these n the float quotient never
\* falls below 5n/3, so this is floor(5n/3).  Interfaces without stub
\* members are counted.
size == (5 * Len(ifs)) \div 3

Slots == 0..(arraySize - 1)

EmptyEntry ==
  [iid |-> NULL, props |-> FALSE, funcs |-> FALSE, traces |-> FALSE,
   parent |-> NULL, chain |-> NULL]

\* Mutant: only the direct base is looked up.
ParentIndex_noWalk(b) ==
  IF b = NoBase THEN NULL
  ELSE IF b \in DOMAIN entryIndexes THEN entryIndexes[b]
  ELSE NULL

\* Lines 1366-1376: walk iface.base upwards to the first ancestor with an entry.
RECURSIVE ParentIndex(_)
ParentIndex(b) ==
  IF b = NoBase THEN NULL
  ELSE IF b \in DOMAIN entryIndexes THEN entryIndexes[b]
  ELSE ParentIndex(base[b])

\* Lines 1367-1374: the while loop on baseName ends, within n steps, at
\* None or at an ancestor with an entry.  Over |U| interfaces a walk that
\* has not ended after |U| steps has revisited an interface without an
\* entry, and the loop, which keeps no visited set, never ends.
\* Mutant: the loop body forgets `baseName = piface.base`.
WalkEnds_noAdvance(b, n) ==
  b = NoBase \/ b \in DOMAIN entryIndexes

RECURSIVE WalkEnds(_, _)
WalkEnds(b, n) ==
  IF b = NoBase \/ b \in DOMAIN entryIndexes THEN TRUE
  ELSE n > 0 /\ WalkEnds(base[b], n - 1)

\* Mutant: the last entry of a bucket links one past the table.
ChainIndex_pastEnd(bk, k) ==
  IF k = Len(bk) THEN arraySize ELSE entryIndexes[bk[k + 1]]

\* Mutant: an entry links to itself instead of its successor.
ChainIndex_self(bk, k) ==
  IF k = Len(bk) THEN NULL ELSE entryIndexes[bk[k]]

\* Lines 1378-1383: the next interface of the same bucket, if any.
ChainIndex(bk, k) ==
  IF k = Len(bk) THEN NULL ELSE entryIndexes[bk[k + 1]]

\* Mutant: the traceables flag copied from the functions test.
Entry_traceFromMethods(u, bk, k) ==
  [iid    |-> u,
   props  |-> "attr" \in kinds[u],
   funcs  |-> "method" \in kinds[u],
   traces |-> "method" \in kinds[u],
   parent |-> ParentIndex(base[u]),
   chain  |-> ChainIndex(bk, k)]

\* Lines 1344-1387: the entry of interface u, j-th of bucket bk.
Entry(u, bk, k) ==
  [iid    |-> u,
   props  |-> "attr" \in kinds[u],
   funcs  |-> "method" \in kinds[u],
   traces |-> "trace" \in kinds[u],
   parent |-> ParentIndex(base[u]),
   chain  |-> ChainIndex(bk, k)]

\* Mutant: overflow slots numbered from arraySize + 1.
OverflowSlot_skipOne(bk, u) ==
  arraySize + (CHOOSE k \in 1..(Len(bk) - 1) : Tail(bk)[k] = u)

\* Lines 1325-1327: the slot of u, a non-first member of bucket bk.
OverflowSlot(bk, u) ==
  arraySize + (CHOOSE k \in 1..(Len(bk) - 1) : Tail(bk)[k] = u) - 1

Acyclic(b) ==
  \A u \in U : \E n \in 0..Cardinality(U) :
    LET RECURSIVE Up(_, _)
        Up(x, m) == IF m = 0 \/ x = NoBase THEN x ELSE Up(b[x], m - 1)
    IN Up(u, n) = NoBase

Init ==
  /\ ifs \in {s \in BoundedSeq(U, MaxIfaces) : IsInjective(s)}
  /\ hash \in [ToSet(ifs) -> Hashes]
  /\ base \in BaseChoices
  /\ kinds \in [ToSet(ifs) -> KindChoices]
  /\ pc = "fill"
  /\ i = 1
  /\ j = 1
  /\ buckets = [b \in 0..(size - 1) |-> << >>]
  /\ entryIndexes = [u \in {} |-> 0]
  /\ arraySize = size
  /\ entries = << >>

\* Lines 1310-1315: interfaces with no stub members are discarded.
FillBucket ==
  /\ pc = "fill"
  /\ i <= Len(ifs)
  /\ LET u == ifs[i] IN
       buckets' = IF kinds[u] # {}
                  THEN [buckets EXCEPT ![hash[u] % size] = Append(@, u)]
                  ELSE buckets
  /\ i' = i + 1
  /\ UNCHANGED <<input, pc, j, entryIndexes, arraySize, entries>>

EndFill ==
  /\ pc = "fill"
  /\ i > Len(ifs)
  /\ pc' = "index"
  /\ i' = 0
  /\ UNCHANGED <<input, j, buckets, entryIndexes, arraySize, entries>>

\* Lines 1322-1327: bucket i's head keeps index i, the rest go to the end.
IndexBucket ==
  /\ pc = "index"
  /\ i < size
  /\ LET bk == buckets[i]
         extra == Len(bk) - 1
     IN /\ entryIndexes' =
             IF bk = << >> THEN entryIndexes
             ELSE entryIndexes
                  @@ (bk[1] :> i)
                  @@ [u \in ToSet(Tail(bk)) |-> OverflowSlot(bk, u)]
        /\ arraySize' = IF bk = << >> THEN arraySize ELSE arraySize + extra
  /\ i' = i + 1
  /\ UNCHANGED <<input, pc, j, buckets, entries>>

\* Lines 1329-1331: arraySize empty entries.
AllocateEntries ==
  /\ pc = "index"
  /\ i = size
  /\ entries' = [k \in Slots |-> EmptyEntry]
  /\ pc' = "entries"
  /\ i' = 0
  /\ j' = 1
  /\ UNCHANGED <<input, buckets, entryIndexes, arraySize>>

\* Lines 1333-1388: the j-th interface of bucket i gets its entry.  When
\* its parent walk never ends, no step follows: the run hangs here.
WriteEntry ==
  /\ pc = "entries"
  /\ i < size
  /\ j <= Len(buckets[i])
  /\ WalkEnds(base[buckets[i][j]], Cardinality(U))
  /\ LET u == buckets[i][j] IN
       entries' = [entries EXCEPT ![entryIndexes[u]] = Entry(u, buckets[i], j)]
  /\ j' = j + 1
  /\ UNCHANGED <<input, pc, i, buckets, entryIndexes, arraySize>>

NextBucket ==
  /\ pc = "entries"
  /\ i < size
  /\ j > Len(buckets[i])
  /\ i' = i + 1
  /\ j' = 1
  /\ UNCHANGED <<input, pc, buckets, entryIndexes, arraySize, entries>>

\* Lines 1390-1401: tableData and the definer, passed `size`, are emitted.
Emit ==
  /\ pc = "entries"
  /\ i = size
  /\ pc' = "done"
  /\ UNCHANGED <<input, i, j, buckets, entryIndexes, arraySize, entries>>

Next ==
  \/ FillBucket
  \/ EndFill
  \/ IndexBucket
  \/ AllocateEntries
  \/ WriteEntry
  \/ NextBucket
  \/ Emit

Spec == Init /\ [][Next]_vars /\ WF_vars(Next)

-----------------------------------------------------------------------------
(* The runtime search of tableData (xpc_qsDefineQuickStubs, outside this   *)
(* repository; spec.md section 4.6 step 5): start at hash % size, stop at  *)
(* a zero IID, follow chain until the IID matches.  fuel bounds the walk.  *)

RECURSIVE Probe(_, _, _)
Probe(u, k, fuel) ==
  IF fuel = 0 \/ k = NULL THEN NULL
  ELSE IF entries[k].iid = u THEN k
  ELSE IF entries[k].iid = NULL THEN NULL
  ELSE Probe(u, entries[k].chain, fuel - 1)

Lookup(u) == IF size = 0 THEN NULL ELSE Probe(u, hash[u] % size, arraySize + 1)

\* Interfaces that get an entry: those with at least one stub member.
Tabled == {u \in ToSet(ifs) : kinds[u] # {}}

\* Ancestors of u, nearest first, by iface.base.
RECURSIVE AncestorsFrom(_, _)
AncestorsFrom(b, n) ==
  IF b = NoBase \/ n = 0 THEN << >> ELSE << b >> \o AncestorsFrom(base[b], n - 1)

\* The interfaces reached from u's entry by following parent indexes.
RECURSIVE ParentLinks(_, _)
ParentLinks(k, n) ==
  IF k = NULL \/ n = 0 THEN << >>
  ELSE << entries[k].iid >> \o ParentLinks(entries[k].parent, n - 1)

\* The interface whose entry is at slot k.
IfaceAt(k) == CHOOSE v \in DOMAIN entryIndexes : entryIndexes[v] = k

\* Refinement mapping: an interface is published once the runtime search
\* finds its entry; the entry is read back from tableData.
Published ==
  IF pc \notin {"entries", "done"} THEN [u \in {} |-> NULL]
  ELSE [u \in {v \in Tabled \cap DOMAIN entryIndexes :
                 entries[entryIndexes[v]].iid = v /\ Lookup(v) = entryIndexes[v]} |->
          LET e == entries[entryIndexes[u]] IN
          [props  |-> e.props,
           funcs  |-> e.funcs,
           traces |-> e.traces,
           parent |-> IF e.parent = NULL THEN NULL ELSE IfaceAt(e.parent)]]

Abs == INSTANCE QsDispatchMap WITH published <- Published, NONE <- NULL

-----------------------------------------------------------------------------
(* Properties.                                                             *)

TypeOK ==
  /\ ifs \in Seq(U) /\ IsInjective(ifs)
  /\ pc \in {"fill", "index", "entries", "done"}
  /\ buckets \in [0..(size - 1) -> Seq(U)]
  /\ arraySize \in Nat
  /\ entryIndexes \in [DOMAIN entryIndexes -> Slots]
  /\ DOMAIN entryIndexes \subseteq U
  /\ pc \in {"entries", "done"} =>
       entries \in [Slots -> [iid : U \cup {NULL}, props : BOOLEAN, funcs : BOOLEAN,
                              traces : BOOLEAN, parent : Slots \cup {NULL},
                              chain : Slots \cup {NULL}]]

\* writeDefiner and the runtime search: once tableData is emitted, searching
\* it finds every interface with stub members at its own entry and finds no
\* other interface of the list (spec.md section 8, second bullet).
LookupFindsExactlyTabled ==
  pc = "done" =>
    \A u \in ToSet(ifs) :
      /\ u \in Tabled => Lookup(u) = entryIndexes[u] /\ entries[Lookup(u)].iid = u
      /\ u \notin Tabled => Lookup(u) = NULL

\* Lines 1320-1331: the table is the size home slots followed by a dense
\* overflow region: every slot past size holds an interface, no interface
\* holds two slots, and every chain link goes forward into the overflow region.
TableWellFormed ==
  pc = "done" =>
    /\ DOMAIN entryIndexes = Tabled
    /\ IsInjective(entryIndexes)
    /\ \A k \in Slots :
         /\ k >= size => entries[k].iid # NULL
         /\ entries[k].chain # NULL => entries[k].chain >= size /\ entries[k].chain > k

\* Lines 1366-1376: following parentInterface indexes from an interface's
\* entry visits exactly its ancestors that have entries, nearest first.
ParentLinksFollowAncestry ==
  pc = "done" =>
    \A u \in Tabled :
      ParentLinks(entries[entryIndexes[u]].parent, Cardinality(U))
        = SelectSeq(AncestorsFrom(base[u], Cardinality(U)), LAMBDA a : a \in Tabled)

\* writeDefiner implements the dispatch map: each written entry is found by
\* the runtime search and carries its interface's sub-table flags and nearest
\* tabled ancestor, no entry once found changes, and every interface with
\* stub members is eventually found.
DispatchMapRefined == Abs!Spec

\* Spec.md section 4.6 step 4 and section 8: the parent walk terminates, and
\* a parent cycle is a fatal error, so every run of writeDefiner ends.  The
\* code's while loop (lines 1367-1374) has no cycle check.
Terminates == <>(pc = "done")
=============================================================================
