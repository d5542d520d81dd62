--------------------------- MODULE QsDispatchMap ---------------------------
(***************************************************************************)
(* What the quick-stub dispatch table promises the runtime, without the    *)
(* hashing: a map from each interface that has stub members to its entry   *)
(* (which sub-tables exist, and the nearest ancestor that has an entry).   *)
(* Entries become available one at a time and are never changed.           *)
(***************************************************************************)
EXTENDS Naturals, Sequences, SequencesExt

CONSTANTS
  U,        \* interfaces of the IDL files read
  NoBase,   \* iface.base is None
  NONE      \* no ancestor has an entry

VARIABLES
  ifs,      \* interfaces in discovery order
  base,     \* iface.base
  kinds,    \* kinds of each interface's stub members
  published \* interface -> entry, for the entries available so far

vars == <<ifs, base, kinds, published>>

Tabled == {u \in ToSet(ifs) : kinds[u] # {}}

RECURSIVE NearestTabled(_, _)
NearestTabled(b, n) ==
  IF b = NoBase \/ n = 0 THEN NONE
  ELSE IF b \in Tabled THEN b
  ELSE NearestTabled(base[b], n - 1)

AbsEntry(u) ==
  [props  |-> "attr" \in kinds[u],
   funcs  |-> "method" \in kinds[u],
   traces |-> "trace" \in kinds[u],
   parent |-> NearestTabled(base[u], Cardinality(U))]

Init ==
  /\ ifs \in Seq(U)
  /\ published = [u \in {} |-> NONE]

Publish(u) ==
  /\ u \in Tabled \ DOMAIN published
  /\ published' = published @@ (u :> AbsEntry(u))
  /\ UNCHANGED <<ifs, base, kinds>>

Next == \E u \in U : Publish(u)

Spec == Init /\ [][Next]_vars /\ WF_vars(Next)
=============================================================================
