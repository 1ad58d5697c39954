----------------------------- MODULE StorageTable -----------------------------
(***************************************************************************)
(* What napplet storage promises: a table of namespaces, changed one entry *)
(* at a time and never beyond the quotas, whatever fails and whenever the  *)
(* runtime stops.                                                          *)
(***************************************************************************)
EXTENDS Naturals, FiniteSetsExt

CONSTANTS Namespaces,         \* scopes (shared, or of an instance) of one napplet
          EntryKeys,
          Sizes,              \* the sizes of values; a value is its size
          KeysPerNamespace,   \* STORAGE_QUOTA.keysPerNamespace
          AggregateSize       \* STORAGE_QUOTA.aggregateBytes

VARIABLE table

Absent == 0
Tables == [Namespaces -> [EntryKeys -> Sizes \cup {Absent}]]
Empty == [n \in Namespaces |-> [k \in EntryKeys |-> Absent]]

(***************************************************************************)
(* A namespace holds few keys, and all the namespaces of a napplet, those  *)
(* of instances long gone included, share one size.                        *)
(***************************************************************************)
FewKeys(t, n) == Cardinality({k \in EntryKeys : t[n][k] # Absent}) <= KeysPerNamespace
SizeOf(t) == MapThenSumSet(LAMBDA n : MapThenSumSet(LAMBDA k : t[n][k], EntryKeys), Namespaces)

InQuota(t) == (\A n \in Namespaces : FewKeys(t, n)) /\ SizeOf(t) <= AggregateSize

With(t, n, k, v) == [t EXCEPT ![n][k] = v]

TableInit == table = Empty
TableNext == /\ \E n \in Namespaces, k \in EntryKeys, v \in Sizes \cup {Absent} :
                  table' = With(table, n, k, v)
             /\ InQuota(table')
TableSpec == TableInit /\ [][TableNext]_table
===============================================================================
