------------------------------ MODULE HashTable ------------------------------
(***************************************************************************)
(* The static lookup table of JavaScriptCore's Lookup.h: struct HashTable  *)
(* and class HashEntry.                                                    *)
(*                                                                         *)
(* A HashTable is a compact array `values` of rows generated at build      *)
(* time, plus a pointer `table` to an array of HashEntry that is allocated *)
(* on first use (initializeIfNeeded -> createTable) and released by        *)
(* deleteTable.  The keys of the entries are identifiers interned in the   *)
(* identifier table of the VM that built the array, and entry() compares   *)
(* keys by pointer.  copy() gives a VM a HashTable of its own that shares  *)
(* `values` and starts with no entry array.                                *)
(*                                                                         *)
(* Each VM runs on its own thread.  A call of entry(vm, name) or of        *)
(* begin(vm)/end(vm) is modelled as three steps, split where it reads or   *)
(* writes the shared field `table`: the test of initializeIfNeeded, the    *)
(* build, and the probe.  Nothing in Lookup.h locks.                       *)
(***************************************************************************)
EXTENDS Integers, Sequences, FiniteSets, SequencesExt, TLC

CONSTANTS
    PublicNames,          \* property names that have a StringImpl
    PrivateNames,         \* property names whose publicName() is null
    VMs,                  \* the VMs, one thread and one identifier table each
    StaticUsers,          \* the VMs that use the static HashTable itself
    Values,               \* the rows of `values` before the terminator row
    CompactSize,          \* HashTable::compactSize
    CompactHashSizeMask,  \* HashTable::compactHashSizeMask
    HashBound,            \* StringImpl::existingHash() ranges over 0..HashBound
    MaxArrays,            \* capacity of the heap of HashEntry arrays
    Static,               \* the HashTable the generated code declares
    NoKey                 \* the null key of an unused HashEntry

Names == PublicNames \cup PrivateNames
Rows  == 1..Len(Values)
Slots == 0..(CompactSize - 1)
ArrayIds == 1..MaxArrays
NULL    == 0              \* the null `table` pointer
NoEntry == 0              \* entry() returning 0
NoNext  == -1             \* HashEntry::m_next = 0

ASSUME /\ PublicNames \cap PrivateNames = {}
       /\ StaticUsers \subseteq VMs
       /\ Static \notin VMs
       /\ \A r \in Rows : Values[r].key \in PublicNames
       /\ \A r, s \in Rows : Values[r].key = Values[s].key => r = s
       /\ \E n \in 0..8 : CompactHashSizeMask + 1 = 2 ^ n
       /\ CompactSize > CompactHashSizeMask
       /\ HashBound \in Nat /\ MaxArrays \in Nat \ {0}

VARIABLES
    hash,     \* existingHash() of every public name
    table,    \* HashTable::table of the static table and of every copy
    live,     \* the HashEntry arrays that are allocated
    heap,     \* the contents of every HashEntry array
    pc,       \* where each VM is in its call
    call,     \* the operation and the property name of the call in progress
    result    \* what the last call of each VM returned

vars == <<hash, table, live, heap, pc, call, result>>

-----------------------------------------------------------------------------
(* Identifiers, hashing and the rows *)

\* Identifier::add(vm, key): the StringImpl of a name in one VM's identifier
\* table.  Two VMs intern the same characters as different pointers.
Intern(vm, name) == <<vm, name>>

\* existingHash() & compactHashSizeMask, the mask being 2^n - 1.
Bucket(h) == h % (CompactHashSizeMask + 1)

\* The rows that createTable cannot place in their bucket.
Collisions(h) ==
    {r \in Rows : \E s \in 1..(r - 1) :
        Bucket(h[Values[s].key]) = Bucket(h[Values[r].key])}

\* The generator sizes the array for the collisions of the real hashes.
Fits(h) == CompactHashSizeMask + 1 + Cardinality(Collisions(h)) <= CompactSize

\* What a lookup of `name` in `values` must give: its row, or none.
RowOf(name) ==
    IF \E r \in Rows : Values[r].key = name
    THEN CHOOSE r \in Rows : Values[r].key = name
    ELSE NoEntry

-----------------------------------------------------------------------------
(* HashEntry arrays *)

Entry == [key : (VMs \X PublicNames) \cup {NoKey}, row : Rows \cup {NoEntry},
          next : Slots \cup {NoNext}]

\* new HashEntry[compactSize], every key set to 0
EmptyEntries == [i \in Slots |-> [key |-> NoKey, row |-> NoEntry, next |-> NoNext]]

\* HashEntry::initialize: the payload of a row is named by the row's index
initialize(key, r) == [key |-> key, row |-> r, next |-> NoNext]

RECURSIVE ChainEnd(_, _)
ChainEnd(entries, i) ==
    IF entries[i].next = NoNext THEN i ELSE ChainEnd(entries, entries[i].next)

\* One iteration of createTable's loop over `values`: the row goes in its
\* bucket, or in the next free slot after the buckets, linked at the end of
\* the bucket's chain.
PlaceRow(vm, h, st, r) ==
    LET hashIndex == Bucket(h[Values[r].key])
        fresh     == initialize(Intern(vm, Values[r].key), r)
    IN  IF st.entries[hashIndex].key = NoKey
        THEN [st EXCEPT !.entries[hashIndex] = fresh]
        ELSE [entries   |-> [st.entries EXCEPT
                                ![ChainEnd(st.entries, hashIndex)].next = st.linkIndex,
                                ![st.linkIndex] = fresh],
              linkIndex |-> st.linkIndex + 1]

\* The array createTable builds for one VM.
BuildEntries(vm, h) ==
    FoldLeft(LAMBDA st, r : PlaceRow(vm, h, st, r),
             [entries |-> EmptyEntries, linkIndex |-> CompactHashSizeMask + 1],
             [r \in Rows |-> r]).entries

RECURSIVE WalkChain(_, _, _)
WalkChain(entries, i, impl) ==
    IF entries[i].key = impl THEN entries[i].row
    ELSE IF entries[i].next = NoNext THEN NoEntry
    ELSE WalkChain(entries, entries[i].next, impl)

\* A fault: the probe looks at the bucket and never follows m_next.
entryBucketOnly(entries, vm, name, h) ==
    IF name \in PrivateNames \/ entries[Bucket(h[name])].key # Intern(vm, name)
    THEN NoEntry
    ELSE entries[Bucket(h[name])].row

\* HashTable::entry(PropertyName), the private probe.
entry(entries, vm, name, h) ==
    IF name \in PrivateNames THEN NoEntry
    ELSE IF entries[Bucket(h[name])].key = NoKey THEN NoEntry
    ELSE WalkChain(entries, Bucket(h[name]), Intern(vm, name))

RECURSIVE skipInvalidKeys(_, _)
skipInvalidKeys(entries, position) ==
    IF position < CompactSize /\ entries[position].key = NoKey
    THEN skipInvalidKeys(entries, position + 1)
    ELSE position

\* A fault: the constructor of the iterator does not skip unused entries.
beginUnskipped(entries) == 0

\* HashTable::begin and ConstIterator's constructor
begin(entries) == skipInvalidKeys(entries, 0)

\* A fault: operator++ steps to the next HashEntry, used or not.
incrementUnskipped(entries, position) == position + 1

\* ConstIterator::operator++
increment(entries, position) == skipInvalidKeys(entries, position + 1)

RECURSIVE VisitFrom(_, _)
VisitFrom(entries, position) ==
    IF position = CompactSize THEN <<>>
    ELSE <<entries[position].row>> \o VisitFrom(entries, increment(entries, position))

\* for (it = begin(vm); it != end(vm); ++it): the rows the loop visits
Visited(entries) == VisitFrom(entries, begin(entries))

-----------------------------------------------------------------------------
(* The state *)

Operations == {"entry", "iterate"}
NoCall   == [op |-> "none", name |-> NoKey]
NoResult == [op |-> "none", name |-> NoKey, row |-> NoEntry, visited |-> <<>>,
             fault |-> FALSE]

\* The HashTable a VM works on: the static one, or its own copy.
InstanceOf(v) == IF v \in StaticUsers THEN Static ELSE v

TypeOK ==
    /\ hash \in [PublicNames -> 0..HashBound]
    /\ DOMAIN table \subseteq {Static} \cup VMs
    /\ \A i \in DOMAIN table : table[i] \in ArrayIds \cup {NULL}
    /\ live \subseteq ArrayIds
    /\ heap \in [ArrayIds -> [Slots -> Entry]]
    /\ pc \in [VMs -> {"idle", "init", "create", "probe"}]
    /\ call \in [VMs -> [op : Operations \cup {"none"}, name : Names \cup {NoKey}]]
    /\ result \in [VMs -> [op : Operations \cup {"none"}, name : Names \cup {NoKey},
                           row : Rows \cup {NoEntry},
                           visited : BoundedSeq(Rows, CompactSize),
                           fault : BOOLEAN]]

Init ==
    /\ hash \in {h \in [PublicNames -> 0..HashBound] : Fits(h)}
    /\ table = (Static :> NULL)
    /\ live = {}
    /\ heap = [a \in ArrayIds |-> EmptyEntries]
    /\ pc = [v \in VMs |-> "idle"]
    /\ call = [v \in VMs |-> NoCall]
    /\ result = [v \in VMs |-> NoResult]

-----------------------------------------------------------------------------
(* The operations *)

\* A fault: the copy keeps the pointer to the entry array of the original.
copyKeepingTable(v) ==
    /\ v \notin StaticUsers
    /\ v \notin DOMAIN table
    /\ pc[v] = "idle"
    /\ table' = table @@ (v :> table[Static])
    /\ UNCHANGED <<hash, live, heap, pc, call, result>>

\* HashTable::copy(): a VM takes its own HashTable; the entry array is not
\* copied, "since it's thread specific".
copy(v) ==
    /\ v \notin StaticUsers
    /\ v \notin DOMAIN table
    /\ pc[v] = "idle"
    /\ table' = table @@ (v :> NULL)
    /\ UNCHANGED <<hash, live, heap, pc, call, result>>

\* A VM calls entry(vm, name), or begin(vm) and end(vm), on its HashTable.
Call(v, op, name) ==
    /\ pc[v] = "idle"
    /\ InstanceOf(v) \in DOMAIN table
    /\ pc' = [pc EXCEPT ![v] = "init"]
    /\ call' = [call EXCEPT ![v] = [op |-> op, name |-> name]]
    /\ result' = [result EXCEPT ![v] = NoResult]
    /\ UNCHANGED <<hash, table, live, heap>>

\* A fault: createTable is called without the test of `table`.
initializeAlways(v) ==
    /\ pc[v] = "init"
    /\ pc' = [pc EXCEPT ![v] = "create"]
    /\ UNCHANGED <<hash, table, live, heap, call, result>>

\* HashTable::initializeIfNeeded: if (!table) createTable(vm)
initializeIfNeeded(v) ==
    /\ pc[v] = "init"
    /\ pc' = [pc EXCEPT ![v] = IF table[InstanceOf(v)] = NULL THEN "create" ELSE "probe"]
    /\ UNCHANGED <<hash, table, live, heap, call, result>>

\* HashTable::createTable: the array is built with the identifiers of the
\* calling VM and then stored in `table`, whatever `table` holds by then.
createTable(v) ==
    /\ pc[v] = "create"
    /\ ArrayIds \ live # {}
    /\ LET a == Min(ArrayIds \ live) IN
        /\ live' = live \cup {a}
        /\ heap' = [heap EXCEPT ![a] = BuildEntries(v, hash)]
        /\ table' = [table EXCEPT ![InstanceOf(v)] = a]
    /\ pc' = [pc EXCEPT ![v] = "probe"]
    /\ UNCHANGED <<hash, call, result>>

\* The probe of entry(), or the loop from begin() to end(), on the array
\* `table` points to now.  entry() returns 0 for a name without a public
\* name before it touches `table`.  After that a null or released array is
\* a fault: ASSERT(table) fails, or the read is of released memory.
Probe(v) ==
    /\ pc[v] = "probe"
    /\ LET t       == table[InstanceOf(v)]
           sound   == t # NULL /\ t \in live
           private == call[v].op = "entry" /\ call[v].name \in PrivateNames
           base    == [NoResult EXCEPT !.op = call[v].op, !.name = call[v].name]
       IN  result' = [result EXCEPT ![v] =
             IF private THEN base
             ELSE IF ~sound THEN [base EXCEPT !.fault = TRUE]
             ELSE IF call[v].op = "entry"
                  THEN [base EXCEPT !.row = entry(heap[t], v, call[v].name, hash)]
                  ELSE [base EXCEPT !.visited = Visited(heap[t])]]
    /\ pc' = [pc EXCEPT ![v] = "idle"]
    /\ call' = [call EXCEPT ![v] = NoCall]
    /\ UNCHANGED <<hash, table, live, heap>>

\* HashTable::deleteTable: the array is released and `table` reset.
deleteTable(v) ==
    /\ pc[v] = "idle"
    /\ InstanceOf(v) \in DOMAIN table
    /\ table[InstanceOf(v)] # NULL
    /\ live' = live \ {table[InstanceOf(v)]}
    /\ table' = [table EXCEPT ![InstanceOf(v)] = NULL]
    /\ UNCHANGED <<hash, heap, pc, call, result>>

Next ==
    \E v \in VMs :
        \/ copy(v)
        \/ \E name \in Names : Call(v, "entry", name)
        \/ Call(v, "iterate", NoKey)
        \/ initializeIfNeeded(v)
        \/ createTable(v)
        \/ Probe(v)
        \/ deleteTable(v)

Spec == Init /\ [][Next]_vars

-----------------------------------------------------------------------------
(* Properties *)

\* entry() finds exactly what `values` declares: a probe for a name returns
\* the row of `values` with that name, and no entry for any other name, for
\* every hash function and so for every shape of the chains createTable
\* links (Lookup.h, entry and createTable).
LookupCorrect ==
    \A v \in VMs :
        result[v].op = "entry" =>
            /\ ~result[v].fault
            /\ result[v].row = RowOf(result[v].name)

\* The loop from begin() to end() visits every row of `values` exactly once
\* and no unused HashEntry (Lookup.h, ConstIterator and skipInvalidKeys).
IterationComplete ==
    \A v \in VMs :
        result[v].op = "iterate" =>
            /\ ~result[v].fault
            /\ Len(result[v].visited) = Len(Values)
            /\ ToSet(result[v].visited) = Rows

\* No HashTable points to an array that has been released: deleteTable of
\* one VM never takes the array from under another VM's HashTable, which
\* is what copy() resetting `table` provides.
NoDanglingTable ==
    \A i \in DOMAIN table : table[i] # NULL => table[i] \in live

\* Every allocated array is the `table` of some HashTable: createTable is
\* reached only for a HashTable without an array, so no array is built
\* twice and left behind (initializeIfNeeded's test, deleteTable).
NoLeakedTable ==
    \A a \in live : \E i \in DOMAIN table : table[i] = a

=============================================================================
