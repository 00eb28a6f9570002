------------------------------- MODULE Lookup -------------------------------
(***************************************************************************)
(* The table-backed resolution protocol of Lookup.h: the templates a class *)
(* with a static lookup table calls from its getOwnPropertySlot,           *)
(* getOwnPropertyDescriptor and put, with the class's table and its parent *)
(* class as parameters.                                                    *)
(*                                                                         *)
(* A class is a record: its table (the rows of its HashTableValue array),  *)
(* its parent, the template its read methods call, whether its put calls   *)
(* lookupPut or is inherited, and whether its descriptor method asks the   *)
(* frame access check first.  The heap is a fixed set of objects, each of  *)
(* one class, with its own property store and the native state its custom  *)
(* getters and putters read and write.                                     *)
(*                                                                         *)
(* HashTable::entry is used through its reference definition, the row of   *)
(* the table with the key; module HashTable shows that the probe returns   *)
(* it.  One VM runs one script thread, so every method is one step.        *)
(***************************************************************************)
EXTENDS JSObject, TLC

CONSTANTS Objects,       \* the objects of the heap
          ClassOf,       \* the class of each object
          Classes,       \* class name -> class description
          Root,          \* the class without table: JSObject itself
          KeysOf,        \* the names the scripts assign to on each object
          ScriptValues,  \* the values a script assigns
          HostValues,    \* the values the host puts or its getters return
          MaxFunctions,  \* bound on the function objects ever created
          InitialStore,  \* the own properties each object is created with
          InitialNative  \* the native state each object is created with

Functions == 1..MaxFunctions

Values == ScriptValues \cup HostValues \cup Functions \cup Objects \cup {Undefined}

ClassNames == DOMAIN Classes

Row == [key : Keys \ PrivateKeys, attributes : SUBSET Attributes, checked : BOOLEAN]

Class == [table : Seq(Row), parent : ClassNames \cup {Root},
          slot : {"property", "function", "value"},
          put : {"lookupPut", "inherited"}, guarded : BOOLEAN]

Property == [key : Keys, value : Values, attributes : SUBSET Attributes]

ASSUME /\ Root \notin ClassNames
       /\ ClassOf \in [Objects -> ClassNames \cup {Root}]
       /\ \A c \in ClassNames : Classes[c] \in Class
       /\ KeysOf \in [Objects -> SUBSET Keys]
       /\ MaxFunctions \in Nat
       /\ InitialStore \in [Objects -> Seq(Property)]
       /\ \A o \in Objects : DOMAIN InitialNative[o] \subseteq Keys

VARIABLES store,      \* store[o]: the own properties of o, in insertion order
          native,     \* native[o][key]: the state behind o's custom accessors
          functions,  \* the number of function objects created so far
          lastPut     \* the last put of a script and its outcome

vars == <<store, native, functions, lastPut>>

-----------------------------------------------------------------------------
(* The static table, as the protocol sees it. *)

\* Whether table->entry(exec, propertyName) is an entry: a row has the key.
\* A private name has no public string and matches no row.
hasEntry(table, key) ==
    /\ key \notin PrivateKeys
    /\ \E i \in DOMAIN table : table[i].key = key

\* table->entry(exec, propertyName), where there is one.
entry(table, key) == table[CHOOSE i \in DOMAIN table : table[i].key = key]

\* What a read is given: the object's own properties and native state, the
\* name, whether the calling frame may access the object's frame, and the
\* identity the next function object created will have.
Request(props, nat, key, allowed, fresh) ==
    [props |-> props, native |-> nat, key |-> key, allowed |-> allowed,
     fresh |-> fresh]

\* What a read answers: found or not, the value in the slot, the attributes
\* (a descriptor has them, a slot has none) and the own properties after it.
Answer(found, value, attributes, props) ==
    [found |-> found, value |-> value, attributes |-> attributes,
     props |-> props]

Miss(req) == Answer(FALSE, Undefined, {}, req.props)

\* putDirectNativeFunction and the slot set from it: a new function object
\* becomes an own property with the entry's attributes.
putDirectNativeFunction(row, req) ==
    Answer(TRUE, req.fresh, row.attributes,
           putDirect(req.props, req.key, req.fresh, row.attributes))

\* setUpStaticFunctionSlot: the own property of that name if the object has
\* one (the cached function, or what a script put over it); otherwise a new
\* function object, stored as an own property.
setUpStaticFunctionSlot(row, req) ==
    LET own == getOwnProperty(req.props, req.key)
    IN  IF own.found
        THEN Answer(TRUE, own.value, own.attributes, req.props)
        ELSE putDirectNativeFunction(row, req)

\* The descriptor the descriptor templates make of a function entry: when
\* setUpStaticFunctionSlot says the function is present, its value with the
\* attributes of the entry; otherwise nothing is set and "not found" is
\* handed on.
functionDescriptor(row, req) ==
    LET slot == setUpStaticFunctionSlot(row, req)
    IN  IF slot.found THEN [slot EXCEPT !.attributes = row.attributes] ELSE slot

\* A fault: a generated getter answers without asking whether the frame
\* may access the object.
propertyGetterUnchecked(row, req) == req.native[row.key]

\* entry->propertyGetter() called on the object: the generated getters of a
\* checked class answer undefined to a frame that may not access the object.
propertyGetter(row, req) ==
    IF row.checked /\ ~req.allowed THEN Undefined ELSE req.native[row.key]

RECURSIVE classGetOwnPropertySlot(_, _)
RECURSIVE classGetOwnPropertyDescriptor(_, _)
RECURSIVE classPut(_, _, _, _)

\* A fault: a name the table does not have is not forwarded to the parent.
getStaticPropertySlotTableOnly(class, req) ==
    LET table == Classes[class].table
    IN  IF ~hasEntry(table, req.key) THEN Miss(req)
        ELSE IF "Function" \in entry(table, req.key).attributes
        THEN setUpStaticFunctionSlot(entry(table, req.key), req)
        ELSE Answer(TRUE, propertyGetter(entry(table, req.key), req), {}, req.props)

\* A fault: a function entry is answered with a new function object every
\* time, without looking for the own property of that name.
getStaticPropertySlotUncached(class, req) ==
    LET table == Classes[class].table
    IN  IF ~hasEntry(table, req.key)
        THEN classGetOwnPropertySlot(Classes[class].parent, req)
        ELSE IF "Function" \in entry(table, req.key).attributes
        THEN putDirectNativeFunction(entry(table, req.key), req)
        ELSE Answer(TRUE, propertyGetter(entry(table, req.key), req), {}, req.props)

getStaticPropertySlot(class, req) ==
    LET table == Classes[class].table
    IN  IF ~hasEntry(table, req.key)
        THEN classGetOwnPropertySlot(Classes[class].parent, req)
        ELSE IF "Function" \in entry(table, req.key).attributes
        THEN setUpStaticFunctionSlot(entry(table, req.key), req)
        ELSE Answer(TRUE, propertyGetter(entry(table, req.key), req), {}, req.props)

\* A fault: the descriptor of a function entry is made from a new function
\* object instead of the one setUpStaticFunctionSlot hands back.
getStaticPropertyDescriptorUncached(class, req) ==
    LET table == Classes[class].table
    IN  IF ~hasEntry(table, req.key)
        THEN classGetOwnPropertyDescriptor(Classes[class].parent, req)
        ELSE IF "Function" \in entry(table, req.key).attributes
        THEN putDirectNativeFunction(entry(table, req.key), req)
        ELSE Answer(TRUE, propertyGetter(entry(table, req.key), req),
                    entry(table, req.key).attributes, req.props)

getStaticPropertyDescriptor(class, req) ==
    LET table == Classes[class].table
    IN  IF ~hasEntry(table, req.key)
        THEN classGetOwnPropertyDescriptor(Classes[class].parent, req)
        ELSE IF "Function" \in entry(table, req.key).attributes
        THEN functionDescriptor(entry(table, req.key), req)
        ELSE Answer(TRUE, propertyGetter(entry(table, req.key), req),
                    entry(table, req.key).attributes, req.props)

\* A fault: the function object of an entry is handed out without being
\* stored on the object.
getStaticFunctionSlotUnstored(class, req) ==
    LET table  == Classes[class].table
        parent == classGetOwnPropertySlot(Classes[class].parent, req)
    IN  IF parent.found THEN parent
        ELSE IF ~hasEntry(table, req.key) THEN Miss(req)
        ELSE Answer(TRUE, req.fresh, {}, req.props)

\* A fault: the table is asked first, and its entry answers with a new
\* function whatever the object has under the name.
getStaticFunctionSlotTableFirst(class, req) ==
    LET table == Classes[class].table
    IN  IF hasEntry(table, req.key)
        THEN putDirectNativeFunction(entry(table, req.key), req)
        ELSE classGetOwnPropertySlot(Classes[class].parent, req)

\* The parent is asked first; the table only when the parent has nothing.
getStaticFunctionSlot(class, req) ==
    LET table  == Classes[class].table
        parent == classGetOwnPropertySlot(Classes[class].parent, req)
    IN  IF parent.found THEN parent
        ELSE IF ~hasEntry(table, req.key) THEN Miss(req)
        ELSE setUpStaticFunctionSlot(entry(table, req.key), req)

getStaticFunctionDescriptor(class, req) ==
    LET table  == Classes[class].table
        parent == classGetOwnPropertyDescriptor(Classes[class].parent, req)
    IN  IF parent.found THEN parent
        ELSE IF ~hasEntry(table, req.key) THEN Miss(req)
        ELSE functionDescriptor(entry(table, req.key), req)

\* A fault: a name the table does not have is not forwarded to the parent.
getStaticValueSlotTableOnly(class, req) ==
    LET table == Classes[class].table
    IN  IF ~hasEntry(table, req.key) THEN Miss(req)
        ELSE Answer(TRUE, propertyGetter(entry(table, req.key), req), {}, req.props)

\* The table is probed first; every entry is a value with a native getter.
getStaticValueSlot(class, req) ==
    LET table == Classes[class].table
    IN  IF ~hasEntry(table, req.key)
        THEN classGetOwnPropertySlot(Classes[class].parent, req)
        ELSE Answer(TRUE, propertyGetter(entry(table, req.key), req), {}, req.props)

\* A fault: the parent is asked before the table, as in the function variant.
getStaticValueDescriptorParentFirst(class, req) ==
    LET table  == Classes[class].table
        parent == classGetOwnPropertyDescriptor(Classes[class].parent, req)
    IN  IF parent.found THEN parent
        ELSE IF ~hasEntry(table, req.key) THEN Miss(req)
        ELSE Answer(TRUE, propertyGetter(entry(table, req.key), req),
                    entry(table, req.key).attributes, req.props)

getStaticValueDescriptor(class, req) ==
    LET table == Classes[class].table
    IN  IF ~hasEntry(table, req.key)
        THEN classGetOwnPropertyDescriptor(Classes[class].parent, req)
        ELSE Answer(TRUE, propertyGetter(entry(table, req.key), req),
                    entry(table, req.key).attributes, req.props)

\* The getOwnPropertySlot of a class: the root looks in the own store, a
\* class with a table calls its template.
classGetOwnPropertySlot(class, req) ==
    IF class = Root
    THEN LET own == getOwnProperty(req.props, req.key)
         IN  Answer(own.found, own.value, {}, req.props)
    ELSE CASE Classes[class].slot = "property" -> getStaticPropertySlot(class, req)
           [] Classes[class].slot = "function" -> getStaticFunctionSlot(class, req)
           [] Classes[class].slot = "value"    -> getStaticValueSlot(class, req)

\* The getOwnPropertyDescriptor of a class.  A guarded class answers "no
\* such property" to a frame that may not access the object's frame.
classGetOwnPropertyDescriptor(class, req) ==
    IF class = Root
    THEN LET own == getOwnProperty(req.props, req.key)
         IN  Answer(own.found, own.value, own.attributes, req.props)
    ELSE IF Classes[class].guarded /\ ~req.allowed THEN Miss(req)
    ELSE CASE Classes[class].slot = "property" -> getStaticPropertyDescriptor(class, req)
           [] Classes[class].slot = "function" -> getStaticFunctionDescriptor(class, req)
           [] Classes[class].slot = "value"    -> getStaticValueDescriptor(class, req)

-----------------------------------------------------------------------------
(* Writes. *)

\* What a write leaves: the own properties, the native state, and whether a
\* TypeError was thrown.
Written(props, nat, threw) == [props |-> props, native |-> nat, threw |-> threw]

\* A fault: the test for a function entry is missing, the putter is called.
putEntryNoOverride(row, req, value, shouldThrow) ==
    IF "ReadOnly" \notin row.attributes
    THEN Written(req.props, (row.key :> value) @@ req.native, FALSE)
    ELSE Written(req.props, req.native, shouldThrow)

\* A fault: the test for ReadOnly is missing.
putEntryNoReadOnly(row, req, value, shouldThrow) ==
    IF "Function" \in row.attributes
    THEN Written(putDirect(req.props, req.key, value, {}), req.native, FALSE)
    ELSE Written(req.props, (row.key :> value) @@ req.native, FALSE)

\* putEntry: a function entry is overridden by an own property; a writable
\* value goes to the native putter; a read-only one is left alone, and the
\* write is reported only when the caller asks for it.
putEntry(row, req, value, shouldThrow) ==
    IF "Function" \in row.attributes
    THEN Written(putDirect(req.props, req.key, value, {}), req.native, FALSE)
    ELSE IF "ReadOnly" \notin row.attributes
    THEN Written(req.props, (row.key :> value) @@ req.native, FALSE)
    ELSE Written(req.props, req.native, shouldThrow)

\* lookupPut<ThisImp>(exec, name, value, table, thisObj, shouldThrow):
\* whether the table has the name, and what putEntry left if it has.
lookupPutEntry(table, req, value, shouldThrow) ==
    IF hasEntry(table, req.key)
    THEN [handled |-> TRUE,
          written |-> putEntry(entry(table, req.key), req, value, shouldThrow)]
    ELSE [handled |-> FALSE, written |-> Written(req.props, req.native, FALSE)]

\* lookupPut<ThisImp, ParentImp>(exec, name, value, table, thisObj, slot).
lookupPut(class, req, value, strict) ==
    LET own == lookupPutEntry(Classes[class].table, req, value, strict)
    IN  IF own.handled THEN own.written
        ELSE classPut(Classes[class].parent, req, value, strict)

\* The put of a class: the root stores in the own properties and reports a
\* rejected write in strict mode; a class without a put of its own has its
\* parent's.
classPut(class, req, value, strict) ==
    IF class = Root
    THEN LET own == put(req.props, req.key, value)
         IN  Written(own.props, req.native, own.rejected /\ strict)
    ELSE IF Classes[class].put = "lookupPut"
    THEN lookupPut(class, req, value, strict)
    ELSE classPut(Classes[class].parent, req, value, strict)

-----------------------------------------------------------------------------
(* The heap and the operations a script performs on it. *)

\* The last put of a script and its outcome.
PutOutcome == [done : BOOLEAN, object : Objects, key : Keys, value : Values,
               strict : BOOLEAN, threw : BOOLEAN]

TypeOK ==
    /\ store \in [Objects -> Seq(Property)]
    /\ \A o \in Objects : native[o] \in [DOMAIN InitialNative[o] -> Values]
    /\ functions \in 0..MaxFunctions
    /\ lastPut \in PutOutcome

\* Before the first put there is no outcome.
NoPut ==
    [done |-> FALSE, object |-> CHOOSE o \in Objects : TRUE,
     key |-> CHOOSE k \in Keys : TRUE, value |-> Undefined,
     strict |-> FALSE, threw |-> FALSE]

Init ==
    /\ store = InitialStore
    /\ native = InitialNative
    /\ functions = 0
    /\ lastPut = NoPut

\* The request a read of o makes in the current state.
RequestOf(o, key, allowed) ==
    Request(store[o], native[o], key, allowed, functions + 1)

\* What a read through one of the two read methods leaves.  The only state
\* a read can change is the object's own store, when a function is
\* materialized.
Read(o, answer) ==
    /\ store' = [store EXCEPT ![o] = answer.props]
    /\ functions' = IF answer.props = store[o] THEN functions ELSE functions + 1
    /\ UNCHANGED <<native, lastPut>>

GetOwnPropertySlot(o, key, allowed) ==
    /\ functions < MaxFunctions
    /\ Read(o, classGetOwnPropertySlot(ClassOf[o], RequestOf(o, key, allowed)))

GetOwnPropertyDescriptor(o, key, allowed) ==
    /\ functions < MaxFunctions
    /\ Read(o, classGetOwnPropertyDescriptor(ClassOf[o], RequestOf(o, key, allowed)))

Put(o, key, value, strict) ==
    LET written == classPut(ClassOf[o], RequestOf(o, key, TRUE), value, strict)
    IN  /\ store' = [store EXCEPT ![o] = written.props]
        /\ native' = [native EXCEPT ![o] = written.native]
        /\ lastPut' = [done |-> TRUE, object |-> o, key |-> key, value |-> value,
                       strict |-> strict, threw |-> written.threw]
        /\ UNCHANGED functions

Next ==
    \E o \in Objects :
        \/ \E key \in Keys, allowed \in BOOLEAN :
              \/ GetOwnPropertySlot(o, key, allowed)
              \/ GetOwnPropertyDescriptor(o, key, allowed)
        \/ \E key \in KeysOf[o], value \in ScriptValues, strict \in BOOLEAN :
              Put(o, key, value, strict)

Spec == Init /\ [][Next]_vars

-----------------------------------------------------------------------------
(* Properties. *)

\* What a script with access reads from o under key, and what is left.
Get(props, nat, key, class, fresh) ==
    classGetOwnPropertySlot(class, Request(props, nat, key, TRUE, fresh))

\* The table entry that answers for key on an object of this class, looking
\* up the parent chain as the templates do.
RECURSIVE EntriesFor(_, _)
EntriesFor(class, key) ==
    IF class = Root THEN {}
    ELSE (IF hasEntry(Classes[class].table, key)
          THEN {entry(Classes[class].table, key)} ELSE {})
         \cup EntriesFor(Classes[class].parent, key)

\* Function self-caching, getStaticPropertySlot, getStaticFunctionSlot and
\* setUpStaticFunctionSlot: in every reachable state, reading a name twice
\* gives the identical value both times, the second read changes nothing,
\* and after a read answered by a function entry the object has the
\* returned callable as an own property.
ReadTwiceSame ==
    \A o \in Objects, key \in Keys :
        LET first  == Get(store[o], native[o], key, ClassOf[o], functions + 1)
            second == Get(first.props, native[o], key, ClassOf[o], functions + 2)
        IN  /\ second.found = first.found
            /\ second.value = first.value
            /\ second.props = first.props
            /\ (\E row \in EntriesFor(ClassOf[o], key) : "Function" \in row.attributes)
                   => getOwnProperty(first.props, key).value = first.value

\* Whether every class of the chain that has a value entry for key also
\* routes its put through lookupPut, so that a write meets the entry a read
\* meets.
RECURSIVE WritesReachTable(_, _)
WritesReachTable(class, key) ==
    \/ class = Root
    \/ /\ \/ ~hasEntry(Classes[class].table, key)
           \/ "Function" \in entry(Classes[class].table, key).attributes
           \/ Classes[class].put = "lookupPut"
       /\ WritesReachTable(Classes[class].parent, key)

\* putEntry and lookupPut against the read templates: a value a script has
\* just put under a name that is not read-only is the value the next read
\* of that name returns: over a function entry (the override), through a
\* native putter, and in the own store when no table has the name.  It is
\* claimed for the names whose value entries are met by put, that is, not
\* for a value entry of a class that inherits put from JSObject.
WriteIsRead ==
    (/\ lastPut.done
     /\ WritesReachTable(ClassOf[lastPut.object], lastPut.key)
     /\ \A row \in EntriesFor(ClassOf[lastPut.object], lastPut.key) :
            "Function" \in row.attributes \/ "ReadOnly" \notin row.attributes
     /\ "ReadOnly" \notin getOwnProperty(store[lastPut.object], lastPut.key).attributes)
    => Get(store[lastPut.object], native[lastPut.object], lastPut.key,
           ClassOf[lastPut.object], functions + 1).value = lastPut.value

\* putEntry on a read-only value entry, reached through lookupPut from the
\* object's class or a class it inherits put from: the step changes neither
\* the object's own properties nor its native state, and it throws exactly
\* when the write is a strict-mode write.
ReadOnlyEntryKept ==
    [][\A o \in Objects, key \in Keys :
         (/\ lastPut' # lastPut /\ lastPut'.object = o /\ lastPut'.key = key
          /\ WritesReachTable(ClassOf[o], key)
          /\ \E row \in EntriesFor(ClassOf[o], key) :
                 "ReadOnly" \in row.attributes /\ "Function" \notin row.attributes)
         => /\ store'[o] = store[o]
            /\ native'[o] = native[o]
            /\ lastPut'.threw = lastPut'.strict]_vars

\* The slot templates against the descriptor templates: for a frame with
\* access, getOwnPropertyDescriptor finds a property exactly when
\* getOwnPropertySlot does, reports the value the slot yields, and leaves
\* the object as the slot read leaves it.
SlotAndDescriptorAgree ==
    \A o \in Objects, key \in Keys :
        LET req        == RequestOf(o, key, TRUE)
            slot       == classGetOwnPropertySlot(ClassOf[o], req)
            descriptor == classGetOwnPropertyDescriptor(ClassOf[o], req)
        IN  /\ descriptor.found = slot.found
            /\ descriptor.value = slot.value
            /\ descriptor.props = slot.props

\* shouldAllowAccessToFrame in getOwnPropertyDescriptor and
\* shouldAllowAccessToDOMWindow in every generated getter, against
\* getOwnPropertySlot, which has no check of its own: in every reachable
\* state a frame without access to the frame of an object finds no
\* descriptor on it, and what it reads from it under any name is undefined
\* or a property a script put on the object, never the state of the
\* implementation object, whichever of the table and the own store the
\* template meets first.
NoAccessNoNativeState ==
    \A o \in Objects, key \in Keys :
        LET req == RequestOf(o, key, FALSE)
        IN  (ClassOf[o] # Root /\ Classes[ClassOf[o]].guarded) =>
                /\ ~classGetOwnPropertyDescriptor(ClassOf[o], req).found
                /\ classGetOwnPropertySlot(ClassOf[o], req).value
                       \in {Undefined, getOwnProperty(store[o], key).value}

\* The contract of the resolution protocol as the specification states it:
\* an own property of the object shadows the table entry of the same name,
\* so a read returns the own property's value.
OwnPropertyShadowsTable ==
    \A o \in Objects, key \in Keys :
        getOwnProperty(store[o], key).found
            => Get(store[o], native[o], key, ClassOf[o], functions + 1).value
                   = getOwnProperty(store[o], key).value

=============================================================================
