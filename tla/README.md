# TLA+ models of the JavaScriptCore property lookup engine

This directory holds the model-checking project for the property lookup
engine of the JavaScriptCore sources in this repository: the static lookup
table of `Lookup.h`, the table-backed resolution protocol built on it, the
generated binding `JSTestActiveDOMObject.cpp` that uses the protocol, and the
generic object operations of `ObjectConstructor.cpp`; and for the two pieces
of WebCore beside it, `HTMLOptGroupElement.cpp` and
`JSDeviceOrientationEventCustom.cpp`.  Every module is
translated from the C++ under `src/`; code the repository only declares
(`createTable`, `deleteTable`, `setUpStaticFunctionSlot`, the `JSObject`
property store) is modelled from `spec.md` and marked `spec_modelled` in
`PROJECT.json`.

Paths below are relative to `src/modules/`:

| short name | file |
|---|---|
| `Lookup.h` | `web/src/main/native/Source/JavaScriptCore/runtime/Lookup.h` |
| `JSTestActiveDOMObject.cpp` | `web/src/main/native/Source/WebCore/bindings/scripts/test/JS/JSTestActiveDOMObject.cpp` |
| `ObjectConstructor.cpp` | `javafx.web/src/main/native/Source/JavaScriptCore/runtime/ObjectConstructor.cpp` |
| `HTMLOptGroupElement.cpp` | `javafx.web/src/main/native/Source/WebCore/html/HTMLOptGroupElement.cpp` |
| `JSDeviceOrientationEventCustom.cpp` | `javafx.web/src/main/native/Source/WebCore/bindings/js/JSDeviceOrientationEventCustom.cpp` |
| `DateTimeLocalInputType.h` | `javafx.web/src/main/native/Source/WebCore/html/DateTimeLocalInputType.h` |
| `MockWebNotificationProvider.h` | `javafx.web/src/main/native/Tools/DumpRenderTree/mac/MockWebNotificationProvider.h` |

## 1. Inventory

### 1.1 Components

**Static lookup table** (`Lookup.h` 34-233: `HashTableValue`, `HashEntry`,
`HashTable`).
State: per `HashTable` the immutable `values`, `compactSize`,
`compactHashSizeMask`, and the mutable pointer `table` to a heap array of
`HashEntry` (key, attributes, payload, `m_next`).
Operations: `copy()`, `initializeIfNeeded()`, `createTable()`,
`entry(vm, name)`, the private `entry(name)` probe, `begin()`/`end()` and
`ConstIterator` (`operator++`, `skipInvalidKeys`), `deleteTable()`.
Correct when: a probe returns exactly the row `values` declares for a name,
for any hash function and any chain shape; iteration visits every row once;
no `HashTable` points to a released array and no array is built and lost.

**Interned keys** (external).  `Identifier::add(vm, chars)` gives the
`StringImpl` of a name in one VM's identifier table; `entry()` compares keys
by pointer (`Lookup.h` 223), so an array is only usable by the VM that built
it.  Private names have no public `StringImpl` (`Lookup.h` 211-213).

**Table-backed resolution protocol** (`Lookup.h` 235-396).
State: none of its own; it reads a `HashTable` and reads and writes the
object's own property store and the native state behind custom getters.
Operations: `getStaticPropertySlot`, `getStaticFunctionSlot`,
`getStaticValueSlot`, the three `...Descriptor` counterparts, `putEntry`, the
two `lookupPut` overloads, and `setUpStaticFunctionSlot` (declared only).
Correct when: a function entry is materialized once and cached on the object,
and the cached callable is what every later read returns; an assignment over a
function name shadows it; a `ReadOnly` entry is never written and the
rejection is raised exactly in strict mode; the slot and the descriptor paths
agree; a miss is forwarded to the parent class.

**Own property store** (external, `JSObject`).  Per object an ordered
mapping from key to value or accessor pair plus attributes, an `extensible`
flag and a prototype reference.  Consumed through `getOwnPropertySlot`,
`getOwnPropertyDescriptor`, `defineOwnProperty`, `getOwnPropertyNames`,
`preventExtensions`, `put`, `putDirect`, `setPrototype`.

**Generated binding** (`JSTestActiveDOMObject.cpp`).  Three classes that
instantiate the protocol with their tables: the wrapper
(`getStaticValueSlot`, rows `excitingAttr` and `constructor`, a frame access
check in front of the descriptor path), the prototype
(`getStaticFunctionSlot`, rows `excitingFunction` and `postMessage`) and the
constructor (`getStaticValueSlot`, empty table, `prototype` and `length` put
directly by `finishCreation`).  Also the two host functions (receiver check,
access check, argument count, conversion, call of the implementation), the
custom getters with their access check, and the wrapper life cycle (`toJS`,
`finalize`, the destructor).

**Generic object operations** (`ObjectConstructor.cpp`).
State: none of its own; every operation works on the objects of the heap
through their method table.
Operations: `getPrototypeOf` (with the stack-walking access check),
`setPrototypeOf`, `getOwnPropertyDescriptor(s)`, `getOwnPropertyNames`,
`getOwnPropertySymbols`, `keys`, `ownEnumerablePropertyKeys`,
`ownPropertyKeys`, `toPropertyDescriptor`, `defineProperty`,
`defineProperties`, `create`, `seal`, `freeze`, `preventExtensions`,
`isSealed`, `isFrozen`, `isExtensible`, `is`.
Correct when: `freeze` leaves every own data property non-writable, every own
property non-configurable and the object non-extensible, on the
`JSFinalObject` fast path and on the per-key path alike; frozen implies
sealed; `defineProperties` defines nothing when any descriptor is malformed;
a descriptor with a getter or setter never carries `value` or `writable`;
keys come strings first, then symbols, each in insertion order, private
names never; a prototype change never closes a cycle and never happens on a
non-extensible object.

**Construction entry points** (`ObjectConstructor.cpp` 88-149).
`finishCreation`, `addDefineProperty`, `getOwnPropertySlot`,
`constructObject` behind both the call and the construct entry.
State: the own store of the function object `Object`, which has
`defineProperty` both as a row of its table and as a property put directly.
Correct when: scripts and the global object hold the same
`Object.defineProperty`.

**HTMLOptGroupElement** (`HTMLOptGroupElement.cpp`).  DOM element.
State: its place in the tree, the attributes `label` and `disabled`, and on
the side of the `select` above it the list the select shows and the flag
that the list is out of date.
Operations: `childrenChanged`, `parseAttribute`, `recalcSelectOptions`,
`ownerSelectElement`, `groupLabelText`, `isDisabledFormControl`,
`accessKeyAction`, `isFocusable`, `formControlType`, `create`.
All but the two queries `isFocusable` and `formControlType` are modelled.
Correct when: a select that is not marked shows the list of the document as
it is; a style that is not marked was resolved with `disabled` as it is.

**JSDeviceOrientationEvent custom binding**
(`JSDeviceOrientationEventCustom.cpp`).
State: none of its own; the `DeviceOrientationData` of the event.
Operations: the getters `alpha`, `beta`, `gamma`, `absolute` (and
`webkitCompassHeading`, `webkitCompassAccuracy` in place of `absolute` in
the build for iOS), and `initDeviceOrientationEvent`.
Correct when: a getter answers `null` exactly for a component that was not
provided, and "provided" is `isUndefinedOrNull` of the argument, never a
test of the converted value.

**DateTimeLocalInputType** and **MockWebNotificationProvider**: headers with
declarations only.

### 1.2 How the components interact

A property read enters a class's `getOwnPropertySlot`, which calls one of the
`getStatic...Slot` templates with the class's `HashTable` and its parent
class.  The template calls `HashTable::entry`, which materializes the entry
array on first use and probes it; on a function entry it calls
`setUpStaticFunctionSlot`, which reads and, the first time, writes the
object's own store; on a value entry it installs the native getter; on a miss
it calls the parent.  `lookupPut` takes the same route for writes.  The
operations of `ObjectConstructor.cpp` call the object's method table
(`getOwnPropertyNames`, `getOwnPropertyDescriptor`, `defineOwnProperty`,
`preventExtensions`), and so re-enter the protocol for table-backed objects.
`ObjectConstructor` itself is a table-backed class
(`getStaticFunctionSlot<JSObject>` over `objectConstructorTable`).

A wrapper of the binding is made by `toJS`, which asks the wrapper cache
first; the wrapper holds a reference to its implementation object until the
collector calls `finalize` or the destructor.  The host functions reach the
implementation object through the wrapper.

An optgroup talks to the select above it (`setRecalcListItems`, `focus`) and
to the style system (`setNeedsStyleRecalc`).  The custom binding of
`DeviceOrientationEvent` talks to the event only.  Neither meets the lookup
engine in the code of this repository.

### 1.3 What is hard

* The lazy build is a check-then-act on the shared field `table` with no
  lock.  VMs on different threads that share a `HashTable` both build.
* Entry arrays are VM specific: keys are pointers into the identifier table
  of the builder.  `copy()` must not carry `table` over, and `deleteTable`
  of one VM must not release what another `HashTable` points to.
* The chain layout depends on the hash values: buckets first, collisions in
  the overflow slots after `compactHashSizeMask`, linked at the chain's end.
  The iterator has to skip unused slots, at position 0 and after every step.
* The three slot templates differ in the order of "own store" and "table".
  `getStaticFunctionSlot` asks the parent first; `getStaticPropertySlot` and
  `getStaticValueSlot` probe the table first.
* Function self-caching changes the object on a read.
* `seal`, `freeze` and `defineProperties` are loops over a list of names
  collected before the loop; each iteration can raise and stop the loop, with
  the earlier iterations already applied.
* `freeze`/`seal`/`isFrozen`/`isSealed` have a fast path for `JSFinalObject`
  and a per-key path for every other class; both must give the same answers.
* `toPropertyDescriptor` reads six fields in a fixed order with conversions
  and callability checks between them, and rejects mixed descriptors only at
  the end.
* `setPrototypeOf` tests "unchanged" before "extensible" and relies on the
  callee for the cycle check.
* A wrapper releases its implementation object in `finalize` or in the
  destructor, whichever the collector gets to, and `toJS` can replace a dead
  wrapper in the cache before the collector got to either.
* `getOwnPropertyDescriptor` of a wrapper asks `shouldAllowAccessToFrame`,
  `getOwnPropertySlot` does not: there the check is in each generated getter,
  after the template has chosen between the table and the own store.
* An optgroup has to find its select through any number of optgroups above
  it, in the tree as it is after the change it reports.
* `initDeviceOrientationEvent` converts seven arguments and tests for an
  exception after none.

The hazards are listed one by one, at their line, in `PROJECT.json`.

## 2. Plan

Modules, in the order they are written.  Each arrow reads "extends".

1. `HashTable` - the static lookup table for several VMs.
   `MCHashTable` instantiates it.  *Done.*
2. `JSObject` - the own property store as operators on one object's state:
   lookup, `putDirect`, `put`, descriptors, `defineOwnProperty`,
   `getOwnPropertyNames`, the `Structure` transitions, `setPrototype`.
   No behaviour of its own.  *Done.*
3. `Lookup` -> `JSObject` - the resolution protocol: the slot and descriptor
   templates, `putEntry`, `lookupPut`, `setUpStaticFunctionSlot`, as
   operators over a class description (table, parent, which template), and
   the actions `GetOwnPropertySlot`, `GetOwnPropertyDescriptor`, `Put` on a
   small heap.  A probe of the table is the reference lookup
   `hasEntry`/`entry`, which the `hashtable` run shows to be what
   `HashTable::entry` returns.  `MCLookup` gives it two classes written for
   the purpose.  *Done.*
4. `JSTestActiveDOMObject` -> `Lookup` - the three classes of the generated
   binding with their tables, their access checks and the state their
   constructors leave.  *Done.*
5. `ObjectConstructor` -> `JSObject` - the generic object operations on a
   heap of objects with own stores, `JSFinalObject` or not.
   `MCObjectConstructor` gives the heaps.  *Done.*
6. `IntegrityLevel` - abstract specification of what the generic operations
   promise about an object across any call: extensibility is never
   regained, a non-extensible object gains no property and keeps its
   prototype, a non-configurable property stays and changes only as ES5
   8.12.9 allows.  `ObjectConstructor` implements it under a refinement
   mapping computed from the stored attributes.  *Done.*
7. `DeviceOrientation` - the getters and `initDeviceOrientationEvent` of
   the custom binding, for both builds.  `MCDeviceOrientation` gives the
   argument lists.  *Done.*
8. `HTMLOptGroupElement` - the optgroup in a document whose tree and
   attributes change, with the select's list and the style as far as the
   optgroup talks to them.  `MCHTMLOptGroupElement` gives the document.
   *Done.*
9. `ObjectConstructorClass` -> `Lookup` - the function object `Object` as a
   class of the resolution protocol: its table, `finishCreation`,
   `addDefineProperty`, `getOwnPropertySlot`.  *Done.*
10. `JSTestActiveDOMObjectOwner` - the life of a wrapper of the binding and
    the two host functions, with liveness of the release.  *Done.*
11. `toPropertyDescriptor` against the declarative `WellFormed`, through
    `Object.defineProperty`: property `DefinesAsDescribed` of
    `ObjectConstructor`, on the descriptions of `MCObjectConstructor`, and
    the frame `Object.getPrototypeOf` decides on: property
    `PrototypeOnlyToCaller`.  *Done.*
12. The generic operations applied to table-backed objects through the
    method table (`freeze` of a wrapper whose class answers from its table,
    a definition rejected inside the loops of `seal` and `freeze`).  *Not
    pursued*: see section 5.

## 3. Modules

### 3.1 `HashTable` (with `MCHashTable`)

| model | code |
|---|---|
| `hash` | `StringImpl::existingHash()` of every public name, chosen in `Init` |
| `table[i]` | `HashTable::table` of the static table (`Static`) and of each VM's copy |
| `live`, `heap` | the allocated `HashEntry` arrays and their contents |
| `pc`, `call`, `result` | where a VM is inside `entry(vm, name)` or an iteration, and what it returned |
| `copy(v)` | `HashTable::copy()` |
| `Call`, `initializeIfNeeded`, `createTable`, `Probe` | `entry(vm, name)` / `begin(vm)`..`end(vm)`, split where `table` is read or written |
| `deleteTable(v)` | `HashTable::deleteTable()` |
| `entry`, `WalkChain` | the private probe |
| `begin`, `increment`, `skipInvalidKeys`, `Visited` | `ConstIterator` |
| `BuildEntries`, `PlaceRow`, `ChainEnd` | the loop of `createTable` |

An entry names its payload by the index of its row in `values`; attributes
and payload are data the table properties do not tell apart.  An interned key
is the pair of VM and name.  `&` with the mask is `%` by the mask plus one,
the mask being a power of two minus one (an `ASSUME`).  `Probe` returns
"no entry" for a private name before it looks at `table`, as `entry` does
before its `ASSERT(table)`.  `createTable` is in `Lookup.cpp`, outside the
repository: the model builds the array and stores the pointer in one step,
which is kinder than any implementation can be and leaves the race of
`hashtable_shared` as it is.

Runs:

* `hashtable` (`HashTable.cfg`, passes).  VM `main` uses the static table,
  VM `worker` takes a copy.  Three rows, two buckets, `compactSize` 4, hashes
  0..3 for each of four public names: all 256 hash functions, hence every
  chain shape from three rows spread over the two buckets to one chain of
  three, with a probe for a name that is in no row and for a private name.
  `LookupCorrect` and `IterationComplete` compare `entry` and the iterator
  with the rows of `values`; `NoDanglingTable` and `NoLeakedTable` relate
  `table` and the heap across `copy`, `createTable` and `deleteTable` of both
  VMs.  `MaxArrays` = 2 is the number of `HashTable`s, so `createTable` is
  never blocked by the bound.
* `hashtable_shared` (`HashTableShared.cfg`, violation).  Both VMs use the
  static table.  `NoLeakedTable` fails after seven steps: both pass the test
  of `initializeIfNeeded`, both build, the second store replaces the first
  array.

### 3.2 `JSObject`

Operators only.  The store of one object is a sequence of properties in
insertion order, each `[key, value, attributes]`; an accessor property holds
a `GetterSetter` pair as its value and has the attribute `Accessor`.  A
property descriptor is a record with exactly the fields that are present, so
that "the descriptor has no `writable`" is `"writable" \notin DOMAIN desc`.
`defineOwnProperty` is ES5 8.12.9: `Refused` says which changes a property
that is not configurable refuses, `Applied` what the property becomes.  The
`Structure` of a `JSFinalObject` answers for all properties at once
(`structureIsSealed`, `structureIsFrozen`) and changes them at once
(`sealTransition`, `freezeTransition`).  `setPrototype` walks the chain of
the new prototype and refuses to close a cycle.

All of it is outside `src/` and modelled from `spec.md` and the standard the
code cites in its comments.

### 3.3 `Lookup` (with `MCLookup`)

| model | code |
|---|---|
| `Classes[c]` | a class: its `HashTableValue` rows, its parent, which template its `getOwnPropertySlot` calls, whether `put` is `lookupPut` |
| `store[o]` | the own store of `o` |
| `native[o][key]` | the state of the implementation object behind the getters and putters of the value rows |
| `functions` | how many function objects were created (`MaxFunctions` bounds it) |
| `lastPut` | the last assignment and its outcome, for the properties |
| `getStatic...Slot`, `getStatic...Descriptor` | the six templates, as operators from a request to an answer and the store the read leaves |
| `putEntry`, `lookupPutEntry`, `lookupPut` | the write path |
| `GetOwnPropertySlot`, `GetOwnPropertyDescriptor`, `Put` | what a script does to an object |

A read is an action and not only an operator because a read of a function
entry stores the new function on the object.  `MCLookup` has a class `Shape`
with a function, a writable value and a read-only value that uses the
property templates and `lookupPut`, and a class `Circle` derived from it that
uses the function templates.

Run `lookup` (`Lookup.cfg`, passes): `ReadTwiceSame` (a function read twice
is the same callable: in every state a script reaches, the second of two
consecutive reads returns what the first did and changes nothing), `WriteIsRead` (where the
write path meets the table, the next read returns what was written),
`ReadOnlyEntryKept` (an action property: no put changes what a read-only
entry reads and the rejection throws exactly in strict mode),
`SlotAndDescriptorAgree`.  Two script values and up to four functions: each
object can cache its functions and have them overridden by both values.

`NoAccessNoNativeState` is stated here and checked on the generated tables
(section 3.4): the classes of `MCLookup` have no frame check.

### 3.4 `JSTestActiveDOMObject`

The tables of the generated file, row by row, the three classes with their
templates and the stores `finishCreation` leaves.  Module `Lookup` supplies
the behaviour.

* `binding` (`JSTestActiveDOMObject.cfg`, passes): `ReadTwiceSame`,
  `WriteIsRead`, `SlotAndDescriptorAgree` on the real tables, and
  `NoAccessNoNativeState`: a frame without access to the frame of a wrapper
  finds no descriptor on it, and what it reads under any name is undefined
  or a property a script put on the wrapper, never the state of the
  implementation object.  The two entry points get there differently:
  `getOwnPropertyDescriptor` refuses before it looks anything up, while
  `getOwnPropertySlot` lets the template answer and relies on the check
  inside `jsTestActiveDOMObjectExcitingAttr` and
  `jsTestActiveDOMObjectConstructor`.  The invariant is evaluated in every
  state the assignments and reads of a script reach, so with every own store
  a wrapper can have.
* `binding_shadowing` (`JSTestActiveDOMObjectShadowing.cfg`, violation):
  `OwnPropertyShadowsTable`.  The wrapper has no `put` of its own, an
  assignment to `excitingAttr` creates an own property, and
  `getStaticValueSlot` still answers from the table.  `spec.md` says the own
  property shadows the table entry.

### 3.5 `ObjectConstructor` (with `MCObjectConstructor`)

| model | code |
|---|---|
| `allocated` | the objects that exist |
| `store[o]`, `extensible[o]`, `prototype[o]` | the own properties, the flag and the prototype of `o` |
| `FinalObjects` | the objects for which `isJSFinalObject` holds |
| `result` | what the last host function returned, and whether it threw |
| `toPropertyDescriptor`, `readField` | `toPropertyDescriptor`: six reads in order, each of which can throw, then the test for a mixed descriptor |
| `fromPropertyDescriptor` | the description object `getOwnPropertyDescriptor` builds |
| `seal`, `freeze`, `isSealed`, `isFrozen` | the `Structure` path and the loop of each |
| `defineProperties` | both loops of `defineProperties` |
| `ownPropertyKeys` | the three cases of `ownPropertyKeys` |
| `iterate` | `ObjectConstructorGetPrototypeOfFunctor` over the frames of a stack |
| `objectConstructor...`, `constructObject`, `ownEnumerablePropertyKeys` | one action per host function |

A host function runs to its end before the script continues, so each is one
step.  Values are abstract: `Undefined`, `Null`, a `Number`, the booleans
`True` and `False` of the script (converted by `toBoolean` and `jsBoolean`,
never taken for the booleans of the model), callables, and objects.  A
description object is the function from the fields a read finds to what the
read yields; `Raises` in place of a value is a getter that throws.  A
properties object is the list of its enumerable own properties.  A wrapper
made by `toObject` of a primitive exists for one call, except the one
`Object(number)` returns.

`MCObjectConstructor` has the object prototype, an object literal
(`JSFinalObject`), a promise (not a `JSFinalObject`, with its state under a
private name, as `JSPromise` keeps it), an object `made` later by
`Object.create` or `Object()`, and the wrapper of a number.  Keys are a
string `a`, a symbol `s` and the private name `@state`; the key of
`defineProperty` and `getOwnPropertyDescriptor` can also be one whose
`toPropertyKey` throws (`PropertyKeys`), on which both return before they
touch the object.

Runs:

* `object_final` (`ObjectConstructorFinal.cfg`, passes).  Scripts work on the
  literal and on `undefined`, and pass the literal, `made`, `null` and a
  number as prototypes.
* `object_generic` (`ObjectConstructorGeneric.cfg`, passes).  Scripts work on
  the promise and on a number.

Properties:

* `IntegrityReached` - a `seal` or `freeze` that does not throw leaves the
  object sealed or frozen as ES5 defines it on the stored attributes.
* `AnswersRight` - `isSealed` and `isFrozen`, on either path, answer what the
  stored attributes say, in every reachable state.
* `ImplementsIntegrityLevel` - every step of every host function is a step
  of `IntegrityLevel` (3.6): the detailed specification implements the
  abstract one.
* `DefinePropertiesAtomic` - a description list with a malformed
  description, wherever in the list, throws and changes nothing.
  `WellFormed` is the declarative definition of a description
  `toPropertyDescriptor` has to accept.
* `PrototypeChainsEnd` - no sequence of `setPrototypeOf` and `create` makes a
  cycle.
* `KeysInOrder` - strings first, then symbols, each in insertion order,
  private names never, non-enumerable ones by mode.
* `DescriptionDefinesSame` - a description read with
  `getOwnPropertyDescriptor` is accepted by `toPropertyDescriptor` and
  defines the property as it is.
* `PrivateNamesUntouched` - no host function changes a property with a
  private name.
* `DefinesAsDescribed` - `Object.defineProperty` with a description that is
  not `WellFormed` (a field that throws when read, a getter or setter that
  is neither `undefined` nor callable, a getter or setter beside `value` or
  `writable`) throws and leaves the heap as it was; with a well-formed one
  it throws or leaves the property so that reading it back gives every
  field of the description, flags converted by `toBoolean`.  It relates the
  six reads of `toPropertyDescriptor` to what `defineOwnProperty` stores and
  `getOwnPropertyDescriptor` reads, on properties in every state the
  script reached before.
* `PrototypeOnlyToCaller` - `Object.getPrototypeOf` returns the prototype
  when the second frame of the stack passes the access check and
  `undefined` otherwise, whatever the first frame and the frames above the
  second say: the functor skips the frame of the host function and stops at
  the next.
* `TypeOK` - also: no store has a key twice, and the prototype of an object
  that exists is an object that exists.

Bounds.  Two public keys are the least that shows insertion order, a
definition that fails after one that succeeded, and a string after a symbol.
The descriptions cover a new data property, a new accessor, a change of one
flag, a generic descriptor, and every way `toPropertyDescriptor` fails; a
property can reach every combination of `ReadOnly`, `DontEnum`, `DontDelete`
and `Accessor` the definitions allow.  One object to be made is enough for a
cycle of two.  Both configurations are explored completely (7,680 and 1,920
heaps); no bound cuts a behaviour short except the pool of objects, and an
allocation that finds the pool empty is a call the model leaves out, not a
state in which something is wrong.

Both configurations have `VIEW heap`: no host function reads `result`, so
two states with the same heap have the same successors, and the action
properties, which do read `result'`, are checked on every step TLC
generates.

`Stacks` are three call stacks, a frame being whether it passes the access
check: the host function's frame alone, a caller with access below it, and
a caller without access with one that has access further down.  The functor
looks at two frames and returns at the second, so the third frame is there
to show that it is never asked.

Deadlock is checked: a script can always call another host function.

### 3.6 `IntegrityLevel`

The abstract specification.  Its state is what a script can observe of the
objects: which exist, whether each is extensible, its prototype, and the
full descriptor of every property it can name.  It has no operations: a
step is any change in which no object disappears, a new object is
extensible, and every object is treated lawfully (`Lawful`):

* an object does not become extensible again;
* an object that is not extensible gains no property and keeps its
  prototype;
* a property that is not configurable is not removed and stays as it is,
  except that a writable data property may take another value and stop
  being writable (`Keeps`).

A sealed object is one for which the second and third promise cover every
property; of a frozen object `Keeps` leaves no change open.

`ObjectConstructor` instantiates the module with `exists <- allocated` and
`property <- [o \in Objects |-> described(o)]`, where `described(o)` gives
each public key of the store of `o` the descriptor `setDescriptor` makes of
its stored value and attribute bits; `extensible` and `prototype` are the
variables of the same name.  Private names are not part of the abstract
state: scripts cannot name them.  `ImplementsIntegrityLevel` is
`Integrity!Spec`, checked in both runs of 3.5 over every step of every host
function: the `Structure` transitions of `seal` and `freeze`, which set
attribute bits without asking `defineOwnProperty`, the loops, which do ask,
`setPrototypeOf`, and the definitions of `defineProperty`,
`defineProperties` and `create`.

### 3.7 `ObjectConstructorClass`

Extends `Lookup` and gives it one class, that of the function object
`Object`: the seventeen rows of `objectConstructorTable`, all functions, read
through `getStaticFunctionSlot` with `JSObject` as the parent, written
through `JSObject::put`.  (The call at `ObjectConstructor.cpp` 116 is to the
template of a later revision than the `Lookup.h` of the repository; see
section 5.)  The initial store is what `finishCreation` and
`addDefineProperty` put directly, in their order: `name`, `prototype`,
`length`, `getOwnPropertySymbols`, the private names `@getPrototypeOf` and
`@getOwnPropertyNames`, and `defineProperty`.  The scripts of module `Lookup`
read, describe and assign the keys `keys` (a row only), `defineProperty` (a
row and an own property), `length` (an own property only) and `expando`
(neither).

Run `object_class` (`ObjectConstructorClass.cfg`, passes):

* `OwnPropertyShadowsTable` - the property `binding_shadowing` finds
  violated on a class of `getStaticValueSlot` holds on this class: the
  function template asks the own store first.
* `DefinePropertyIsTheOneKept` - a read of `defineProperty` returns the
  function `addDefineProperty` put and the global object keeps, and makes no
  function, until a script assigns another value.

One script value and at most two functions made by reads (`MaxFunctions`):
the only row the scripts read is `keys`, which is made once.

### 3.8 `JSTestActiveDOMObjectOwner`

| model | code |
|---|---|
| `refCount[i]`, `held[i]` | the reference count of a `TestActiveDOMObject` and whether the DOM has one of the references |
| `phase[w]` | the life of a cell: `free`, `live`, `dead` (the collector found it unreachable), `finalized`, `destroyed` |
| `m_impl[w]` | `JSTestActiveDOMObject::m_impl` |
| `cache[i]` | the entry of the wrapper cache for `i` |
| `referenced[w]`, `custom[w]` | whether a script can reach the wrapper; `hasCustomProperties()` |
| `toJS` | `toJS`: null, the existing wrapper, or the constructor and `createNewWrapper` |
| `collect`, `isReachableFromOpaqueRoots`, `isObservable` | the collector asks the owner of the weak handle |
| `finalize` | `JSTestActiveDOMObjectOwner::finalize`: `uncacheWrapper`, `releaseImpl` |
| `destroy` | `destroy` and the destructor: `releaseImplIfNotNull` |
| `jsTestActiveDOMObjectPrototypeFunction...` | the two host functions: receiver check, access check (`excitingFunction` only), argument count, conversion, call |

The collector, the weak handles and the wrapper cache are not in the
repository.  The model takes of them what the binding relies on: the cache
holds the wrapper by a weak handle that reads as empty once the wrapper is
dead, the finalizer belongs to the handle, so that a handle `toJS` replaced
is never finalized, and a dead wrapper whose handle is there is finalized
before it is destroyed.  `toJS` is called by code that holds a reference to
the implementation object (`held`); with `BINDING_INTEGRITY` anything else
stops at the `RELEASE_ASSERT`.

Run `wrapper_life` (`JSTestActiveDOMObjectOwner.cfg`, passes, `FairSpec`):

* `ReleasedOnce` - the count of an implementation object is the reference of
  the DOM plus one for each wrapper that has the pointer, and a destroyed
  wrapper has none: `finalize` and the destructor between them release
  exactly once, on the path finalize-then-destroy and on the path where the
  finalizer was cancelled.
* `OneLiveWrapper` - every live wrapper is the one the cache has for its
  implementation object.
* `ImplFreed` - an implementation object the DOM gave up and that has no
  live wrapper is freed.
* `TypeOK` - also: no count goes below zero.

Two implementation objects and three cells: a wrapper can die, be replaced
and die again while the other implementation object has a wrapper of its
own.  A cell is not used again; `toJS` with no free cell is a call the model
leaves out.

### 3.9 `DeviceOrientation` (with `MCDeviceOrientation`)

| model | code |
|---|---|
| `ios` | `PLATFORM(IOS)`, chosen in `Init`: both builds are checked |
| `Components` | the components of `DeviceOrientationData` the build has, in the order of the arguments |
| `event[e]` | type, bubbles, cancelable and, per component, `provided` and the value |
| `dispatched[e]` | `Event::dispatched()`, which makes the event refuse to be initialized |
| `alpha` ... `absolute` | the getters; `Get` is their common shape, `answer` what they return |
| `initDeviceOrientationEvent` | the host function: seven or eight conversions, then the call on the event |
| `toNumber`, `toBoolean`, `toString` | the conversions of `JSValue` on the values of the model |

Values are `undefined`, `null`, `true`, `false`, the numbers 0, 1 and `NaN`,
a string, and an object whose conversion throws.  A conversion that throws
leaves 0 or the empty string, as the engine does.  A getter of a component
the build does not have is not enabled.

`MCDeviceOrientation` gives the argument lists as a covering set: every
prefix of a complete list (arguments left out), the complete list with each
value at each place of a component, with every choice of components
`undefined`, and with a type whose conversion throws.

* `orientation` (`DeviceOrientation.cfg`, passes): `NullIffNotProvided` -
  after a call that did not throw on an event that was not dispatched, every
  getter answers `null` exactly for `null`, `undefined` and an argument left
  out, and the converted argument otherwise, 0, `NaN` and `false` included.
* `orientation_throw` (`DeviceOrientationThrow.cfg`, violation):
  `ThrowChangesNothing`.  See section 4.

### 3.10 `HTMLOptGroupElement` (with `MCHTMLOptGroupElement`)

| model | code |
|---|---|
| `created` | the optgroups `create` has made |
| `parent[n]` | the tree: `parentNode()` of every element |
| `label[g]`, `disabled[g]` | the attributes of an optgroup |
| `needsStyleRecalc[g]`, `styledDisabled[g]` | `setNeedsStyleRecalc()` was called; `disabled` as the last style resolution saw it |
| `shouldRecalcListItems[s]`, `listItems[s]` | the flag `setRecalcListItems` sets on a select, and the list the select shows |
| `focused[s]` | `focused()` of a select |
| `create` | `HTMLOptGroupElement::create` and the constructor |
| `childrenChanged`, `parseAttribute`, `recalcSelectOptions`, `ownerSelectElement`, `groupLabelText`, `accessKeyAction` | the member functions of the same names |
| `appendChild`, `removeChild`, `setLabel`, `setDisabled` | what a script does; each ends with the callback the DOM makes on the optgroup |
| `recalcListItems`, `resolveStyle`, `blur` | the select makes its list again, the style is resolved, the focus leaves |

The document starts with the select and the option and no optgroup: an
optgroup takes part in the tree, gets attributes, a style or an access key
only after `create` made it (`Elements` are the nodes there are).  The
select, the tree operations and the style resolution are not in the
repository; they are modelled as far as the optgroup talks to them.  A label
is a sequence of characters, so that `stripWhiteSpace` and
`simplifyWhiteSpace` are modelled by what they do;
`displayStringModifiedByEncoding` changes one character for another and is
left out.

Run `optgroup` (`HTMLOptGroupElement.cfg`, passes):

* `ShownIsCurrent` - a select that is not marked shows the options and
  optgroups the document has below it now, with their label texts and
  disabled states.
* `StyleIsCurrent` - an optgroup that asked for no new style was styled with
  `disabled` as it is.
* `TypeOK` - also: the tree has no cycle, and a label text the select shows
  has no white space at its ends and no two in a row.

One select, two optgroups, one option and two labels: an optgroup can be
directly below the select, nested in the other optgroup, or in no tree; the
option can be in either; the labels differ only in white space, which the
shown text must not.  The run has about 800,000 distinct states.  A second select or a node of another kind adds
positions of the same kinds.

### 3.11 Fairness and liveness

One module assumes fairness, where a scheduler the code runs under
justifies it.

`JSTestActiveDOMObjectOwner`: `FairSpec` is `Spec` with weak fairness, for
every wrapper, of `Sweep(w)`, `finalize` or the destructor.  A collection
that found a wrapper dead is followed by the sweep of its block, which
finalizes and destroys it; the wrapper stays ready to be swept until it is,
so weak fairness is enough.  Nothing is assumed of the script, the DOM or
the start of a collection: a wrapper a script holds, or one no collection
has looked at, keeps its implementation object.  `ImplFreed` (run
`wrapper_life`) is checked under it.

The other modules assume no fairness and claim no liveness: their operations
are finite computations a script calls, and nothing promises that a call is
ever made.  A call of `HashTable::entry` is a handful of steps of one thread
that waits for nobody.

## 4. Findings

* `hashtable_shared`: `initializeIfNeeded` (`Lookup.h` 126-133) tests and
  sets the shared field `table` without synchronization; two VMs on one
  `HashTable` both build and one array is lost.
* `binding_shadowing`: `getStaticValueSlot` (`Lookup.h` 326) probes the table
  before the own store, so an own property created by an assignment does not
  shadow the entry of the same name.
* `orientation_throw`: `initDeviceOrientationEvent`
  (`JSDeviceOrientationEventCustom.cpp` 93-119) converts its arguments and
  never asks `exec->hadException()`; when a conversion throws, line 117
  still initializes the event, with the empty string or 0 the failed
  conversion left.  `spec.md` says an error raised while the arguments are
  checked aborts the operation before anything is changed.

## 5. Not modelled

* `DateTimeLocalInputType.h`, `MockWebNotificationProvider.h`: declarations
  without behaviour.
* `DateTimeLocalInputType.h` declares a class whose member functions are
  defined in a file the repository does not have, and
  `MockWebNotificationProvider.h` an Objective-C interface of the same kind;
  `spec.md` describes neither.  A model of them would be written from their
  names.
* `HTMLOptGroupElement::isFocusable` (it asks `supportsFocus` and the
  computed style, both outside the repository) and `formControlType` (a
  constant): two queries that change no state.
* How `shouldAllowAccessToFrame` and `shouldAllowAccessToDOMWindow` decide:
  the model has their answer as an input of a request (`allowed`) and checks
  what follows from a refusal (`NoAccessNoNativeState`).
* Deletion of a function that was stored on the object: the descriptor
  templates test what `setUpStaticFunctionSlot` answers
  (`functionDescriptor`), and in the models it always answers "present".
* What becomes of the custom properties of a wrapper that is collected
  (`isReachableFromOpaqueRoots` answers false for it too): the model has the
  behaviour, the repository states no expectation.
* Script that runs inside a host function (getters of description objects,
  `toPropertyKey`): modelled by its outcome, a value or an exception
  (`Raises` as the value of a field, and as the key of `defineProperty` and
  `getOwnPropertyDescriptor`, which return at once).  What such a script
  does to the heap while it runs is not modelled.
* Indexed (array) properties, deletion of properties, the
  structure-transition machinery behind the property store, garbage
  collection marking (`MarkedArgumentBuffer`), `NaN` and the two zeros in
  `Object.is`, the text of error messages.
* The generic object operations on objects whose class answers from a static
  table (section 2, item 12).  What `freeze` or `defineProperty` do to such
  an object is decided by `JSObject::defineOwnProperty` and
  `getOwnPropertyNames` of a table-backed class, which are outside the
  repository.  `Lookup.h` and `ObjectConstructor.cpp` come from two
  revisions of JavaScriptCore (`modules/web` and `modules/javafx.web`).
  `ObjectConstructorClass` does join them, in one place: the call of
  `getStaticFunctionSlot` at `ObjectConstructor.cpp` 116 is answered by the
  template of `Lookup.h`, which the later revision calls with the table by
  reference and the same order, parent first.  A wider composition would
  rest on code neither revision has here.  For the same reason
  no object of the models rejects a definition inside the loops of `seal`
  and `freeze`.
* `objectConstructorDefineProperties` with `undefined` or `null` as the
  list: the code goes on with what `toObject` returned after throwing; the
  model takes that to have no properties.
* The description `getOwnPropertyDescriptors` stores under a private name:
  the model has it, and no script can name it.
