--------------------- MODULE JSTestActiveDOMObjectOwner ---------------------
(***************************************************************************)
(* The life of a wrapper of the generated binding                          *)
(* (JSTestActiveDOMObject.cpp): toJS makes or finds the wrapper of an      *)
(* implementation object, the wrapper holds a reference to it, the         *)
(* collector finds the wrapper dead, finalize takes it out of the cache    *)
(* and releases the reference, the destructor releases it if that has not  *)
(* happened.  The two host functions reach the implementation object       *)
(* through the wrapper.                                                    *)
(*                                                                         *)
(* The collector, the weak handles and the cache of wrappers are outside   *)
(* the repository.  What is taken of them: the cache holds a wrapper by a  *)
(* weak handle, which reads as empty once the wrapper is dead; the         *)
(* finalizer belongs to the handle, so a handle that is replaced in the    *)
(* cache is never finalized; a dead wrapper is finalized, if its handle is *)
(* there, before it is destroyed.                                          *)
(***************************************************************************)
EXTENDS Integers, FiniteSets

CONSTANTS Impls,      \* the TestActiveDOMObjects
          Wrappers,   \* the cells a JSTestActiveDOMObject can be made in
          NoImpl,     \* a null TestActiveDOMObject*
          NoWrapper,  \* an empty place of the cache
          NotAWrapper \* a this value that is no JSTestActiveDOMObject

VARIABLES refCount,    \* refCount[i]: the references to i
          held,        \* held[i]: the DOM has a reference to i
          phase,       \* phase[w]: where the cell is in its life
          m_impl,      \* m_impl[w]: JSTestActiveDOMObject::m_impl
          cache,       \* cache[i]: the wrapper the weak handle of i is for
          referenced,  \* referenced[w]: a script can reach w
          custom,      \* custom[w]: hasCustomProperties(), a script put one
          result       \* what the last call returned to the script

vars == <<refCount, held, phase, m_impl, cache, referenced, custom, result>>

live(w) == phase[w] = "live"

\* The constructor takes the reference it is passed; releaseImpl gives it
\* back and forgets the pointer.
ref(counts, i) == [counts EXCEPT ![i] = @ + 1]

deref(counts, i) == [counts EXCEPT ![i] = @ - 1]

Returns(value, threw, called) ==
    result' = [value |-> value, threw |-> threw, called |-> called]

-----------------------------------------------------------------------------
(* toJS. *)

\* getExistingWrapper: the wrapper in the cache, unless it is dead.
getExistingWrapper(i) == IF cache[i] # NoWrapper /\ live(cache[i]) THEN cache[i] ELSE NoWrapper

\* A fault: the cache is not asked.
toJSAlwaysNew(impl) ==
    /\ impl # NoImpl /\ held[impl]
    /\ \E w \in Wrappers :
          /\ phase[w] = "free"
          /\ phase' = [phase EXCEPT ![w] = "live"]
          /\ m_impl' = [m_impl EXCEPT ![w] = impl]
          /\ refCount' = ref(refCount, impl)
          /\ cache' = [cache EXCEPT ![impl] = w]
          /\ referenced' = [referenced EXCEPT ![w] = TRUE]
          /\ Returns(w, FALSE, NoImpl)
    /\ UNCHANGED <<held, custom>>

\* toJS(exec, globalObject, impl): null for null, the wrapper there is, or
\* a new one, which createNewWrapper puts in the cache in place of whatever
\* dead wrapper the cache had.
toJS(impl) ==
    \/ /\ impl = NoImpl
       /\ Returns(NoWrapper, FALSE, NoImpl)
       /\ UNCHANGED <<refCount, held, phase, m_impl, cache, referenced, custom>>
    \/ /\ impl # NoImpl /\ held[impl]
       /\ getExistingWrapper(impl) # NoWrapper
       /\ referenced' = [referenced EXCEPT ![getExistingWrapper(impl)] = TRUE]
       /\ Returns(getExistingWrapper(impl), FALSE, NoImpl)
       /\ UNCHANGED <<refCount, held, phase, m_impl, cache, custom>>
    \/ /\ impl # NoImpl /\ held[impl]
       /\ getExistingWrapper(impl) = NoWrapper
       /\ \E w \in Wrappers :
             /\ phase[w] = "free"
             /\ phase' = [phase EXCEPT ![w] = "live"]
             /\ m_impl' = [m_impl EXCEPT ![w] = impl]
             /\ refCount' = ref(refCount, impl)
             /\ cache' = [cache EXCEPT ![impl] = w]
             /\ referenced' = [referenced EXCEPT ![w] = TRUE]
             /\ Returns(w, FALSE, NoImpl)
       /\ UNCHANGED <<held, custom>>

\* toTestActiveDOMObject(value)
toTestActiveDOMObject(value) == IF value \in Wrappers THEN m_impl[value] ELSE NoImpl

-----------------------------------------------------------------------------
(* The collector. *)

isObservable(w) == custom[w]

\* JSTestActiveDOMObjectOwner::isReachableFromOpaqueRoots: no opaque root
\* keeps a wrapper, observable or not.
isReachableFromOpaqueRoots(w) == IF ~isObservable(w) THEN FALSE ELSE FALSE

\* A script puts a property of its own on a wrapper.
putCustomProperty(w) ==
    /\ live(w) /\ referenced[w] /\ ~custom[w]
    /\ custom' = [custom EXCEPT ![w] = TRUE]
    /\ UNCHANGED <<refCount, held, phase, m_impl, cache, referenced, result>>

\* The script forgets a wrapper.
forget(w) ==
    /\ live(w) /\ referenced[w]
    /\ referenced' = [referenced EXCEPT ![w] = FALSE]
    /\ UNCHANGED <<refCount, held, phase, m_impl, cache, custom, result>>

\* A collection finds that nothing reaches the wrapper.
collect(w) ==
    /\ live(w) /\ ~referenced[w] /\ ~isReachableFromOpaqueRoots(w)
    /\ phase' = [phase EXCEPT ![w] = "dead"]
    /\ UNCHANGED <<refCount, held, m_impl, cache, referenced, custom, result>>

\* Whether the weak handle the wrapper was cached with is still there.
hasHandle(w) == m_impl[w] # NoImpl /\ cache[m_impl[w]] = w

\* A fault: releaseImpl gives the reference back and keeps the pointer.
finalizeKeepingPointer(w) ==
    /\ phase[w] = "dead" /\ hasHandle(w)
    /\ cache' = [cache EXCEPT ![m_impl[w]] = NoWrapper]
    /\ refCount' = deref(refCount, m_impl[w])
    /\ phase' = [phase EXCEPT ![w] = "finalized"]
    /\ UNCHANGED <<held, m_impl, referenced, custom, result>>

\* JSTestActiveDOMObjectOwner::finalize: uncacheWrapper, releaseImpl.
finalize(w) ==
    /\ phase[w] = "dead" /\ hasHandle(w)
    /\ cache' = [cache EXCEPT ![m_impl[w]] = NoWrapper]
    /\ refCount' = deref(refCount, m_impl[w])
    /\ m_impl' = [m_impl EXCEPT ![w] = NoImpl]
    /\ phase' = [phase EXCEPT ![w] = "finalized"]
    /\ UNCHANGED <<held, referenced, custom, result>>

\* A fault: the destructor leaves the reference to finalize.
destroyOnly(w) ==
    /\ phase[w] = "finalized" \/ (phase[w] = "dead" /\ ~hasHandle(w))
    /\ phase' = [phase EXCEPT ![w] = "destroyed"]
    /\ UNCHANGED <<refCount, held, m_impl, cache, referenced, custom, result>>

\* JSTestActiveDOMObject::destroy and the destructor, when the cell is
\* swept: releaseImplIfNotNull.
destroy(w) ==
    /\ phase[w] = "finalized" \/ (phase[w] = "dead" /\ ~hasHandle(w))
    /\ phase' = [phase EXCEPT ![w] = "destroyed"]
    /\ refCount' = IF m_impl[w] # NoImpl THEN deref(refCount, m_impl[w]) ELSE refCount
    /\ m_impl' = [m_impl EXCEPT ![w] = NoImpl]
    /\ UNCHANGED <<held, cache, referenced, custom, result>>

\* The DOM gives up its reference.
release(i) ==
    /\ held[i]
    /\ held' = [held EXCEPT ![i] = FALSE]
    /\ refCount' = deref(refCount, i)
    /\ UNCHANGED <<phase, m_impl, cache, referenced, custom, result>>

-----------------------------------------------------------------------------
(* The host functions.  allowed: shouldAllowAccessToDOMWindow; enough: the *)
(* call has an argument; converts: its conversion does not throw.  called  *)
(* is the implementation object whose function ran.                        *)

jsTestActiveDOMObjectPrototypeFunctionExcitingFunction(thisValue, allowed, enough, converts) ==
    /\ \/ thisValue = NotAWrapper /\ Returns("undefined", TRUE, NoImpl)
       \/ thisValue # NotAWrapper /\ ~allowed /\ Returns("undefined", FALSE, NoImpl)
       \/ thisValue # NotAWrapper /\ allowed /\ ~(enough /\ converts)
             /\ Returns("undefined", TRUE, NoImpl)
       \/ thisValue # NotAWrapper /\ allowed /\ enough /\ converts
             /\ Returns("undefined", FALSE, m_impl[thisValue])
    /\ UNCHANGED <<refCount, held, phase, m_impl, cache, referenced, custom>>

\* postMessage asks nobody whether the access is allowed.
jsTestActiveDOMObjectPrototypeFunctionPostMessage(thisValue, enough, converts) ==
    /\ \/ thisValue = NotAWrapper /\ Returns("undefined", TRUE, NoImpl)
       \/ thisValue # NotAWrapper /\ ~(enough /\ converts)
             /\ Returns("undefined", TRUE, NoImpl)
       \/ thisValue # NotAWrapper /\ enough /\ converts
             /\ Returns("undefined", FALSE, m_impl[thisValue])
    /\ UNCHANGED <<refCount, held, phase, m_impl, cache, referenced, custom>>

\* The values a script can pass as this.
Receivers == {w \in Wrappers : live(w) /\ referenced[w]} \cup {NotAWrapper}

-----------------------------------------------------------------------------

Init ==
    /\ refCount = [i \in Impls |-> 1]
    /\ held = [i \in Impls |-> TRUE]
    /\ phase = [w \in Wrappers |-> "free"]
    /\ m_impl = [w \in Wrappers |-> NoImpl]
    /\ cache = [i \in Impls |-> NoWrapper]
    /\ referenced = [w \in Wrappers |-> FALSE]
    /\ custom = [w \in Wrappers |-> FALSE]
    /\ result = [value |-> "undefined", threw |-> FALSE, called |-> NoImpl]

Sweep(w) == finalize(w) \/ destroy(w)

Next ==
    \/ \E impl \in Impls \cup {NoImpl} : toJS(impl)
    \/ \E i \in Impls : release(i)
    \/ \E w \in Wrappers :
          forget(w) \/ putCustomProperty(w) \/ collect(w) \/ finalize(w) \/ destroy(w)
    \/ \E thisValue \in Receivers, allowed, enough, converts \in BOOLEAN :
          jsTestActiveDOMObjectPrototypeFunctionExcitingFunction(thisValue, allowed, enough, converts)
    \/ \E thisValue \in Receivers, enough, converts \in BOOLEAN :
          jsTestActiveDOMObjectPrototypeFunctionPostMessage(thisValue, enough, converts)

Spec == Init /\ [][Next]_vars

\* A collection comes when memory is needed and the sweep follows it: a
\* dead wrapper is finalized and destroyed.  Nothing makes scripts forget.
FairSpec == Spec /\ \A w \in Wrappers : WF_vars(Sweep(w))

-----------------------------------------------------------------------------
(* Properties. *)

TypeOK ==
    /\ refCount \in [Impls -> Nat]
    /\ held \in [Impls -> BOOLEAN]
    /\ phase \in [Wrappers -> {"free", "live", "dead", "finalized", "destroyed"}]
    /\ m_impl \in [Wrappers -> Impls \cup {NoImpl}]
    /\ cache \in [Impls -> Wrappers \cup {NoWrapper}]
    /\ referenced \in [Wrappers -> BOOLEAN]
    /\ custom \in [Wrappers -> BOOLEAN]
    /\ result \in [value : Wrappers \cup {NoWrapper, "undefined"}, threw : BOOLEAN,
                   called : Impls \cup {NoImpl}]

\* The constructor, finalize and the destructor, against the count of the
\* implementation object: every wrapper gives back the reference it took
\* exactly once, whether it was finalized and then destroyed or, its place
\* in the cache taken by a new wrapper before the finalizer ran, destroyed
\* only.  The count is the reference of the DOM and one for each wrapper
\* that has the pointer, and a destroyed wrapper has none.
ReleasedOnce ==
    /\ \A i \in Impls :
          refCount[i] = (IF held[i] THEN 1 ELSE 0)
                            + Cardinality({w \in Wrappers : m_impl[w] = i})
    /\ \A w \in Wrappers : phase[w] = "destroyed" => m_impl[w] = NoImpl

\* toJS against the collector: at any time an implementation object has at
\* most one live wrapper, and it is the one in the cache, so that two calls
\* of toJS give a script the identical object as long as it holds the first;
\* and the wrapper a host function is called on has its implementation
\* object.
OneLiveWrapper ==
    \A w \in Wrappers :
        live(w) => m_impl[w] # NoImpl /\ cache[m_impl[w]] = w

\* finalize and the destructor under a collector that sweeps: an
\* implementation object the DOM gave up and that has no live wrapper
\* is freed, its count reaches 0,
\* also when one of them lost its place in the cache to a later wrapper and
\* is never finalized.
ImplFreed ==
    \A i \in Impls :
        (~held[i] /\ \A w \in Wrappers : m_impl[w] = i => ~live(w))
            ~> refCount[i] = 0

=============================================================================
