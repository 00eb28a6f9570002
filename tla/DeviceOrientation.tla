-------------------------- MODULE DeviceOrientation --------------------------
(***************************************************************************)
(* The custom binding of DeviceOrientationEvent                            *)
(* (JSDeviceOrientationEventCustom.cpp): the getters of the components of  *)
(* the orientation, which answer null for a component that was not         *)
(* provided, and initDeviceOrientationEvent, which converts its arguments  *)
(* one after the other and hands the event a new DeviceOrientationData.    *)
(* The build for iOS has the components compassHeading and                 *)
(* compassAccuracy in place of absolute.                                   *)
(*                                                                         *)
(* A host function runs to its end before the script goes on: each is one  *)
(* step, and result is what the script gets back.                          *)
(***************************************************************************)
EXTENDS Integers, Sequences, TLC, Functions

CONSTANTS Events,         \* the DeviceOrientationEvents scripts hold
          ArgumentLists,  \* the argument lists scripts call with
          Undefined, Null, True, False,
          Zero, One, NaN, \* numbers, as doubles and as values of the script
          Text,           \* a string that is not the text of a number
          Thrower         \* an object whose toString and valueOf throw

Values == {Undefined, Null, True, False, Zero, One, NaN, Text, Thrower}

ASSUME ArgumentLists \subseteq Seq(Values)

VARIABLES ios,         \* PLATFORM(IOS), as the program was built
          event,       \* event[e]: type, bubbles, cancelable and orientation
          dispatched,  \* dispatched[e]: Event::dispatched()
          result       \* what the last host function returned to the script

vars == <<ios, event, dispatched, result>>

\* The components of a DeviceOrientationData, in the order of the arguments
\* of create, which is the order of arguments 3 and up of the script.
Components ==
    <<"alpha", "beta", "gamma">>
        \o (IF ios THEN <<"compassHeading", "compassAccuracy">> ELSE <<"absolute">>)

-----------------------------------------------------------------------------
(* The conversions of JSValue, on the values of the model. *)

isUndefinedOrNull(value) == value \in {Undefined, Null}

\* An exception leaves 0 behind as the number and the empty string as the
\* string.
toNumber(value) ==
    (Undefined :> NaN @@ Null :> Zero @@ True :> One @@ False :> Zero
        @@ Zero :> Zero @@ One :> One @@ NaN :> NaN @@ Text :> NaN
        @@ Thrower :> Zero)[value]

toBoolean(value) == value \notin {Undefined, Null, False, Zero, NaN}

toString(value) ==
    (Undefined :> "undefined" @@ Null :> "null" @@ True :> "true"
        @@ False :> "false" @@ Zero :> "0" @@ One :> "1" @@ NaN :> "NaN"
        @@ Text :> "text" @@ Thrower :> "")[value]

jsBoolean(boolean) == IF boolean THEN True ELSE False

\* ExecState::argument: undefined in place of an argument that was not passed.
argument(args, i) == IF i < Len(args) THEN args[i + 1] ELSE Undefined

-----------------------------------------------------------------------------
(* DeviceOrientationEvent. *)

\* An event as createEvent leaves it: nothing can be provided.
NewEvent ==
    [type |-> "", bubbles |-> FALSE, cancelable |-> FALSE,
     orientation |-> [component \in Range(Components) |->
                         [provided |-> FALSE,
                          value |-> IF component = "absolute" THEN FALSE ELSE Zero]]]

\* DeviceOrientationEvent::initDeviceOrientationEvent: an event that was
\* dispatched is left alone.
initEvent(e, type, bubbles, cancelable, orientation) ==
    IF dispatched[e] THEN event[e]
    ELSE [type |-> type, bubbles |-> bubbles, cancelable |-> cancelable,
          orientation |-> orientation]

-----------------------------------------------------------------------------
(* The host functions. *)

Returns(value, threw) == result' = [value |-> value, threw |-> threw]

\* A fault: absolute is handed to the script as the bool it is.
answerRaw(e, component) ==
    LET data == event[e].orientation[component]
    IN  IF data.provided THEN data.value ELSE Null

\* What a getter answers for a component: null unless it can be provided.
\* absolute is a bool, the others are doubles.
answer(e, component) ==
    LET data == event[e].orientation[component]
    IN  IF ~data.provided THEN Null
        ELSE IF component = "absolute" THEN jsBoolean(data.value)
        ELSE data.value

\* A getter the build has.
Get(e, component) ==
    /\ component \in Range(Components)
    /\ Returns(answer(e, component), FALSE)
    /\ UNCHANGED <<ios, event, dispatched>>

alpha(e) == Get(e, "alpha")

beta(e) == Get(e, "beta")

gamma(e) == Get(e, "gamma")

webkitCompassHeading(e) == Get(e, "compassHeading")

webkitCompassAccuracy(e) == Get(e, "compassAccuracy")

absolute(e) == Get(e, "absolute")

\* A fault: a component counts as provided when its argument is true as a
\* boolean, so that 0 is taken for a missing value.
providedIfTrue(value) == toBoolean(value)

\* Whether the argument of a component marks it as provided.
provided(value) == ~isUndefinedOrNull(value)

\* The argument of a component: alpha is argument 3.
argumentOf(args, component) ==
    argument(args, 2 + CHOOSE i \in DOMAIN Components : Components[i] = component)

\* The DeviceOrientationData initDeviceOrientationEvent makes of arguments
\* 3 and up: toBoolean for absolute, toNumber for the others.
orientationOf(args) ==
    [component \in Range(Components) |->
        [provided |-> provided(argumentOf(args, component)),
         value |-> IF component = "absolute"
                   THEN toBoolean(argumentOf(args, component))
                   ELSE toNumber(argumentOf(args, component))]]

\* The conversions that can throw: toString of the type and toNumber of
\* the components that are doubles.  No conversion is followed by a test
\* for an exception.
threw(args) ==
    \/ argument(args, 0) = Thrower
    \/ \E component \in Range(Components) \ {"absolute"} :
          argumentOf(args, component) = Thrower

initDeviceOrientationEvent(e, args) ==
    /\ event' = [event EXCEPT ![e] =
                    initEvent(e, toString(argument(args, 0)),
                              toBoolean(argument(args, 1)),
                              toBoolean(argument(args, 2)),
                              orientationOf(args))]
    /\ Returns(Undefined, threw(args))
    /\ UNCHANGED <<ios, dispatched>>

\* EventTarget::dispatchEvent, as far as the event is concerned.
dispatchEvent(e) ==
    /\ ~dispatched[e]
    /\ dispatched' = [dispatched EXCEPT ![e] = TRUE]
    /\ Returns(True, FALSE)
    /\ UNCHANGED <<ios, event>>

Init ==
    /\ ios \in BOOLEAN
    /\ event = [e \in Events |-> NewEvent]
    /\ dispatched = [e \in Events |-> FALSE]
    /\ result = [value |-> Undefined, threw |-> FALSE]

Next ==
    \E e \in Events :
        \/ alpha(e) \/ beta(e) \/ gamma(e)
        \/ webkitCompassHeading(e) \/ webkitCompassAccuracy(e)
        \/ absolute(e)
        \/ \E args \in ArgumentLists : initDeviceOrientationEvent(e, args)
        \/ dispatchEvent(e)

Spec == Init /\ [][Next]_vars

-----------------------------------------------------------------------------
(* Properties. *)

Doubles == {Zero, One, NaN}

TypeOK ==
    /\ ios \in BOOLEAN
    /\ \A e \in Events :
          /\ event[e].type \in STRING
          /\ event[e].bubbles \in BOOLEAN /\ event[e].cancelable \in BOOLEAN
          /\ DOMAIN event[e].orientation = Range(Components)
          /\ \A component \in Range(Components) :
                LET data == event[e].orientation[component]
                IN  /\ data.provided \in BOOLEAN
                    /\ data.value \in IF component = "absolute" THEN BOOLEAN
                                      ELSE Doubles
    /\ dispatched \in [Events -> BOOLEAN]
    /\ result \in [value : Values, threw : BOOLEAN]

\* What the script is to read back for a component after it passed value:
\* null for null, undefined and an argument left out, the standard
\* conversion of value otherwise.
Expected(component, value) ==
    IF isUndefinedOrNull(value) THEN Null
    ELSE IF component = "absolute" THEN jsBoolean(toBoolean(value))
    ELSE toNumber(value)

\* initDeviceOrientationEvent against the getters alpha, beta, gamma,
\* absolute, webkitCompassHeading and webkitCompassAccuracy: after a call
\* that did not throw, on an event that was not dispatched, every getter of
\* the build answers null exactly for the components whose argument was
\* null, undefined or left out, and the converted argument for the others,
\* 0 and NaN included.
NullIffNotProvided ==
    [][\A e \in Events, args \in ArgumentLists :
         initDeviceOrientationEvent(e, args) /\ ~dispatched[e] /\ ~result'.threw
         => \A component \in Range(Components) :
                answer(e, component)' = Expected(component, argumentOf(args, component))]_vars

\* initDeviceOrientationEvent with an argument whose conversion throws:
\* an operation that fails while it checks its arguments is to change
\* nothing.
ThrowChangesNothing ==
    [][result'.threw => UNCHANGED event]_vars

=============================================================================
