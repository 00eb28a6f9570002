\* Scripts work on a promise: the path of seal, freeze, isSealed and
\* isFrozen that goes through the properties one by one.
CONSTANTS
    Keys <- MCKeys
    SymbolKeys <- MCSymbolKeys
    PrivateKeys <- MCPrivateKeys
    Objects <- MCGenericHeap
    FinalObjects <- MCNoFinalObjects
    InitialObjects <- MCGenericInitial
    InitialStore <- MCGenericStore
    InitialPrototype <- MCGenericPrototype
    Callables <- MCCallables
    Descriptions <- MCDescriptions
    PropertyLists <- MCPropertyLists
    Stacks <- MCStacks
    Receivers <- MCGenericReceivers
    Prototypes <- MCGenericPrototypes
    ObjectPrototype <- objectPrototype
    Undefined = Undefined
    Null = Null
    Number = Number
    True = True
    False = False
    Raises = Raises
    NumberPrototype = NumberPrototype
    objectPrototype = objectPrototype
    literal = literal
    promise = promise
    made = made
    wrapper = wrapper
    f = f

SPECIFICATION Spec

\* No host function reads result: two states with the same heap have the
\* same future.
VIEW heap

INVARIANTS
    AnswersRight
    KeysInOrder

PROPERTIES
    IntegrityReached
    ImplementsIntegrityLevel
    PrivateNamesUntouched
    PrototypeOnlyToCaller
    DefinesAsDescribed
