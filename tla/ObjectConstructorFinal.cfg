\* Scripts work on an object literal: the Structure path of seal, freeze,
\* isSealed and isFrozen.
CONSTANTS
    Keys <- MCKeys
    SymbolKeys <- MCSymbolKeys
    PrivateKeys <- MCPrivateKeys
    Objects <- MCFinalHeap
    FinalObjects <- MCFinalObjects
    InitialObjects <- MCFinalInitial
    InitialStore <- MCFinalStore
    InitialPrototype <- MCFinalPrototype
    Callables <- MCCallables
    Descriptions <- MCDescriptions
    PropertyLists <- MCPropertyLists
    Stacks <- MCStacks
    Receivers <- MCFinalReceivers
    Prototypes <- MCFinalPrototypes
    ObjectPrototype <- objectPrototype
    Undefined = Undefined
    Null = Null
    Number = Number
    True = True
    False = False
    Raises = Raises
    NumberPrototype = NumberPrototype
    objectPrototype = objectPrototype
    literal = literal
    promise = promise
    made = made
    wrapper = wrapper
    f = f

SPECIFICATION Spec

\* No host function reads result: two states with the same heap have the
\* same future.
VIEW heap

INVARIANTS
    TypeOK
    AnswersRight
    PrototypeChainsEnd
    KeysInOrder
    DescriptionDefinesSame

PROPERTIES
    IntegrityReached
    ImplementsIntegrityLevel
    DefinePropertiesAtomic
