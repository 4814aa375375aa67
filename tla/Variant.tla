------------------------------- MODULE Variant -------------------------------
(***************************************************************************)
(* CommonAPI::Variant<Types...> (include/CommonAPI/Variant.hpp): raw       *)
(* storage in which at most one object of one of the types lives, and      *)
(* valueType_, the index of that type, counted from the end of the list.   *)
(*                                                                         *)
(* The variants of the model are variables of one thread.  What can go     *)
(* wrong is the life of the objects in the storage: that one is destroyed  *)
(* twice, is overwritten without being destroyed, or is read when it is    *)
(* not there.  Constructors of the objects may throw, and so may a         *)
(* binding that reads one; a binding may read an index that no type has;   *)
(* the value that is assigned to a variant may be the one it holds.        *)
(* Objects are compared with the == of their type, which is external: a    *)
(* value need not be equal to itself, and two different values may be      *)
(* equal.                                                                  *)
(***************************************************************************)
EXTENDS Integers

CONSTANTS
    Vars,       \* the variants
    TypeCount,  \* number of types
    Values,     \* the values of each type
    Default,    \* that of a default-constructed object
    Equals,     \* external: <<x, y>>: x == y, which is false of NaN and NaN
    Raw         \* storage without an object

ASSUME TypeCountAssumption == TypeCount \in Nat \ {0}
ASSUME ValuesAssumption == Default \in Values /\ Equals \subseteq Values \X Values
ASSUME RawAssumption == Raw \notin [type : 1 .. TypeCount, value : Values]

VARIABLES
    built,      \* the variants between their constructor and their destructor
    valueType,  \* valueType[v]: valueType_
    storage,    \* storage[v]: the object in valueStorage_, or Raw
    broken,     \* ghost: the variants of which an assignment or a reading threw,
                \* or that were assigned their own value
    leaked,     \* ghost: the variants whose object was overwritten alive
    undefined   \* ghost: the variants of which an object was used that was not
                \* there; what follows is undefined, and not modelled

vars == <<built, valueType, storage, broken, leaked, undefined>>

------------------------------------------------------------------------------
TypeIndexes == 1 .. TypeCount

Objects == [type : TypeIndexes, value : Values]

HasValue(v) == valueType[v] # 0 /\ valueType[v] <= TypeCount

\* The storage is what the visitors and get<T>() take it for: an object of the type
\* that valueType_ says.
Holds(v) == storage[v] # Raw /\ storage[v].type = valueType[v]

\* Visiting a variant that has no value does nothing but log an error.
VisitIsUndefined(v) == HasValue(v) /\ ~Holds(v)

Init ==
    /\ built = {}
    /\ valueType = [v \in Vars |-> 0]
    /\ storage = [v \in Vars |-> Raw]
    /\ broken = {}
    /\ leaked = {}
    /\ undefined = {}

Only(v, condition) == IF condition THEN {v} ELSE {}

------------------------------------------------------------------------------
(***************************************************************************)
(* Constructors and destructor.  If the constructor of the object throws,  *)
(* there is no variant.                                                    *)
(***************************************************************************)
Construct(v, type, object) ==
    /\ undefined = {}
    /\ v \notin built
    /\ built' = built \cup {v}
    /\ valueType' = [valueType EXCEPT ![v] = type]
    /\ storage' = [storage EXCEPT ![v] = object]
    /\ broken' = broken \ {v}
    /\ UNCHANGED leaked

\* Variant(): the first of the types, whose index is their number.
DefaultConstruct(v) ==
    /\ Construct(v, TypeCount, [type |-> TypeCount, value |-> Default])
    /\ UNCHANGED undefined

ValueConstruct(v, o) == Construct(v, o.type, o) /\ UNCHANGED undefined

\* Copying a variant that has no value copies its index.  The move constructor copies,
\* too, and leaves its source as it is.
CopyConstruct(v, u) ==
    /\ u \in built
    /\ Construct(v, valueType[u], IF HasValue(u) THEN storage[u] ELSE Raw)
    /\ undefined' = Only(u, VisitIsUndefined(u))

Destruct(v) ==
    /\ undefined = {}
    /\ v \in built
    /\ built' = built \ {v}
    /\ valueType' = [valueType EXCEPT ![v] = 0]
    /\ storage' = [storage EXCEPT ![v] = Raw]
    /\ leaked' = leaked \cup Only(v, ~HasValue(v) /\ storage[v] # Raw)
    /\ undefined' = Only(v, VisitIsUndefined(v))
    /\ UNCHANGED broken

------------------------------------------------------------------------------
(***************************************************************************)
(* set(value, clear): destroy, construct in place, record the type.  When  *)
(* the constructor throws, the last two do not happen.  isOwn says that    *)
(* the value is a reference to the object that is destroyed.               *)
(***************************************************************************)
\* Mutants: the type is not recorded; the old object is not destroyed.
TypeKept(v, o) == valueType
NeverClears(v) == FALSE

TypeRecorded(v, o) == [valueType EXCEPT ![v] = o.type]

\* operator= clears the storage of a variant that has a value.
Clears(v) == HasValue(v)

Set(v, o, isOwn) ==
    /\ storage' = [storage EXCEPT ![v] = o]
    /\ valueType' = TypeRecorded(v, o)
    /\ leaked' = leaked \cup Only(v, ~Clears(v) /\ storage[v] # Raw)
    /\ undefined' = Only(v, Clears(v) /\ (isOwn \/ VisitIsUndefined(v)))
    /\ UNCHANGED built

SetThrows(v) ==
    /\ storage' = [storage EXCEPT ![v] = IF Clears(v) THEN Raw ELSE @]
    /\ broken' = broken \cup Only(v, Clears(v))
    /\ undefined' = Only(v, Clears(v) /\ VisitIsUndefined(v))
    /\ UNCHANGED <<built, valueType, leaked>>

AssignValue(v, o) ==
    /\ undefined = {}
    /\ v \in built
    /\ Set(v, o, FALSE)
    /\ UNCHANGED broken

AssignValueThrows(v) ==
    /\ undefined = {}
    /\ v \in built
    /\ SetThrows(v)

\* v = v.get<T>()
AssignOwnValue(v) ==
    /\ undefined = {}
    /\ v \in built /\ HasValue(v) /\ Holds(v)
    /\ Set(v, storage[v], TRUE)
    /\ broken' = broken \cup {v}

------------------------------------------------------------------------------
(***************************************************************************)
(* Comparison, and the assignment of variants, which comes after it.       *)
(***************************************************************************)
\* Mutant: assignment does not compare.
NeverEqual(v, u) == FALSE

\* Where both visits are defined.
Equal(v, u) ==
    /\ HasValue(u)
    /\ valueType[v] = valueType[u]
    /\ <<storage[u].value, storage[v].value>> \in Equals

\* Comparing visits both variants.
CompareIsUndefined(v, u) ==
    VisitIsUndefined(u) \/ (valueType[v] = valueType[u] /\ VisitIsUndefined(v))

Assigns(v, u) == ~Equal(v, u) /\ HasValue(u)

AssignVariant(v, u) ==
    /\ undefined = {}
    /\ {v, u} \subseteq built
    /\ ~CompareIsUndefined(v, u)
    /\ Assigns(v, u)
    /\ Set(v, storage[u], v = u)
    /\ broken' = broken \cup Only(v, v = u /\ <<storage[u].value, storage[u].value>> \notin Equals)

AssignVariantThrows(v, u) ==
    /\ undefined = {}
    /\ {v, u} \subseteq built
    /\ ~CompareIsUndefined(v, u)
    /\ Assigns(v, u)
    /\ SetThrows(v)

\* The assignment of an equal variant, or of one that has no value, does nothing: a
\* variant that holds another value that is equal keeps it.
AssignNothing(v, u) ==
    /\ undefined = {}
    /\ {v, u} \subseteq built
    /\ ~CompareIsUndefined(v, u)
    /\ ~Assigns(v, u)
    /\ UNCHANGED vars

CompareBroken(v, u) ==
    /\ undefined = {}
    /\ {v, u} \subseteq built
    /\ CompareIsUndefined(v, u)
    /\ undefined' = Only(v, VisitIsUndefined(v)) \cup Only(u, VisitIsUndefined(u))
    /\ UNCHANGED <<built, valueType, storage, broken, leaked>>

(***************************************************************************)
(* The bindings read a variant through InputStreamReadVisitor, whose set() *)
(* does not clear: they destroy the old object first, store the index they *)
(* read, whatever it is, and visit.                                        *)
(***************************************************************************)
\* The old object is destroyed and the index stored.
ReadIndex(v, i) ==
    /\ undefined = {}
    /\ v \in built
    /\ valueType' = [valueType EXCEPT ![v] = i]
    /\ leaked' = leaked \cup Only(v, ~HasValue(v) /\ storage[v] # Raw)
    /\ undefined' = Only(v, VisitIsUndefined(v))
    /\ UNCHANGED built

Read(v, i, x) ==
    /\ ReadIndex(v, i)
    /\ storage' = [storage EXCEPT ![v] =
           IF i \in TypeIndexes THEN [type |-> i, value |-> x] ELSE Raw]
    /\ broken' = broken \ Only(v, ~VisitIsUndefined(v))

\* Then the Deployable is constructed, read, and moved into the storage: each of these
\* may throw.
ReadingThrows(v, i) ==
    /\ ReadIndex(v, i)
    /\ i \in TypeIndexes
    /\ storage' = [storage EXCEPT ![v] = Raw]
    /\ broken' = broken \cup {v}

Next ==
    \/ \E v, u \in Vars :
          \/ CopyConstruct(v, u) \/ AssignVariant(v, u) \/ AssignVariantThrows(v, u)
          \/ AssignNothing(v, u) \/ CompareBroken(v, u)
    \/ \E v \in Vars :
          \/ DefaultConstruct(v) \/ Destruct(v) \/ AssignValueThrows(v) \/ AssignOwnValue(v)
          \/ \E o \in Objects : ValueConstruct(v, o) \/ AssignValue(v, o)
          \/ \E i \in 0 .. TypeCount + 1 : ReadingThrows(v, i) \/ \E x \in Values : Read(v, i, x)

Spec == Init /\ [][Next]_vars

------------------------------------------------------------------------------
(***************************************************************************)
(* Properties                                                              *)
(***************************************************************************)
\* Every variable has its type.
TypeOK ==
    /\ built \subseteq Vars
    /\ valueType \in [Vars -> 0 .. TypeCount + 1]
    /\ storage \in [Vars -> Objects \cup {Raw}]
    /\ broken \subseteq Vars /\ leaked \subseteq Vars /\ undefined \subseteq Vars

\* Whatever operations came before, a variant that has a value holds an object of the
\* type it says, and one that has none, or was destroyed, holds nothing; unless an
\* assignment to it or a reading of it threw, or it was assigned its own value.
ContentTyped ==
    /\ TypeOK
    /\ \A v \in Vars \ built : storage[v] = Raw
    /\ undefined = {} =>
          \A v \in built \ broken : IF HasValue(v) THEN Holds(v) ELSE storage[v] = Raw

\* No object is overwritten without being destroyed: not even when assignments or
\* readings throw, or bindings read indexes that no type has.
NothingLeaks == leaked = {}

\* No object is used, compared or destroyed that is not there, unless an assignment to
\* the variant or a reading of it threw, or it was assigned its own value: v = v.get<T>(),
\* or v = v when its value is not equal to itself, which CHANGES:29 takes for fixed.
UndefinedOnlyIfBroken == undefined \subseteq broken
==============================================================================
