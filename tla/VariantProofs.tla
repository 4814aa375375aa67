---------------------------- MODULE VariantProofs ----------------------------
(***************************************************************************)
(* Theorems about Variant, for every number of variants and types and for  *)
(* every set of values.                                                    *)
(***************************************************************************)
EXTENDS Variant, TLAPS

-----------------------------------------------------------------------------
(***************************************************************************)
(* The inductive invariant.  ContentTyped excuses broken variants; what    *)
(* makes it inductive is what remains true of these: as long as nothing    *)
(* undefined happened, the storage is either empty or of the right type.   *)
(***************************************************************************)
Content(v) ==
    /\ ~HasValue(v) => storage[v] = Raw
    /\ HasValue(v) => storage[v] = Raw \/ Holds(v)
    /\ HasValue(v) /\ v \notin broken => Holds(v)

ContentInv ==
    /\ TypeOK
    /\ \A v \in Vars \ built : storage[v] = Raw
    /\ undefined = {} => \A v \in built : Content(v)

LifeInv == ContentInv /\ NothingLeaks /\ UndefinedOnlyIfBroken

-----------------------------------------------------------------------------
(***************************************************************************)
(* Lemmas about the helpers.                                               *)
(***************************************************************************)
LEMMA OnlyFacts ==
    ASSUME NEW v, NEW condition \in BOOLEAN
    PROVE  /\ condition => Only(v, condition) = {v}
           /\ ~condition => Only(v, condition) = {}
BY DEF Only

\* While nothing undefined happened, only the visit of a broken variant is undefined.
LEMMA VisitsOfBroken ==
    ASSUME ContentInv, undefined = {}, NEW v \in built, VisitIsUndefined(v)
    PROVE  v \in broken
BY DEF ContentInv, Content, VisitIsUndefined

\* An object is of the type its index says.
LEMMA ObjectHeld ==
    ASSUME TypeOK, NEW v \in Vars, HasValue(v), ~VisitIsUndefined(v)
    PROVE  storage[v] \in Objects /\ storage[v].type = valueType[v] /\ Holds(v)
BY DEF TypeOK, VisitIsUndefined, Holds

\* A variant without a value holds nothing, so that overwriting it leaks nothing.
LEMMA ValuelessIsRaw ==
    ASSUME ContentInv, undefined = {}, NEW v \in built, ~HasValue(v)
    PROVE  storage[v] = Raw
BY DEF ContentInv, Content

-----------------------------------------------------------------------------
(***************************************************************************)
(* Every operation preserves the invariant.                                *)
(***************************************************************************)
LEMMA InitLife == Init => LifeInv
BY TypeCountAssumption
   DEF Init, LifeInv, ContentInv, TypeOK, NothingLeaks, UndefinedOnlyIfBroken

\* An operation that gives one variant an index and an object, and leaves the others
\* alone, has to care for the one variant only.
LEMMA UpdateKeepsContent ==
    ASSUME ContentInv, undefined = {}, NEW v \in Vars,
           NEW type \in 0 .. TypeCount + 1, NEW object \in Objects \cup {Raw},
           built' = built \cup {v},
           valueType' = [valueType EXCEPT ![v] = type],
           storage' = [storage EXCEPT ![v] = object],
           broken' \subseteq Vars, \A w \in Vars \ {v} : w \in broken' <=> w \in broken,
           leaked' \subseteq Vars, undefined' \subseteq Vars,
           undefined' = {} => Content(v)'
    PROVE  ContentInv'
<1>1. TypeOK'
  BY DEF ContentInv, TypeOK
<1>2. \A w \in Vars \ built' : storage'[w] = Raw
  BY DEF ContentInv, TypeOK
<1>3. ASSUME undefined' = {}, NEW w \in built', w # v
      PROVE  Content(w)'
  <2>1. w \in Vars /\ w \in built /\ Content(w)
    BY <1>3 DEF ContentInv, TypeOK
  <2>2. storage'[w] = storage[w] /\ valueType'[w] = valueType[w]
    BY <1>3, <2>1 DEF ContentInv, TypeOK
  <2> QED BY <1>3, <2>1, <2>2 DEF Content, Holds, HasValue
<1> QED BY <1>1, <1>2, <1>3 DEF ContentInv

\* An index with an object of its type, or an index without a type and no object, make
\* up a variant.
LEMMA TypedContent ==
    ASSUME ContentInv, NEW v \in Vars,
           NEW type \in 0 .. TypeCount + 1, NEW object,
           valueType' = [valueType EXCEPT ![v] = type],
           storage' = [storage EXCEPT ![v] = object],
           IF type \in TypeIndexes
           THEN object \in Objects /\ object.type = type
           ELSE object = Raw
    PROVE  Content(v)'
<1>1. storage'[v] = object /\ valueType'[v] = type
  BY DEF ContentInv, TypeOK
<1>2. HasValue(v)' <=> type \in TypeIndexes
  BY <1>1, TypeCountAssumption DEF HasValue, TypeIndexes
<1>3. object \in Objects => object # Raw
  BY RawAssumption DEF Objects, TypeIndexes
<1> QED BY <1>1, <1>2, <1>3 DEF Content, Holds

\* A constructor that builds an object of the type it records, or no object for an
\* index without a type.
LEMMA ConstructKeepsContent ==
    ASSUME LifeInv, NEW v \in Vars, NEW type \in 0 .. TypeCount + 1,
           NEW object \in Objects \cup {Raw},
           Construct(v, type, object), undefined' \in SUBSET Vars,
           undefined' = {} => IF type \in TypeIndexes
                              THEN object \in Objects /\ object.type = type
                              ELSE object = Raw
    PROVE  ContentInv' /\ NothingLeaks'
<1>1. ContentInv /\ leaked' = {} /\ broken \subseteq Vars
  BY DEF Construct, LifeInv, NothingLeaks, ContentInv, TypeOK
<1>2. undefined' = {} => Content(v)'
  BY <1>1, TypedContent DEF Construct
<1>3. ContentInv'
  BY <1>1, <1>2, UpdateKeepsContent DEF Construct
<1> QED BY <1>1, <1>3 DEF NothingLeaks

LEMMA DefaultConstructLife ==
    ASSUME LifeInv, NEW v \in Vars, DefaultConstruct(v)
    PROVE  LifeInv'
<1> DEFINE object == [type |-> TypeCount, value |-> Default]
<1>1. TypeCount \in TypeIndexes /\ TypeCount \in 0 .. TypeCount + 1 /\ object \in Objects
  BY TypeCountAssumption, ValuesAssumption DEF TypeIndexes, Objects
<1>2. Construct(v, TypeCount, object) /\ undefined' = undefined /\ undefined = {}
  BY DEF DefaultConstruct, Construct
<1>3. ContentInv' /\ NothingLeaks'
  <2> HIDE DEF object
  <2>1. object.type = TypeCount
    BY DEF object
  <2> QED BY <1>1, <1>2, <2>1, ConstructKeepsContent
<1> QED BY <1>2, <1>3 DEF LifeInv, UndefinedOnlyIfBroken

LEMMA ValueConstructLife ==
    ASSUME LifeInv, NEW v \in Vars, NEW o \in Objects, ValueConstruct(v, o)
    PROVE  LifeInv'
<1>1. o.type \in TypeIndexes /\ o.type \in 0 .. TypeCount + 1
  BY TypeCountAssumption DEF TypeIndexes, Objects
<1>2. Construct(v, o.type, o) /\ undefined' = undefined /\ undefined = {}
  BY DEF ValueConstruct, Construct
<1>3. ContentInv' /\ NothingLeaks'
  BY <1>1, <1>2, ConstructKeepsContent
<1> QED BY <1>2, <1>3 DEF LifeInv, UndefinedOnlyIfBroken

LEMMA CopyConstructLife ==
    ASSUME LifeInv, NEW v \in Vars, NEW u \in Vars, CopyConstruct(v, u)
    PROVE  LifeInv'
<1> DEFINE object == IF HasValue(u) THEN storage[u] ELSE Raw
<1>1. /\ u \in built /\ v \notin built /\ undefined = {}
      /\ Construct(v, valueType[u], object)
      /\ undefined' = Only(u, VisitIsUndefined(u))
      /\ broken' = broken \ {v}
  BY DEF CopyConstruct, Construct
<1>2. valueType[u] \in 0 .. TypeCount + 1 /\ object \in Objects \cup {Raw}
  BY DEF LifeInv, ContentInv, TypeOK
<1>3. undefined' \subseteq broken'
  <2>1. VisitIsUndefined(u) => u \in broken
    BY <1>1, VisitsOfBroken DEF LifeInv
  <2> QED BY <1>1, <2>1 DEF Only
<1>4. undefined' \in SUBSET Vars
  BY <1>1 DEF Only
<1>5. undefined' = {} => IF valueType[u] \in TypeIndexes
                         THEN object \in Objects /\ object.type = valueType[u]
                         ELSE object = Raw
  <2>1. HasValue(u) <=> valueType[u] \in TypeIndexes
    BY <1>2, TypeCountAssumption DEF HasValue, TypeIndexes
  <2>2. undefined' = {} => ~VisitIsUndefined(u)
    BY <1>1 DEF Only
  <2> QED BY <2>1, <2>2, ObjectHeld DEF LifeInv, ContentInv
<1>6. ContentInv' /\ NothingLeaks'
  <2> HIDE DEF object
  <2> QED BY <1>1, <1>2, <1>4, <1>5, ConstructKeepsContent
<1> QED BY <1>3, <1>6 DEF LifeInv, UndefinedOnlyIfBroken

LEMMA DestructLife ==
    ASSUME LifeInv, NEW v \in Vars, Destruct(v)
    PROVE  LifeInv'
<1>1. ContentInv /\ undefined = {} /\ v \in built /\ broken' = broken /\ leaked = {}
  BY DEF Destruct, LifeInv, NothingLeaks
<1>2. leaked' = {}
  BY <1>1, ValuelessIsRaw DEF Destruct, Only
<1>3. undefined' \subseteq broken'
  BY <1>1, VisitsOfBroken DEF Destruct, Only
<1>4. TypeOK'
  <2>1. 0 \in 0 .. TypeCount + 1
    BY TypeCountAssumption
  <2> QED BY <1>1, <1>2, <1>3, <2>1 DEF Destruct, ContentInv, TypeOK
<1>5. \A w \in Vars \ built' : storage'[w] = Raw
  BY <1>1 DEF Destruct, ContentInv, TypeOK
<1>6. ASSUME NEW w \in built'
      PROVE  Content(w)'
  <2>1. w \in built /\ w # v /\ Content(w)
    BY <1>1, <1>6 DEF Destruct, ContentInv
  <2>2. storage'[w] = storage[w] /\ valueType'[w] = valueType[w]
    BY <2>1 DEF Destruct, LifeInv, ContentInv, TypeOK
  <2> QED BY <1>1, <2>1, <2>2 DEF Content, Holds, HasValue
<1> QED BY <1>2, <1>3, <1>4, <1>5, <1>6
        DEF LifeInv, ContentInv, NothingLeaks, UndefinedOnlyIfBroken

\* Setting a value, where broken' is what the assignment makes of it.
LEMMA SetLife ==
    ASSUME LifeInv, undefined = {}, NEW v \in built, NEW o \in Objects,
           NEW isOwn \in BOOLEAN, Set(v, o, isOwn),
           broken \subseteq broken', broken' \subseteq broken \cup {v},
           isOwn /\ HasValue(v) => v \in broken'
    PROVE  LifeInv'
<1>1. ContentInv /\ v \in Vars /\ broken' \subseteq Vars /\ leaked = {}
  BY DEF LifeInv, ContentInv, TypeOK, NothingLeaks
<1>2. o.type \in TypeIndexes /\ o.type \in 0 .. TypeCount + 1
  BY TypeCountAssumption DEF Objects, TypeIndexes
<1>3. leaked' = {}
  BY <1>1, ValuelessIsRaw DEF Set, Only, Clears
<1>4. undefined' \subseteq broken'
  BY <1>1, VisitsOfBroken DEF Set, Only, Clears
<1>5. valueType' = [valueType EXCEPT ![v] = o.type] /\ storage' = [storage EXCEPT ![v] = o]
  BY DEF Set, TypeRecorded
<1>6. Content(v)'
  BY <1>1, <1>2, <1>5, TypedContent
<1>7. built' = built \cup {v}
  BY DEF Set
<1>8. undefined' \subseteq Vars /\ leaked' \subseteq Vars
  BY <1>1, <1>3, <1>4
<1>9. \A w \in Vars \ {v} : w \in broken' <=> w \in broken
  OBVIOUS
<1>10. ContentInv'
  BY <1>1, <1>2, <1>5, <1>6, <1>7, <1>8, <1>9, UpdateKeepsContent
<1> QED BY <1>3, <1>4, <1>10 DEF LifeInv, NothingLeaks, UndefinedOnlyIfBroken

LEMMA SetThrowsLife ==
    ASSUME LifeInv, undefined = {}, NEW v \in built, SetThrows(v)
    PROVE  LifeInv'
<1> DEFINE object == IF Clears(v) THEN Raw ELSE storage[v]
<1>1. ContentInv /\ v \in Vars /\ broken \subseteq Vars /\ leaked' = {} /\ Content(v)
  BY DEF LifeInv, ContentInv, TypeOK, NothingLeaks, SetThrows
<1>2. valueType[v] \in 0 .. TypeCount + 1 /\ object \in Objects \cup {Raw}
  BY <1>1 DEF ContentInv, TypeOK
<1>3. /\ storage' = [storage EXCEPT ![v] = object]
      /\ valueType' = [valueType EXCEPT ![v] = valueType[v]]
  BY <1>1 DEF SetThrows, ContentInv, TypeOK
<1>4. broken' = broken \cup Only(v, Clears(v)) /\ built' = built \cup {v}
  BY DEF SetThrows
<1>5. undefined' \subseteq broken' /\ undefined' \subseteq Vars
  BY <1>1, <1>4 DEF SetThrows, Only
<1>6. Content(v)'
  <2>1. storage'[v] = object /\ valueType'[v] = valueType[v]
    BY <1>1, <1>3 DEF ContentInv, TypeOK
  <2>2. HasValue(v)' <=> HasValue(v)
    BY <2>1 DEF HasValue
  <2>3. CASE HasValue(v)
    BY <1>4, <2>1, <2>2, <2>3 DEF Content, Clears, Only
  <2>4. CASE ~HasValue(v)
    BY <1>1, <2>1, <2>2, <2>4 DEF Content, Clears
  <2> QED BY <2>3, <2>4
<1>7. broken' \subseteq Vars /\ \A w \in Vars \ {v} : w \in broken' <=> w \in broken
  BY <1>1, <1>4 DEF Only
<1>8. ContentInv'
  <2> HIDE DEF object
  <2> QED BY <1>1, <1>2, <1>3, <1>4, <1>5, <1>6, <1>7, UpdateKeepsContent
<1> QED BY <1>1, <1>5, <1>8 DEF LifeInv, NothingLeaks, UndefinedOnlyIfBroken

LEMMA AssignValueLife ==
    ASSUME LifeInv, NEW v \in Vars, NEW o \in Objects, AssignValue(v, o)
    PROVE  LifeInv'
<1>1. undefined = {} /\ v \in built /\ Set(v, o, FALSE) /\ broken' = broken
  BY DEF AssignValue
<1> QED BY <1>1, SetLife

LEMMA AssignOwnValueLife ==
    ASSUME LifeInv, NEW v \in Vars, AssignOwnValue(v)
    PROVE  LifeInv'
<1>1. /\ undefined = {} /\ v \in built /\ Holds(v)
      /\ Set(v, storage[v], TRUE) /\ broken' = broken \cup {v}
  BY DEF AssignOwnValue
<1>2. storage[v] \in Objects
  BY <1>1 DEF Holds, LifeInv, ContentInv, TypeOK
<1> QED BY <1>1, <1>2, SetLife

\* A variant is only assigned to itself if it holds a value that is not equal to itself.
LEMMA SelfAssignment ==
    ASSUME NEW u, Assigns(u, u)
    PROVE  <<storage[u].value, storage[u].value>> \notin Equals
BY DEF Assigns, Equal

LEMMA AssignVariantLife ==
    ASSUME LifeInv, NEW v \in Vars, NEW u \in Vars, AssignVariant(v, u)
    PROVE  LifeInv'
<1>1. /\ undefined = {} /\ v \in built /\ u \in built /\ Assigns(v, u)
      /\ ~VisitIsUndefined(u) /\ HasValue(u)
      /\ Set(v, storage[u], v = u)
      /\ broken' = broken \cup Only(v, v = u /\ <<storage[u].value, storage[u].value>> \notin Equals)
  BY DEF AssignVariant, CompareIsUndefined, Assigns
<1>2. storage[u] \in Objects
  BY <1>1, ObjectHeld DEF LifeInv, ContentInv
<1>3. broken \subseteq broken' /\ broken' \subseteq broken \cup {v}
  BY <1>1 DEF Only
<1>4. v = u => v \in broken'
  BY <1>1, SelfAssignment DEF Only
<1> QED BY <1>1, <1>2, <1>3, <1>4, SetLife

LEMMA CompareBrokenLife ==
    ASSUME LifeInv, NEW v \in Vars, NEW u \in Vars, CompareBroken(v, u)
    PROVE  LifeInv'
<1>1. /\ undefined = {} /\ v \in built /\ u \in built /\ broken' = broken
      /\ undefined' = Only(v, VisitIsUndefined(v)) \cup Only(u, VisitIsUndefined(u))
      /\ UNCHANGED <<built, valueType, storage, leaked>>
  BY DEF CompareBroken
<1>2. undefined' \subseteq broken'
  BY <1>1, VisitsOfBroken DEF Only, LifeInv
<1>3. TypeOK' /\ \A w \in Vars \ built' : storage'[w] = Raw
  BY <1>1, <1>2 DEF LifeInv, ContentInv, TypeOK
<1>4. \A w \in built' : Content(w)'
  BY <1>1 DEF LifeInv, ContentInv, Content, Holds, HasValue
<1> QED BY <1>1, <1>2, <1>3, <1>4
        DEF LifeInv, ContentInv, NothingLeaks, UndefinedOnlyIfBroken

\* Reading an index, and what it leaves in the storage, where broken' is what becomes of
\* the variant.
LEMMA ReadIndexLife ==
    ASSUME LifeInv, NEW v \in Vars, NEW i \in 0 .. TypeCount + 1, ReadIndex(v, i),
           NEW object \in Objects \cup {Raw}, storage' = [storage EXCEPT ![v] = object],
           broken' \subseteq Vars, \A w \in Vars \ {v} : w \in broken' <=> w \in broken,
           VisitIsUndefined(v) => v \in broken',
           Content(v)'
    PROVE  LifeInv'
<1>1. /\ ContentInv /\ undefined = {} /\ v \in built /\ leaked = {}
      /\ built' = built \cup {v}
      /\ valueType' = [valueType EXCEPT ![v] = i]
      /\ undefined' = Only(v, VisitIsUndefined(v))
  BY DEF ReadIndex, LifeInv, NothingLeaks
<1>2. leaked' = {}
  BY <1>1, ValuelessIsRaw DEF ReadIndex, Only
<1>3. undefined' \subseteq broken' /\ undefined' \subseteq Vars /\ leaked' \subseteq Vars
  BY <1>1, <1>2 DEF Only
<1>4. ContentInv'
  BY <1>1, <1>3, UpdateKeepsContent
<1> QED BY <1>2, <1>3, <1>4 DEF LifeInv, NothingLeaks, UndefinedOnlyIfBroken

LEMMA ReadLife ==
    ASSUME LifeInv, NEW v \in Vars, NEW i \in 0 .. TypeCount + 1, NEW x \in Values,
           Read(v, i, x)
    PROVE  LifeInv'
<1> DEFINE object == IF i \in TypeIndexes THEN [type |-> i, value |-> x] ELSE Raw
<1>1. ReadIndex(v, i) /\ storage' = [storage EXCEPT ![v] = object]
  BY DEF Read
<1>2. broken' = broken \ Only(v, ~VisitIsUndefined(v)) /\ broken \subseteq Vars
  BY DEF Read, LifeInv, ContentInv, TypeOK
<1>3. IF i \in TypeIndexes THEN object \in Objects /\ object.type = i ELSE object = Raw
  BY DEF Objects
<1>4. VisitIsUndefined(v) => v \in broken'
  BY <1>1, <1>2, VisitsOfBroken DEF ReadIndex, LifeInv, Only
<1>5. broken' \subseteq Vars /\ \A w \in Vars \ {v} : w \in broken' <=> w \in broken
  BY <1>2 DEF Only
<1> HIDE DEF object
<1>6. Content(v)'
  BY <1>1, <1>3, TypedContent DEF ReadIndex, LifeInv
<1>7. object \in Objects \cup {Raw}
  BY <1>3
<1> QED BY <1>1, <1>4, <1>5, <1>6, <1>7, ReadIndexLife

\* A variant that is left with an index and no object is broken.
LEMMA ReadingThrowsLife ==
    ASSUME LifeInv, NEW v \in Vars, NEW i \in 0 .. TypeCount + 1, ReadingThrows(v, i)
    PROVE  LifeInv'
<1>1. /\ ReadIndex(v, i) /\ storage' = [storage EXCEPT ![v] = Raw]
      /\ broken' = broken \cup {v}
  BY DEF ReadingThrows
<1>2. broken' \subseteq Vars /\ \A w \in Vars \ {v} : w \in broken' <=> w \in broken
  BY <1>1 DEF LifeInv, ContentInv, TypeOK
<1>3. Content(v)'
  <2>1. storage'[v] = Raw
    BY <1>1 DEF LifeInv, ContentInv, TypeOK
  <2> QED BY <1>1, <2>1 DEF Content
<1> QED BY <1>1, <1>2, <1>3, ReadIndexLife

-----------------------------------------------------------------------------
LEMMA NextLife == LifeInv /\ [Next]_vars => LifeInv'
<1> SUFFICES ASSUME LifeInv, [Next]_vars PROVE LifeInv'
  OBVIOUS
<1>1. ASSUME NEW v \in Vars, AssignValueThrows(v)
      PROVE  LifeInv'
  BY <1>1, SetThrowsLife DEF AssignValueThrows
<1>2. ASSUME NEW v \in Vars, NEW u \in Vars, AssignVariantThrows(v, u)
      PROVE  LifeInv'
  BY <1>2, SetThrowsLife DEF AssignVariantThrows
<1>3. CASE UNCHANGED vars
  BY <1>3 DEF vars, LifeInv, ContentInv, TypeOK, Content, Holds, HasValue,
              NothingLeaks, UndefinedOnlyIfBroken
<1>4. ASSUME NEW v \in Vars, NEW u \in Vars, AssignNothing(v, u)
      PROVE  LifeInv'
  BY <1>3, <1>4 DEF AssignNothing
<1> QED
  BY <1>1, <1>2, <1>3, <1>4, DefaultConstructLife, ValueConstructLife, CopyConstructLife,
     DestructLife, AssignValueLife, AssignOwnValueLife, AssignVariantLife,
     CompareBrokenLife, ReadLife, ReadingThrowsLife
     DEF Next

\* The inductive invariant holds in every reachable state.
THEOREM LifeInvariant == Spec => []LifeInv
BY InitLife, NextLife, PTL DEF Spec

-----------------------------------------------------------------------------
\* Whatever the number of types, a variant holds an object of the type that valueType_
\* says, or nothing if it has no value, unless an assignment to it or a reading of it
\* threw, or it was assigned its own value: what every visitor of Variant.hpp relies on
\* when it casts the storage.
THEOREM ContentIsTyped == Spec => []ContentTyped
<1>1. LifeInv => ContentTyped
  BY DEF LifeInv, ContentInv, Content, ContentTyped
<1> QED BY <1>1, LifeInvariant, PTL

\* No object is overwritten alive: neither set(), nor the reading of an index that no
\* type has, nor one that throws forgets to destroy one.
THEOREM NothingIsLeaked == Spec => []NothingLeaks
<1>1. LifeInv => NothingLeaks
  BY DEF LifeInv
<1> QED BY <1>1, LifeInvariant, PTL

\* Visiting, comparing and destroying never use an object that is not there, unless an
\* assignment or a reading threw, or the variant was assigned its own value.
THEOREM OnlyBrokenIsUndefined == Spec => []UndefinedOnlyIfBroken
<1>1. LifeInv => UndefinedOnlyIfBroken
  BY DEF LifeInv
<1> QED BY <1>1, LifeInvariant, PTL
=============================================================================
