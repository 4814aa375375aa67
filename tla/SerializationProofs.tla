------------------------- MODULE SerializationProofs -------------------------
(***************************************************************************)
(* Theorems about Serialization, for calls of every number of arguments,   *)
(* of every depth and with every deployment, and for failures at every     *)
(* element.                                                                *)
(*                                                                         *)
(* Reading and writing is recursive, the proofs are not: the elements that *)
(* the stack of calls will still come to are those behind a place in the   *)
(* order of the elements, and each step keeps that or moves on by one.     *)
(***************************************************************************)
EXTENDS Serialization, FiniteSetTheorems, NaturalsInduction, WellFoundedInduction,
        SequenceTheorems, TLAPS

------------------------------------------------------------------------------
(***************************************************************************)
(* The order of paths                                                      *)
(***************************************************************************)
\* A number from 1 to a is one from 1 to b, if it is not more than b.
LEMMA Within ==
    ASSUME NEW a \in Nat, NEW b \in Nat, NEW k \in 1 .. a, a <= b \/ k <= b
    PROVE  k \in 1 .. b /\ k <= b
OBVIOUS

\* The order of numbers is transitive.
LEMMA LessTransitive ==
    ASSUME NEW a \in Nat, NEW b \in Nat, NEW c \in Nat, a < b, b < c
    PROVE  a < c
OBVIOUS

\* A set of numbers that is not empty has a least element.
LEMMA LeastNumber ==
    ASSUME NEW T, T \subseteq Nat, T # {}
    PROVE  \E x \in T : \A y \in T : x <= y
<1> DEFINE R == OpToRel(<, Nat)
<1>1. IsWellFoundedOn(R, Nat)
  BY NatLessThanWellFounded
<1>2. \A x, y \in Nat : <<x, y>> \in R <=> x < y
  BY DEF OpToRel
<1> HIDE DEF R
<1>3. PICK x \in T : \A y \in T : ~(<<y, x>> \in R)
  BY <1>1, WFMin
<1>4. ASSUME NEW y \in T PROVE x <= y
  <2>1. ~(y < x) /\ x \in Nat /\ y \in Nat
    BY <1>2, <1>3
  <2> QED BY <2>1
<1> QED BY <1>4

\* Two paths that differ are one above the other, or left of it.
LEMMA BeforeTotal ==
    ASSUME NEW p \in Seq(Nat), NEW q \in Seq(Nat), p # q
    PROVE  Before(p, q) \/ Before(q, p)
<1> DEFINE T == {k \in Nat : k \in 1 .. Len(p) /\ k \in 1 .. Len(q) /\ p[k] # q[k]}
<1>1. CASE T = {}
  <2>1. \A k \in 1 .. Len(p) : k \in 1 .. Len(q) => p[k] = q[k]
    BY <1>1
  <2>2. CASE Len(p) = Len(q)
    <3>1. p = [k \in 1 .. Len(p) |-> p[k]] /\ q = [k \in 1 .. Len(q) |-> q[k]]
      OBVIOUS
    <3> QED BY <2>1, <2>2, <3>1
  <2>3. CASE Len(p) < Len(q)
    BY <2>1, <2>3 DEF Before, Above
  <2>4. CASE Len(q) < Len(p)
    BY <2>1, <2>4 DEF Before, Above
  <2>5. Len(p) \in Nat /\ Len(q) \in Nat
    OBVIOUS
  <2> QED BY <2>2, <2>3, <2>4, <2>5
<1>2. CASE T # {}
  <2>1. PICK k \in T : \A j \in T : k <= j
    BY <1>2, LeastNumber
  <2>2. ASSUME NEW j \in 1 .. k - 1 PROVE p[j] = q[j]
    <3>1. j \in Nat /\ j \in 1 .. Len(p) /\ j \in 1 .. Len(q) /\ ~(k <= j)
      BY <2>1
    <3> QED BY <2>1, <3>1
  <2>3. p[k] < q[k] \/ q[k] < p[k]
    BY <2>1
  <2> QED BY <2>1, <2>2, <2>3 DEF Before, LeftOf
<1> QED BY <1>1, <1>2

\* No path is before itself.
LEMMA BeforeIrreflexive ==
    ASSUME NEW p \in Seq(Nat)
    PROVE  ~Before(p, p)
<1>1. Len(p) \in Nat /\ \A k \in 1 .. Len(p) : p[k] \in Nat
  OBVIOUS
<1> QED BY <1>1 DEF Before, Above, LeftOf

\* What is left of a path is left of all that is below, and so is all that is below it.
LEMMA LeftBelow ==
    ASSUME NEW p \in Seq(Nat), NEW q \in Seq(Nat), LeftOf(p, q),
           NEW r \in Seq(Nat), r = p \/ Above(p, r),
           NEW s \in Seq(Nat), s = q \/ Above(q, s)
    PROVE  LeftOf(r, s)
<1>1. PICK k \in 1 .. Len(p) : k <= Len(q) /\ p[k] < q[k] /\ \A j \in 1 .. k - 1 : p[j] = q[j]
  BY DEF LeftOf
<1>2. Len(p) \in Nat /\ Len(q) \in Nat /\ Len(r) \in Nat /\ Len(s) \in Nat
  OBVIOUS
<1>3. Len(p) <= Len(r) /\ \A j \in 1 .. Len(p) : r[j] = p[j]
  BY <1>2 DEF Above
<1>4. Len(q) <= Len(s) /\ \A j \in 1 .. Len(q) : s[j] = q[j]
  BY <1>2 DEF Above
<1>5. k \in 1 .. Len(p) /\ k \in 1 .. Len(q)
  BY <1>1, <1>2
<1>6. k \in 1 .. Len(r) /\ k <= Len(s)
  <2>1. Len(p) <= Len(r) /\ Len(q) <= Len(s)
    BY <1>3, <1>4
  <2>2. k \in 1 .. Len(r)
    BY <1>2, <1>5, <2>1, Within
  <2> QED BY <1>2, <1>5, <2>1, Within
<1>7. r[k] = p[k] /\ s[k] = q[k]
  BY <1>3, <1>4, <1>5
<1>8. ASSUME NEW j \in 1 .. k - 1 PROVE r[j] = s[j]
  <2>1. j \in 1 .. Len(p) /\ j \in 1 .. Len(q)
    BY <1>2, <1>5
  <2> QED BY <1>1, <1>3, <1>4, <2>1
<1> QED BY <1>1, <1>6, <1>7, <1>8 DEF LeftOf

\* LeftOf is transitive.
LEMMA LeftTransitive ==
    ASSUME NEW p \in Seq(Nat), NEW q \in Seq(Nat), NEW r \in Seq(Nat),
           LeftOf(p, q), LeftOf(q, r)
    PROVE  LeftOf(p, r)
<1>1. PICK k \in 1 .. Len(p) : k <= Len(q) /\ p[k] < q[k] /\ \A j \in 1 .. k - 1 : p[j] = q[j]
  BY DEF LeftOf
<1>2. PICK m \in 1 .. Len(q) : m <= Len(r) /\ q[m] < r[m] /\ \A j \in 1 .. m - 1 : q[j] = r[j]
  BY DEF LeftOf
<1>3. /\ Len(p) \in Nat /\ Len(q) \in Nat /\ Len(r) \in Nat
      /\ \A j \in 1 .. Len(p) : p[j] \in Nat
      /\ \A j \in 1 .. Len(q) : q[j] \in Nat
      /\ \A j \in 1 .. Len(r) : r[j] \in Nat
  OBVIOUS
<1>4. CASE k < m
  <2>1. k \in 1 .. m - 1 /\ k <= Len(r) /\ p[k] < r[k]
    <3>1. k \in 1 .. m - 1 /\ k \in 1 .. Len(r)
      BY <1>1, <1>2, <1>3, <1>4
    <3>2. p[k] \in Nat /\ q[k] \in Nat /\ r[k] \in Nat
      BY <1>1, <1>3, <3>1
    <3>3. p[k] < q[k] /\ q[k] = r[k]
      BY <1>1, <1>2, <3>1
    <3> QED BY <1>3, <3>1, <3>2, <3>3
  <2>2. \A j \in 1 .. k - 1 : p[j] = r[j]
    BY <1>1, <1>2, <1>4
  <2> QED BY <2>1, <2>2 DEF LeftOf
<1>5. CASE k = m
  <2>1. p[k] < r[k]
    <3>1. p[k] \in Nat /\ q[k] \in Nat /\ r[k] \in Nat
      <4>1. k \in 1 .. Len(q) /\ k <= Len(r)
        BY <1>2, <1>5
      <4>2. k \in 1 .. Len(r)
        BY <1>3, <4>1, Within
      <4> QED BY <1>3, <4>1, <4>2
    <3>2. p[k] < q[k] /\ q[k] < r[k]
      BY <1>1, <1>2, <1>5
    <3> QED BY <3>1, <3>2, LessTransitive
  <2> QED BY <1>1, <1>2, <1>5, <2>1 DEF LeftOf
<1>6. CASE m < k
  <2>1. m \in 1 .. k - 1 /\ m \in 1 .. Len(p) /\ p[m] < r[m]
    BY <1>1, <1>2, <1>3, <1>6
  <2>2. \A j \in 1 .. m - 1 : p[j] = r[j]
    BY <1>1, <1>2, <1>6
  <2> QED BY <1>2, <2>1, <2>2 DEF LeftOf
<1> QED BY <1>4, <1>5, <1>6

\* The order of paths, Before, is transitive.
LEMMA BeforeTransitive ==
    ASSUME NEW p \in Seq(Nat), NEW q \in Seq(Nat), NEW r \in Seq(Nat),
           Before(p, q), Before(q, r)
    PROVE  Before(p, r)
<1>1. CASE Above(p, q) /\ Above(q, r)
  BY <1>1 DEF Before, Above
<1>2. CASE LeftOf(p, q) /\ Above(q, r)
  BY <1>2, LeftBelow DEF Before
<1>3. CASE LeftOf(p, q) /\ LeftOf(q, r)
  BY <1>3, LeftTransitive DEF Before
<1>4. CASE Above(p, q) /\ LeftOf(q, r)
  <2>1. PICK k \in 1 .. Len(q) : k <= Len(r) /\ q[k] < r[k] /\ \A j \in 1 .. k - 1 : q[j] = r[j]
    BY <1>4 DEF LeftOf
  <2>2. Len(p) < Len(q) /\ \A j \in 1 .. Len(p) : p[j] = q[j]
    BY <1>4 DEF Above
  <2>3. Len(p) \in Nat /\ Len(q) \in Nat /\ Len(r) \in Nat
    OBVIOUS
  <2>4. CASE k <= Len(p)
    <3>1. k \in 1 .. Len(p) /\ p[k] < r[k] /\ \A j \in 1 .. k - 1 : p[j] = r[j]
      BY <2>1, <2>2, <2>3, <2>4
    <3> QED BY <2>1, <3>1 DEF LeftOf, Before
  <2>5. CASE Len(p) < k
    <3>1. Len(p) < Len(r) /\ \A j \in 1 .. Len(p) : p[j] = r[j]
      BY <2>1, <2>2, <2>3, <2>5
    <3> QED BY <3>1 DEF Above, Before
  <2> QED BY <2>3, <2>4, <2>5
<1> QED BY <1>1, <1>2, <1>3, <1>4 DEF Before

------------------------------------------------------------------------------
(***************************************************************************)
(* The tree of a call, and the places of its elements                      *)
(***************************************************************************)
\* What IsCall says of the nodes, in the form that the proofs use.
LEMMA NodeFacts ==
    ASSUME IsCall(call)
    PROVE  /\ IsFiniteSet(Nodes) /\ Nodes \subseteq Seq(Nat) /\ <<>> \in Nodes
           /\ DOMAIN call.depl = Nodes /\ DOMAIN call.value = Nodes
           /\ \A p \in Nodes :
                 /\ p = <<>> <=> Kind(p) = "call"
                 /\ Size(p) \in Nat
                 /\ Kind(p) = "variant" => call.value[p] \in 1 .. Size(p)
                 /\ \A i \in 1 .. Size(p) : Append(p, i) \in Nodes
                 /\ \A q \in Nodes : Above(p, q) => q[Len(p) + 1] \in 1 .. Size(p)
                 /\ IsElement(p) => Size(p) = 0
BY DEF IsCall, Nodes, Kind, Size, IsElement

Total == Cardinality(Elements)

\* The elements are finitely many paths.
LEMMA ElementFacts ==
    ASSUME IsCall(call)
    PROVE  /\ Elements \subseteq Nodes /\ Elements \subseteq Seq(Nat)
           /\ IsFiniteSet(Elements) /\ Total \in Nat
<1>1. Elements \subseteq Nodes
  BY DEF Elements
<1> QED BY <1>1, NodeFacts, FS_Subset, FS_CardinalityType DEF Total

Earlier(e) == {q \in Elements : Before(q, e)}

\* The places are the numbers up to the last, in the order of the elements.
LEMMA PlaceFacts ==
    ASSUME IsCall(call)
    PROVE  /\ \A e \in Elements : Place(e) \in 1 .. Total
           /\ \A e, f \in Elements : Before(e, f) => Place(e) < Place(f)
           /\ \A e, f \in Elements : Place(e) = Place(f) => e = f
           /\ \A k \in 1 .. Total : \E e \in Elements : Place(e) = k
<1>1. /\ Elements \subseteq Seq(Nat) /\ IsFiniteSet(Elements) /\ Total \in Nat
      /\ Cardinality(Elements) = Total
  BY ElementFacts DEF Total
<1>2. \A e \in Elements : IsFiniteSet(Earlier(e)) /\ Cardinality(Earlier(e)) \in Nat
  <2> TAKE e \in Elements
  <2>1. Earlier(e) \in SUBSET Elements
    BY DEF Earlier
  <2> QED BY <1>1, <2>1, FS_Subset, FS_CardinalityType
<1>3. ASSUME NEW e \in Elements PROVE Cardinality(Earlier(e)) < Total
  <2>1. Earlier(e) \in SUBSET (Elements \ {e})
    BY <1>1, BeforeIrreflexive DEF Earlier
  <2>2. IsFiniteSet(Elements \ {e}) /\ Cardinality(Elements \ {e}) = Total - 1
    BY <1>1, FS_RemoveElement
  <2>3. Cardinality(Earlier(e)) <= Total - 1
    BY <2>1, <2>2, FS_Subset
  <2> QED BY <1>1, <1>2, <2>3
<1>4. ASSUME NEW e \in Elements, NEW f \in Elements, Before(e, f)
      PROVE  Cardinality(Earlier(e)) < Cardinality(Earlier(f))
  <2>1. e \in Earlier(f)
    BY <1>4 DEF Earlier
  <2>2. Earlier(e) \in SUBSET (Earlier(f) \ {e})
    <3>1. \A q \in Earlier(e) : Before(q, f)
      BY <1>1, <1>4, BeforeTransitive DEF Earlier
    <3>2. e \notin Earlier(e)
      BY <1>1, BeforeIrreflexive DEF Earlier
    <3> QED BY <3>1, <3>2 DEF Earlier
  <2>3. /\ IsFiniteSet(Earlier(f) \ {e})
        /\ Cardinality(Earlier(f) \ {e}) = Cardinality(Earlier(f)) - 1
    BY <1>2, <2>1, FS_RemoveElement
  <2>4. Cardinality(Earlier(e)) <= Cardinality(Earlier(f)) - 1
    BY <2>2, <2>3, FS_Subset
  <2> QED BY <1>2, <2>4
<1>5. \A e \in Elements : Place(e) = Cardinality(Earlier(e)) + 1
  BY DEF Place, Earlier
<1>6. \A e \in Elements : Place(e) \in 1 .. Total
  BY <1>1, <1>2, <1>3, <1>5
<1>7. \A e, f \in Elements : Before(e, f) => Place(e) < Place(f)
  BY <1>2, <1>4, <1>5
<1>8. \A e, f \in Elements : Place(e) = Place(f) => e = f
  <2> SUFFICES ASSUME NEW e \in Elements, NEW f \in Elements, e # f
               PROVE  Place(e) # Place(f)
    OBVIOUS
  <2>1. Before(e, f) \/ Before(f, e)
    BY <1>1, BeforeTotal
  <2>2. Place(e) < Place(f) \/ Place(f) < Place(e)
    BY <1>7, <2>1
  <2> QED BY <1>6, <2>2
<1>9. \A k \in 1 .. Total : \E e \in Elements : Place(e) = k
  <2> DEFINE place == [e \in Elements |-> Place(e)]
  <2>1. place \in Injection(Elements, 1 .. Total)
    BY <1>6, <1>8 DEF Injection, IsInjective
  <2>2. IsFiniteSet(1 .. Total) /\ Cardinality(1 .. Total) = Total
    BY <1>1, FS_Interval
  <2>3. place \in Surjection(Elements, 1 .. Total)
    BY <1>1, <2>1, <2>2, FS_Injection
  <2> QED BY <2>3 DEF Surjection
<1> QED BY <1>6, <1>7, <1>8, <1>9

------------------------------------------------------------------------------
(***************************************************************************)
(* Members                                                                 *)
(***************************************************************************)
\* The path of a member.
LEMMA AppendFacts ==
    ASSUME NEW p \in Seq(Nat), NEW i \in Nat
    PROVE  /\ Append(p, i) \in Seq(Nat) /\ Append(p, i) # <<>>
           /\ Len(Append(p, i)) = Len(p) + 1 /\ Len(p) \in Nat
           /\ \A k \in 1 .. Len(p) : Append(p, i)[k] = p[k]
           /\ Append(p, i)[Len(p) + 1] = i
OBVIOUS

\* Above a member are the struct that it is in and what is above that.
LEMMA AboveAppend ==
    ASSUME NEW p \in Seq(Nat), NEW i \in Nat, NEW q \in Seq(Nat)
    PROVE  Above(q, Append(p, i)) <=> q = p \/ Above(q, p)
<1> DEFINE m == Append(p, i)
<1>1. /\ m \in Seq(Nat) /\ Len(m) = Len(p) + 1 /\ Len(p) \in Nat /\ Len(q) \in Nat
      /\ \A k \in 1 .. Len(p) : m[k] = p[k]
  BY AppendFacts
<1> HIDE DEF m
<1>2. ASSUME Above(q, m), Len(q) = Len(p) PROVE q = p
  <2>1. \A k \in 1 .. Len(q) : q[k] = p[k]
    BY <1>1, <1>2 DEF Above
  <2> QED BY <1>2, <2>1, SeqEqual
<1>3. ASSUME Above(q, m), Len(q) # Len(p) PROVE Above(q, p)
  BY <1>1, <1>3 DEF Above
<1>4. ASSUME q = p \/ Above(q, p) PROVE Above(q, m)
  BY <1>1, <1>4 DEF Above
<1> QED BY <1>2, <1>3, <1>4 DEF m

\* What is below a node is one of its members, or below one.
LEMMA BelowMember ==
    ASSUME NEW p \in Seq(Nat), NEW e \in Seq(Nat), NEW i \in Nat
    PROVE  Above(p, e) /\ e[Len(p) + 1] = i <=> e = Append(p, i) \/ Above(Append(p, i), e)
<1> DEFINE m == Append(p, i)
<1>1. /\ m \in Seq(Nat) /\ Len(m) = Len(p) + 1 /\ Len(p) \in Nat /\ Len(e) \in Nat
      /\ \A k \in 1 .. Len(p) : m[k] = p[k]
      /\ m[Len(p) + 1] = i
  BY AppendFacts
<1> HIDE DEF m
<1>2. ASSUME Above(p, e), e[Len(p) + 1] = i PROVE e = m \/ Above(m, e)
  <2>1. \A k \in 1 .. Len(m) : m[k] = e[k]
    <3> TAKE k \in 1 .. Len(m)
    <3>1. k \in 1 .. Len(p) \/ k = Len(p) + 1
      BY <1>1
    <3> QED BY <1>1, <1>2, <3>1 DEF Above
  <2>2. Len(m) <= Len(e)
    BY <1>1, <1>2 DEF Above
  <2>3. CASE Len(m) = Len(e)
    BY <1>1, <2>1, <2>3, SeqEqual
  <2>4. CASE Len(m) < Len(e)
    BY <2>1, <2>4 DEF Above
  <2> QED BY <1>1, <2>2, <2>3, <2>4
<1>3. ASSUME e = m \/ Above(m, e) PROVE Above(p, e) /\ e[Len(p) + 1] = i
  <2>1. Len(m) <= Len(e) /\ \A k \in 1 .. Len(m) : m[k] = e[k]
    BY <1>1, <1>3 DEF Above
  <2>2. \A k \in 1 .. Len(p) : p[k] = e[k]
    <3> TAKE k \in 1 .. Len(p)
    <3>1. Len(m) = Len(p) + 1 /\ Len(p) \in Nat
      BY <1>1
    <3>2. k \in 1 .. Len(m)
      BY <3>1
    <3> QED BY <1>1, <2>1, <3>2
  <2>3. e[Len(p) + 1] = i
    BY <1>1, <2>1
  <2> QED BY <1>1, <2>1, <2>2, <2>3 DEF Above
<1> QED BY <1>2, <1>3 DEF m

\* A member is left of those behind it.
LEMMA MembersLeft ==
    ASSUME NEW p \in Seq(Nat), NEW i \in Nat, NEW j \in Nat, i < j
    PROVE  LeftOf(Append(p, i), Append(p, j))
<1> DEFINE k == Len(p) + 1
<1>1. k \in 1 .. Len(Append(p, i)) /\ k <= Len(Append(p, j))
  BY AppendFacts
<1>2. Append(p, i)[k] < Append(p, j)[k]
  BY AppendFacts
<1>3. \A m \in 1 .. k - 1 : Append(p, i)[m] = Append(p, j)[m]
  <2>1. \A m \in 1 .. k - 1 : m \in 1 .. Len(p)
    BY AppendFacts
  <2> QED BY <2>1, AppendFacts
<1> QED BY <1>1, <1>2, <1>3 DEF LeftOf

\* The argument that a node is in.
LEMMA FirstStep ==
    ASSUME NEW p \in Seq(Nat), p # <<>>, NEW q \in Seq(Nat), q = p \/ Above(p, q)
    PROVE  /\ q # <<>> /\ p[1] \in Nat /\ q[1] = p[1]
           /\ Len(p) \in Nat \ {0} /\ Len(q) \in Nat \ {0}
<1>1. Len(p) \in Nat \ {0} /\ 1 \in 1 .. Len(p)
  BY EmptySeq
<1>2. Len(q) \in Nat \ {0}
  BY <1>1 DEF Above
<1>3. q # <<>>
  BY <1>2, EmptySeq
<1>4. q[1] = p[1] /\ p[1] \in Nat
  BY <1>1 DEF Above
<1> QED BY <1>1, <1>2, <1>3, <1>4

\* The call is above all that is in it.
LEMMA RootAbove ==
    ASSUME NEW p \in Seq(Nat), p # <<>>
    PROVE  Above(<<>>, p) /\ Len(<<>>) = 0
<1>1. Len(p) \in Nat \ {0}
  BY EmptySeq
<1> QED BY <1>1 DEF Above

InCall == Nodes \ {<<>>}

\* An element is in one of the arguments.
LEMMA ElementInCall ==
    ASSUME IsCall(call), NEW e \in Elements
    PROVE  e \in InCall /\ e \in Seq(Nat) /\ e[1] \in 1 .. Size(<<>>)
<1>1. e \in InCall /\ e \in Seq(Nat)
  BY NodeFacts, ElementFacts DEF InCall, Elements
<1> QED BY <1>1, NodeFacts, RootAbove DEF InCall

\* The members of a node are nodes below it.
LEMMA MemberFacts ==
    ASSUME IsCall(call), NEW p \in InCall, NEW i \in 1 .. Size(p)
    PROVE  /\ Append(p, i) \in InCall /\ i \in Nat
           /\ p \in Seq(Nat) /\ Append(p, i) \in Seq(Nat) /\ Above(p, Append(p, i))
<1>1. p \in Seq(Nat) /\ Size(p) \in Nat /\ Append(p, i) \in Nodes
  BY NodeFacts DEF InCall
<1>2. i \in Nat
  BY <1>1
<1> QED BY <1>1, <1>2, AppendFacts, AboveAppend DEF InCall

\* What a struct has as members is held if the struct is.
LEMMA HeldMember ==
    ASSUME IsCall(call), NEW p \in InCall, IsHeld(p), Kind(p) = "struct",
           NEW i \in 1 .. Size(p)
    PROVE  IsHeld(Append(p, i))
<1> SUFFICES ASSUME NEW q \in Nodes, Above(q, Append(p, i)), Kind(q) = "variant"
             PROVE  Cardinality(Append(p, i)[Len(q) + 1] .. Size(q)) = call.value[q]
  BY DEF IsHeld
<1>1. Above(q, p) /\ q \in Seq(Nat) /\ p \in Seq(Nat) /\ i \in Nat
  <2>1. q \in Seq(Nat) /\ p \in Seq(Nat) /\ i \in Nat
    BY MemberFacts, NodeFacts
  <2>2. q # p
    OBVIOUS
  <2> QED BY <2>1, <2>2, AboveAppend
<1>2. Len(q) + 1 \in 1 .. Len(p)
  BY <1>1 DEF Above
<1>3. Append(p, i)[Len(q) + 1] = p[Len(q) + 1]
  BY <1>1, <1>2, AppendFacts
<1> QED BY <1>1, <1>3 DEF IsHeld

\* What a variant holds is the type with its index.
LEMMA HeldIndex ==
    ASSUME IsCall(call), NEW p \in InCall, Kind(p) = "variant", NEW i \in Nat
    PROVE  /\ Size(p) + 1 - call.value[p] \in 1 .. Size(p)
           /\ Cardinality(i .. Size(p)) = call.value[p] <=> i = Size(p) + 1 - call.value[p]
<1>1. Size(p) \in Nat /\ call.value[p] \in 1 .. Size(p)
  BY NodeFacts DEF InCall
<1>2. i \in Int /\ Size(p) \in Int
  BY <1>1
<1>3. Cardinality(i .. Size(p)) = IF i > Size(p) THEN 0 ELSE Size(p) - i + 1
  BY <1>2, FS_Interval
<1> QED BY <1>1, <1>3

\* So is the content of a variant, of the type of its index.
LEMMA HeldContent ==
    ASSUME IsCall(call), NEW p \in InCall, IsHeld(p), Kind(p) = "variant"
    PROVE  LET c == Content(p, call.value[p])
           IN  c \in InCall /\ IsHeld(c) /\ Above(p, c) /\ c \in Seq(Nat) /\ p \in Seq(Nat)
<1> DEFINE i == Size(p) + 1 - call.value[p]
<1>1. i \in 1 .. Size(p) /\ Content(p, call.value[p]) = Append(p, i)
  <2>1. Size(p) + 1 - call.value[p] \in 1 .. Size(p)
    BY HeldIndex
  <2> QED BY <2>1 DEF Content
<1> HIDE DEF i
<1>2. /\ Append(p, i) \in InCall /\ i \in Nat /\ p \in Seq(Nat)
      /\ Append(p, i) \in Seq(Nat) /\ Above(p, Append(p, i))
  BY <1>1, MemberFacts
<1>3. ASSUME NEW q \in Nodes, Above(q, Append(p, i)), Kind(q) = "variant"
      PROVE  Cardinality(Append(p, i)[Len(q) + 1] .. Size(q)) = call.value[q]
  <2>1. q \in Seq(Nat)
    BY NodeFacts
  <2>2. CASE q = p
    <3>1. Append(p, i)[Len(q) + 1] = i
      BY <1>2, <2>2, AppendFacts
    <3> QED BY <1>2, <2>2, <3>1, HeldIndex DEF i
  <2>3. CASE Above(q, p)
    <3>1. Len(q) + 1 \in 1 .. Len(p)
      BY <1>2, <2>1, <2>3 DEF Above
    <3>2. Append(p, i)[Len(q) + 1] = p[Len(q) + 1]
      BY <1>2, <3>1, AppendFacts
    <3> QED BY <1>3, <2>3, <3>2 DEF IsHeld
  <2> QED BY <1>2, <1>3, <2>1, <2>2, <2>3, AboveAppend
<1> QED BY <1>1, <1>2, <1>3 DEF IsHeld

\* What is below a struct is one of its members or below one.
LEMMA BelowStruct ==
    ASSUME IsCall(call), NEW p \in InCall, NEW e \in Nodes, Above(p, e)
    PROVE  \E i \in 1 .. Size(p) : e = Append(p, i) \/ Above(Append(p, i), e)
<1>1. p \in Seq(Nat) /\ e \in Seq(Nat) /\ e[Len(p) + 1] \in 1 .. Size(p) /\ Size(p) \in Nat
  BY NodeFacts DEF InCall
<1>2. e[Len(p) + 1] \in Nat
  BY <1>1
<1> QED BY <1>1, <1>2, BelowMember

\* An element below a variant is its content or below that.
LEMMA BelowVariant ==
    ASSUME IsCall(call), NEW p \in InCall, Kind(p) = "variant", NEW e \in Elements, Above(p, e)
    PROVE  e = Content(p, call.value[p]) \/ Above(Content(p, call.value[p]), e)
<1>1. p \in Seq(Nat) /\ e \in Seq(Nat) /\ e[Len(p) + 1] \in 1 .. Size(p) /\ Size(p) \in Nat
  BY NodeFacts, ElementFacts DEF InCall
<1>2. e[Len(p) + 1] \in Nat
  BY <1>1
<1>3. Cardinality(e[Len(p) + 1] .. Size(p)) = call.value[p]
  BY DEF Elements, IsHeld, InCall
<1>4. e[Len(p) + 1] = Size(p) + 1 - call.value[p]
  BY <1>2, <1>3, HeldIndex
<1> QED BY <1>1, <1>2, <1>4, BelowMember DEF Content

\* Nothing is below an element of another kind.
LEMMA BelowElement ==
    ASSUME IsCall(call), NEW p \in InCall, IsElement(p), NEW e \in Nodes
    PROVE  ~Above(p, e)
<1>1. Size(p) = 0 /\ p \in Nodes
  BY NodeFacts DEF InCall
<1>2. Above(p, e) => e[Len(p) + 1] \in 1 .. 0
  BY <1>1, NodeFacts
<1> QED BY <1>2

------------------------------------------------------------------------------
(***************************************************************************)
(* Deployments                                                             *)
(***************************************************************************)
\* The pointer that the declarations mean for a node.
DeclaredFor(p) ==
    IF \A q \in InCall : Above(q, p) => call.depl[q] = "values" THEN p ELSE NullDepl

\* A null pointer is not the deployment of any node.
LEMMA NullIsNoNode ==
    ASSUME IsCall(call)
    PROVE  NullDepl \notin InCall /\ Depl(NullDepl) = "null"
           /\ \A p \in InCall : Depl(p) = call.depl[p]
<1>1. ASSUME NullDepl \in Nodes PROVE FALSE
  <2>1. NullDepl \in Seq(Nat) /\ NullDepl # <<>> /\ NullDepl[1] = 0
    BY DEF NullDepl
  <2>2. Above(<<>>, NullDepl) /\ Len(<<>>) = 0
    BY <2>1, RootAbove
  <2>3. NullDepl[1] \in 1 .. Size(<<>>) /\ Size(<<>>) \in Nat
    BY <1>1, <2>2, NodeFacts
  <2> QED BY <2>1, <2>3
<1> QED BY <1>1 DEF InCall, Depl

\* StructReader and StructWriter give a member the deployment that is declared for it.
LEMMA DeclaredMember ==
    ASSUME IsCall(call), NEW p \in InCall, NEW i \in 1 .. Size(p)
    PROVE  MemberDepl(DeclaredFor(p), i) = DeclaredFor(Append(p, i))
<1>1. /\ Append(p, i) \in InCall /\ i \in Nat /\ p \in Seq(Nat)
  BY MemberFacts
<1>2. \A q \in InCall : Above(q, Append(p, i)) <=> q = p \/ Above(q, p)
  <2>1. \A q \in InCall : q \in Seq(Nat)
    BY NodeFacts DEF InCall
  <2> QED BY <1>1, <2>1, AboveAppend
<1>3. CASE \A q \in InCall : Above(q, p) => call.depl[q] = "values"
  <2>1. DeclaredFor(p) = p /\ Depl(p) = call.depl[p]
    BY <1>3, NullIsNoNode DEF DeclaredFor
  <2>2. CASE call.depl[p] = "values"
    <3>1. \A q \in InCall : Above(q, Append(p, i)) => call.depl[q] = "values"
      BY <1>2, <1>3, <2>2
    <3> QED BY <2>1, <2>2, <3>1 DEF DeclaredFor, MemberDepl
  <2>3. CASE call.depl[p] # "values"
    <3>1. ~\A q \in InCall : Above(q, Append(p, i)) => call.depl[q] = "values"
      BY <1>2, <2>3
    <3>2. DeclaredFor(Append(p, i)) = NullDepl
      BY <3>1 DEF DeclaredFor
    <3> QED BY <2>1, <2>3, <3>2 DEF MemberDepl
  <2> QED BY <2>2, <2>3
<1>4. CASE ~\A q \in InCall : Above(q, p) => call.depl[q] = "values"
  <2>1. DeclaredFor(p) = NullDepl
    BY <1>4 DEF DeclaredFor
  <2>2. ~\A q \in InCall : Above(q, Append(p, i)) => call.depl[q] = "values"
    BY <1>2, <1>4
  <2>3. DeclaredFor(Append(p, i)) = NullDepl
    BY <2>2 DEF DeclaredFor
  <2> QED BY <2>1, <2>3, NullIsNoNode DEF MemberDepl
<1> QED BY <1>3, <1>4

\* ApplyStreamVisitor, which counts from the end, does so for the content of a variant.
LEMMA DeclaredContent ==
    ASSUME IsCall(call), NEW p \in InCall, Kind(p) = "variant"
    PROVE  ContentDepl(DeclaredFor(p), call.value[p]) = DeclaredFor(Content(p, call.value[p]))
<1> DEFINE i == Size(p) + 1 - call.value[p]
<1>1. i \in 1 .. Size(p)
  BY HeldIndex, 0 \in Nat
<1>2. MemberDepl(DeclaredFor(p), i) = DeclaredFor(Append(p, i))
  BY <1>1, DeclaredMember
<1>3. DeclaredFor(p) = p \/ DeclaredFor(p) = NullDepl
  BY DEF DeclaredFor
<1>4. ContentDepl(DeclaredFor(p), call.value[p]) = MemberDepl(DeclaredFor(p), i)
  BY <1>3, NullIsNoNode DEF ContentDepl, MemberDepl
<1> QED BY <1>2, <1>4 DEF Content

\* The deployment that the declarations mean for an element.
LEMMA DeclaredElement ==
    ASSUME IsCall(call), NEW p \in InCall
    PROVE  /\ DeclaredFor(p) \in InCall \cup {NullDepl}
           /\ IsElement(p) => Depl(DeclaredFor(p)) = Declared(p)
           /\ Kind(p) = "variant" => Declared(p) = "null"
<1>1. DeclaredFor(p) \in InCall \cup {NullDepl}
  BY DEF DeclaredFor
<1>2. ASSUME IsElement(p) PROVE Depl(DeclaredFor(p)) = Declared(p)
  <2>1. Kind(p) # "variant"
    BY <1>2 DEF IsElement
  <2> QED BY <2>1, NullIsNoNode DEF DeclaredFor, Declared, InCall
<1>3. Kind(p) = "variant" => Declared(p) = "null"
  BY DEF Declared
<1> QED BY <1>1, <1>2, <1>3

\* The pointer that TypeOutputStream may have instead.
IsAnnounced(frame) ==
    \/ frame.depl = DeclaredFor(frame.path)
    \/ /\ DeclaredFor(frame.path) = NullDepl
       /\ frame.depl \in InCall /\ call.depl[frame.depl] = "empty"

IsDeclared(frame) == frame.depl = DeclaredFor(frame.path)

------------------------------------------------------------------------------
(***************************************************************************)
(* The stack                                                               *)
(***************************************************************************)
Frames ==
    [does : {"visit", "visit checked", "set"}, path : InCall, depl : InCall \cup {NullDepl},
     index : Int]

Visits(frame) == frame.does # "set"

Covers(frame, e) == Visits(frame) /\ (e = frame.path \/ Above(frame.path, e))

Covered(frames) == {e \in Elements : \E k \in DOMAIN frames : Covers(frames[k], e)}

\* The elements that are still to come.
Rest(frames, n) == {e \in Elements : n <= e[1]} \cup Covered(frames)

LeftToRight(frames) ==
    \A j, k \in DOMAIN frames :
        j < k /\ Visits(frames[j]) /\ Visits(frames[k]) => LeftOf(frames[j].path, frames[k].path)

\* The stack goes through the tree from left to right.
IsStack(frames, n) ==
    /\ frames \in Seq(Frames) /\ n \in Nat
    /\ \A k \in DOMAIN frames :
          Visits(frames[k]) => IsHeld(frames[k].path) /\ frames[k].path[1] < n
    /\ LeftToRight(frames)

\* The paths of the stack are in the call.
LEMMA FrameFacts ==
    ASSUME IsCall(call), NEW f \in Frames
    PROVE  /\ f.path \in InCall /\ f.path \in Nodes /\ f.path \in Seq(Nat) /\ f.path # <<>>
           /\ f.path[1] \in Nat
<1>1. f.path \in InCall
  BY DEF Frames
<1>2. f.path \in Nodes /\ f.path \in Seq(Nat) /\ f.path # <<>>
  BY <1>1, NodeFacts DEF InCall
<1> QED BY <1>1, <1>2, FirstStep

\* The top of the stack.
LEMMA TopFacts ==
    ASSUME IsCall(call), NEW frames \in Seq(Frames), frames # <<>>
    PROVE  /\ Head(frames) \in Frames /\ Head(frames) = frames[1] /\ 1 \in DOMAIN frames
           /\ Tail(frames) \in Seq(Frames) /\ Len(Tail(frames)) = Len(frames) - 1
           /\ Len(frames) \in Nat \ {0}
           /\ \A k \in DOMAIN Tail(frames) :
                 k + 1 \in DOMAIN frames /\ Tail(frames)[k] = frames[k + 1] /\ k \in Nat \ {0}
           /\ \A k \in DOMAIN frames :
                 k = 1 \/ (k - 1 \in DOMAIN Tail(frames) /\ Tail(frames)[k - 1] = frames[k])
<1>1. Len(frames) \in Nat \ {0} /\ DOMAIN frames = 1 .. Len(frames)
  BY EmptySeq
<1>2. /\ Head(frames) \in Frames /\ Head(frames) = frames[1]
      /\ Tail(frames) \in Seq(Frames) /\ Len(Tail(frames)) = Len(frames) - 1
  BY <1>1, HeadTailProperties
<1>3. \A k \in 1 .. Len(frames) - 1 : Tail(frames)[k] = frames[k + 1]
  BY <1>1
<1>4. DOMAIN Tail(frames) = 1 .. Len(frames) - 1
  BY <1>2
<1> QED BY <1>1, <1>2, <1>3, <1>4

\* Putting frames on a stack.
LEMMA ConcatFacts ==
    ASSUME NEW s \in Seq(Frames), NEW t \in Seq(Frames)
    PROVE  /\ s \o t \in Seq(Frames)
           /\ \A k \in DOMAIN (s \o t) :
                 \/ k \in DOMAIN s /\ (s \o t)[k] = s[k]
                 \/ k - Len(s) \in DOMAIN t /\ (s \o t)[k] = t[k - Len(s)] /\ ~(k \in DOMAIN s)
           /\ \A k \in DOMAIN s : k \in DOMAIN (s \o t) /\ (s \o t)[k] = s[k]
           /\ \A k \in DOMAIN t :
                 k + Len(s) \in DOMAIN (s \o t) /\ (s \o t)[k + Len(s)] = t[k]
           /\ Len(s) \in Nat /\ Len(t) \in Nat
           /\ DOMAIN s = 1 .. Len(s) /\ DOMAIN t = 1 .. Len(t)
           /\ DOMAIN (s \o t) = 1 .. Len(s) + Len(t)
<1>1. /\ s \o t \in Seq(Frames) /\ Len(s \o t) = Len(s) + Len(t)
      /\ \A i \in 1 .. Len(s) + Len(t) :
            (s \o t)[i] = IF i <= Len(s) THEN s[i] ELSE t[i - Len(s)]
  BY ConcatProperties
<1>2. /\ Len(s) \in Nat /\ Len(t) \in Nat /\ DOMAIN s = 1 .. Len(s) /\ DOMAIN t = 1 .. Len(t)
      /\ DOMAIN (s \o t) = 1 .. Len(s) + Len(t)
  BY <1>1, LenProperties
<1>3. \A k \in DOMAIN (s \o t) :
         \/ k \in DOMAIN s /\ (s \o t)[k] = s[k]
         \/ k - Len(s) \in DOMAIN t /\ (s \o t)[k] = t[k - Len(s)] /\ ~(k \in DOMAIN s)
  BY <1>1, <1>2
<1>4. \A k \in DOMAIN s : k \in DOMAIN (s \o t) /\ (s \o t)[k] = s[k]
  BY <1>1, <1>2
<1>5. \A k \in DOMAIN t : k + Len(s) \in DOMAIN (s \o t) /\ (s \o t)[k + Len(s)] = t[k]
  <2> TAKE k \in DOMAIN t
  <2>1. /\ k \in Nat \ {0} /\ k <= Len(t)
        /\ k + Len(s) \in 1 .. Len(s) + Len(t) /\ ~(k + Len(s) <= Len(s))
        /\ (k + Len(s)) - Len(s) = k
    BY <1>2
  <2> QED BY <1>1, <1>2, <2>1
<1> QED BY <1>1, <1>2, <1>3, <1>4, <1>5

\* What the frames of the top cover is nobody else's.
LEMMA TopCovers ==
    ASSUME IsCall(call), NEW frames, NEW n, IsStack(frames, n), frames # <<>>
    PROVE  /\ Rest(frames, n) = Covered(<<Head(frames)>>) \cup Rest(Tail(frames), n)
           /\ Covered(<<Head(frames)>>) \cap Rest(Tail(frames), n) = {}
           /\ Covered(<<Head(frames)>>) = {e \in Elements : Covers(Head(frames), e)}
           /\ \A e \in Rest(frames, n) : Visits(Head(frames)) =>
                 Covers(Head(frames), e) \/ LeftOf(Head(frames).path, e)
<1> DEFINE top == Head(frames)
           tail == Tail(frames)
<1>1. /\ frames \in Seq(Frames) /\ n \in Nat /\ LeftToRight(frames)
      /\ \A k \in DOMAIN frames : Visits(frames[k]) => frames[k].path[1] < n
  BY DEF IsStack
<1>2. /\ top \in Frames /\ top = frames[1] /\ 1 \in DOMAIN frames
      /\ tail \in Seq(Frames) /\ Len(tail) = Len(frames) - 1 /\ Len(frames) \in Nat \ {0}
      /\ \A k \in DOMAIN tail :
            k + 1 \in DOMAIN frames /\ tail[k] = frames[k + 1] /\ k \in Nat \ {0}
      /\ \A k \in DOMAIN frames :
            k = 1 \/ (k - 1 \in DOMAIN tail /\ tail[k - 1] = frames[k])
  BY <1>1, TopFacts
<1>3. \A k \in DOMAIN tail : tail[k] \in Frames
  BY <1>2
<1> HIDE DEF top, tail
<1>4. Covered(<<top>>) = {e \in Elements : Covers(top, e)}
  BY DEF Covered
<1>5. Covered(frames) = Covered(<<top>>) \cup Covered(tail)
  <2>1. \A e \in Elements : (\E k \in DOMAIN frames : Covers(frames[k], e))
                            <=> Covers(top, e) \/ \E k \in DOMAIN tail : Covers(tail[k], e)
    BY <1>2
  <2> QED BY <1>4, <2>1 DEF Covered
<1>6. ASSUME NEW e \in Elements, Visits(top), NEW k \in DOMAIN tail, Covers(tail[k], e)
      PROVE  LeftOf(top.path, e)
  <2>1. 1 < k + 1 /\ Visits(frames[1]) /\ Visits(frames[k + 1])
    BY <1>2, <1>6 DEF Covers
  <2>2. LeftOf(top.path, tail[k].path)
    BY <1>1, <1>2, <2>1 DEF LeftToRight
  <2>3. /\ top.path \in Seq(Nat) /\ tail[k].path \in Seq(Nat)
        /\ e \in Seq(Nat) /\ (e = tail[k].path \/ Above(tail[k].path, e))
    BY <1>2, <1>3, <1>6, FrameFacts, ElementInCall DEF Covers
  <2> QED BY <2>2, <2>3, LeftBelow
<1>7. ASSUME NEW e \in Elements, Visits(top), n <= e[1] PROVE LeftOf(top.path, e)
  <2>1. top.path \in Seq(Nat) /\ top.path # <<>> /\ top.path[1] \in Nat /\ top.path[1] < n
    BY <1>1, <1>2, <1>7, FrameFacts
  <2>2. e \in Seq(Nat) /\ e # <<>>
    BY ElementInCall DEF InCall
  <2>3. Len(top.path) \in Nat \ {0} /\ Len(e) \in Nat \ {0} /\ e[1] \in Nat
    BY <2>1, <2>2, EmptySeq
  <2>4. 1 \in 1 .. Len(top.path) /\ 1 <= Len(e) /\ top.path[1] < e[1]
    BY <1>1, <1>7, <2>1, <2>3
  <2> QED BY <2>4 DEF LeftOf
<1>8. ASSUME NEW e \in Elements, Covers(top, e), LeftOf(top.path, e) PROVE FALSE
  <2>1. top.path \in Seq(Nat) /\ e \in Seq(Nat) /\ (e = top.path \/ Above(top.path, e))
    BY <1>2, <1>8, FrameFacts, ElementInCall DEF Covers
  <2>2. LeftOf(e, e)
    BY <1>8, <2>1, LeftBelow
  <2> QED BY <2>1, <2>2, BeforeIrreflexive DEF Before
<1>9. Covered(<<top>>) \cap Rest(tail, n) = {}
  BY <1>4, <1>6, <1>7, <1>8 DEF Rest, Covered, Covers
<1>10. \A e \in Rest(frames, n) : Visits(top) => Covers(top, e) \/ LeftOf(top.path, e)
  BY <1>4, <1>5, <1>6, <1>7 DEF Rest, Covered
<1> QED BY <1>4, <1>5, <1>9, <1>10 DEF Rest, top, tail

\* The top is replaced by frames for what is below it.
LEMMA Replaced ==
    ASSUME IsCall(call), NEW frames, NEW n, IsStack(frames, n), frames # <<>>,
           NEW s \in Seq(Frames), LeftToRight(s),
           \A k \in DOMAIN s : Visits(s[k]) =>
              /\ Visits(Head(frames)) /\ IsHeld(s[k].path)
              /\ s[k].path = Head(frames).path \/ Above(Head(frames).path, s[k].path)
    PROVE  /\ IsStack(s \o Tail(frames), n)
           /\ Rest(s \o Tail(frames), n) = Covered(s) \cup Rest(Tail(frames), n)
<1> DEFINE top == Head(frames)
           tail == Tail(frames)
           new == s \o tail
<1>1. /\ frames \in Seq(Frames) /\ n \in Nat /\ LeftToRight(frames)
      /\ \A k \in DOMAIN frames :
            Visits(frames[k]) => IsHeld(frames[k].path) /\ frames[k].path[1] < n
  BY DEF IsStack
<1>2. /\ top \in Frames /\ top = frames[1] /\ 1 \in DOMAIN frames
      /\ tail \in Seq(Frames) /\ Len(tail) = Len(frames) - 1 /\ Len(frames) \in Nat \ {0}
      /\ \A k \in DOMAIN tail :
            k + 1 \in DOMAIN frames /\ tail[k] = frames[k + 1] /\ k \in Nat \ {0}
  BY <1>1, TopFacts
<1>3. /\ new \in Seq(Frames)
      /\ \A k \in DOMAIN new :
            \/ k \in DOMAIN s /\ new[k] = s[k]
            \/ k - Len(s) \in DOMAIN tail /\ new[k] = tail[k - Len(s)] /\ ~(k \in DOMAIN s)
      /\ \A k \in DOMAIN s : k \in DOMAIN new /\ new[k] = s[k]
      /\ \A k \in DOMAIN tail : k + Len(s) \in DOMAIN new /\ new[k + Len(s)] = tail[k]
      /\ Len(s) \in Nat /\ Len(tail) \in Nat
      /\ DOMAIN s = 1 .. Len(s) /\ DOMAIN tail = 1 .. Len(tail)
      /\ DOMAIN new = 1 .. Len(s) + Len(tail)
  BY <1>2, ConcatFacts
<1>a. \A k \in DOMAIN s : s[k] \in Frames
  BY <1>3
<1>b. \A k \in DOMAIN tail : tail[k] \in Frames
  BY <1>2, <1>3
<1>c. \A k \in DOMAIN s : Visits(s[k]) =>
              /\ Visits(top) /\ IsHeld(s[k].path)
              /\ s[k].path = top.path \/ Above(top.path, s[k].path)
  OBVIOUS
<1> HIDE DEF top, tail, new
<1>4. \A k \in DOMAIN s : Visits(s[k]) => s[k].path[1] < n
  <2> SUFFICES ASSUME NEW k \in DOMAIN s, Visits(s[k]) PROVE s[k].path[1] < n
    OBVIOUS
  <2>1. /\ top.path \in Seq(Nat) /\ top.path # <<>> /\ s[k].path \in Seq(Nat)
        /\ s[k].path = top.path \/ Above(top.path, s[k].path)
    BY <1>2, <1>a, <1>c, FrameFacts
  <2>2. s[k].path[1] = top.path[1]
    BY <2>1, FirstStep
  <2>3. Visits(frames[1])
    BY <1>2, <1>c
  <2> QED BY <1>1, <1>2, <2>2, <2>3
<1>5. \A k \in DOMAIN tail : Visits(tail[k]) => IsHeld(tail[k].path) /\ tail[k].path[1] < n
  BY <1>1, <1>2
<1>6. \A k \in DOMAIN new : Visits(new[k]) => IsHeld(new[k].path) /\ new[k].path[1] < n
  BY <1>3, <1>4, <1>5, <1>c
<1>7. LeftToRight(new)
  <2> SUFFICES ASSUME NEW j \in DOMAIN new, NEW k \in DOMAIN new, j < k,
                      Visits(new[j]), Visits(new[k])
               PROVE  LeftOf(new[j].path, new[k].path)
    BY DEF LeftToRight
  <2>1. CASE j \in DOMAIN s /\ k \in DOMAIN s
    BY <1>3, <2>1 DEF LeftToRight
  <2>2. CASE j \in DOMAIN s /\ k \notin DOMAIN s
    <3>1. new[j] = s[j]
      BY <1>3, <2>2
    <3> DEFINE i == k - Len(s)
    <3>2. i \in DOMAIN tail /\ new[k] = tail[i]
      BY <1>3, <2>2
    <3> HIDE DEF i
    <3>3. /\ Visits(frames[1]) /\ Visits(frames[i + 1]) /\ 1 < i + 1
          /\ 1 \in DOMAIN frames /\ i + 1 \in DOMAIN frames
      BY <1>2, <1>c, <2>2, <3>1, <3>2
    <3>4. LeftOf(top.path, tail[i].path)
      BY <1>1, <1>2, <3>2, <3>3 DEF LeftToRight
    <3>5. /\ top.path \in Seq(Nat) /\ tail[i].path \in Seq(Nat) /\ s[j].path \in Seq(Nat)
          /\ s[j].path = top.path \/ Above(top.path, s[j].path)
      BY <1>2, <1>a, <1>b, <1>c, <2>2, <3>1, <3>2, FrameFacts
    <3>6. LeftOf(s[j].path, tail[i].path)
      BY <3>4, <3>5, LeftBelow
    <3> QED BY <3>1, <3>2, <3>6
  <2>3. CASE j \notin DOMAIN s /\ k \notin DOMAIN s
    <3> DEFINE i == k - Len(s)
               h == j - Len(s)
    <3>1. /\ i \in DOMAIN tail /\ new[k] = tail[i]
          /\ h \in DOMAIN tail /\ new[j] = tail[h] /\ h < i
      BY <1>3, <2>3
    <3> HIDE DEF i, h
    <3>2. /\ h + 1 \in DOMAIN frames /\ i + 1 \in DOMAIN frames /\ h + 1 < i + 1
          /\ tail[i] = frames[i + 1] /\ tail[h] = frames[h + 1]
      BY <1>2, <3>1
    <3> QED BY <1>1, <3>1, <3>2 DEF LeftToRight
  <2>4. ~(j \notin DOMAIN s /\ k \in DOMAIN s)
    BY <1>3
  <2> QED BY <2>1, <2>2, <2>3, <2>4
<1>8. Covered(new) = Covered(s) \cup Covered(tail)
  <2>1. \A e \in Elements : (\E k \in DOMAIN new : Covers(new[k], e))
            <=> (\E k \in DOMAIN s : Covers(s[k], e)) \/ \E k \in DOMAIN tail : Covers(tail[k], e)
    BY <1>3
  <2> QED BY <2>1 DEF Covered
<1>9. IsStack(new, n)
  BY <1>1, <1>3, <1>6, <1>7 DEF IsStack
<1>10. Rest(new, n) = Covered(s) \cup Rest(tail, n)
  BY <1>8 DEF Rest
<1> QED BY <1>9, <1>10 DEF new, tail

------------------------------------------------------------------------------
(***************************************************************************)
(* The inductive invariant                                                 *)
(***************************************************************************)
\* The elements that are still to come are those behind the first ones.
Remains(frames, n, done) ==
    done \in 0 .. Total /\ Rest(frames, n) = {e \in Elements : done < Place(e)}

TypeElementOf(e) == TypeElement(Kind(e), Declared(e))

Announced(sequence) ==
    /\ sequence \in Seq({TypeElementOf(e) : e \in Elements}) /\ Len(sequence) <= Total
    /\ \A e \in Elements : Place(e) <= Len(sequence) => sequence[Place(e)] = TypeElementOf(e)

Written(sequence) ==
    /\ sequence \in Seq({ElementOf(e) : e \in Elements}) /\ Len(sequence) <= Total
    /\ \A e \in Elements : Place(e) <= Len(sequence) => sequence[Place(e)] = ElementOf(e)

StreamsOf(S) ==
    [elements : S, position : Nat, tried : Nat, failAt : Nat, error : BOOLEAN]

\* It has an error since it came to the element that it fails at.
Output(stream) ==
    /\ stream \in StreamsOf(Seq({ElementOf(e) : e \in Elements}))
    /\ stream.tried <= Total
    /\ stream.error <=> stream.failAt \in 1 .. stream.tried
    /\ ~stream.error => stream.tried = Len(stream.elements) /\ Written(stream.elements)

Input(stream) ==
    /\ stream \in StreamsOf(Seq({ElementOf(e) : e \in Elements}))
    /\ Written(stream.elements) /\ Len(stream.elements) = Total
    /\ stream.tried <= Total
    /\ IF stream.error
       THEN stream.tried = stream.failAt /\ stream.position = stream.tried - 1
       ELSE stream.failAt \notin 1 .. stream.tried /\ stream.position = stream.tried

AllVisit(frames) == \A k \in DOMAIN frames : Visits(frames[k])

AllAnnounced(frames) == \A k \in DOMAIN frames : IsAnnounced(frames[k])

AllDeclared(frames) == \A k \in DOMAIN frames : Visits(frames[k]) => IsDeclared(frames[k])

\* The variants below are set to what was read for them.
Sets(frames, position) ==
    \A k \in DOMAIN frames : ~Visits(frames[k]) =>
        /\ frames[k].path \in Elements /\ Place(frames[k].path) <= position
        /\ Kind(frames[k].path) = "variant"
        /\ frames[k].index = call.value[frames[k].path]

\* Only the first reader does not look at the error of the stream, and if there is one,
\* not even that does.
ChecksErrors(frames, error) ==
    \A k \in DOMAIN frames : frames[k].does = "visit" => k = 1 /\ ~error

StillSets(frames, p) == \E k \in DOMAIN frames : ~Visits(frames[k]) /\ frames[k].path = p

\* An element that was read is in its target, unless it is a variant still to be set.
Received(values, frames, position) ==
    \A p \in Nodes :
        \/ values[p] = call.value[p] /\ p \in Elements /\ Place(p) <= position
        \/ /\ values[p] = DefaultValue(p)
           /\ p \in Elements /\ Place(p) <= position => StillSets(frames, p)

StackInv ==
    /\ call \in Calls
    /\ at \in {"announce", "serialize", "not serialized",
               "deserialize", "deserialized", "not deserialized"}
    /\ IsStack(todo, next) /\ next > 0
    /\ at \in {"not serialized", "deserialized", "not deserialized"} => todo = <<>>
    /\ DOMAIN targets = Nodes /\ targets = [p \in DOMAIN targets |-> targets[p]]

AnnounceInv ==
    /\ Announced(types)
    /\ at = "announce" =>
          Remains(todo, next, Len(types)) /\ AllAnnounced(todo) /\ AllVisit(todo)
    /\ at # "announce" => Len(types) = Total

WriteInv ==
    /\ Output(out)
    /\ at = "serialize" =>
          Remains(todo, next, out.tried) /\ AllDeclared(todo) /\ AllVisit(todo)
    /\ at = "not serialized" => out.error
    /\ at \in {"deserialize", "deserialized", "not deserialized"} =>
          ~out.error /\ out.tried = Total

ReadInv ==
    /\ at \in {"announce", "serialize", "not serialized"} =>
          \A p \in Nodes : targets[p] = DefaultValue(p)
    /\ at \in {"deserialize", "deserialized", "not deserialized"} =>
          Input(in) /\ Received(targets, todo, in.position)
    /\ at = "deserialize" =>
          /\ AllDeclared(todo) /\ Sets(todo, in.position) /\ ChecksErrors(todo, in.error)
          /\ ~in.error => Remains(todo, next, in.tried)
    /\ at = "deserialized" => ~in.error /\ in.tried = Total
    /\ at = "not deserialized" => in.error

SerialInv == StackInv /\ AnnounceInv /\ WriteInv /\ ReadInv
------------------------------------------------------------------------------
(***************************************************************************)
(* The steps of the stack                                                  *)
(***************************************************************************)
\* What is below a path below another is below that.
LEMMA AboveTransitive ==
    ASSUME NEW p \in Seq(Nat), NEW q \in Seq(Nat), NEW r \in Seq(Nat),
           Above(p, q), r = q \/ Above(q, r)
    PROVE  Above(p, r)
<1>1. Len(p) \in Nat /\ Len(q) \in Nat /\ Len(r) \in Nat
  OBVIOUS
<1>2. Len(p) < Len(q) /\ \A k \in 1 .. Len(p) : p[k] = q[k]
  BY DEF Above
<1>3. CASE r = q
  BY <1>3
<1>4. CASE Above(q, r)
  <2>1. Len(q) < Len(r) /\ \A k \in 1 .. Len(q) : q[k] = r[k]
    BY <1>4 DEF Above
  <2>2. Len(p) < Len(r)
    BY <1>1, <1>2, <2>1
  <2>3. ASSUME NEW k \in 1 .. Len(p) PROVE p[k] = r[k]
    <3>1. Len(p) < Len(q)
      BY <1>2
    <3>2. k \in 1 .. Len(q)
      BY <1>1, <3>1
    <3> QED BY <1>2, <2>1, <3>2
  <2> QED BY <2>2, <2>3 DEF Above
<1> QED BY <1>3, <1>4

\* A frame is replaced by those for the members of its struct.
LEMMA StructStep ==
    ASSUME IsCall(call), NEW frames, NEW n, IsStack(frames, n), frames # <<>>,
           Visits(Head(frames)), Kind(Head(frames).path) = "struct",
           NEW s \in Seq(Frames), Len(s) = Size(Head(frames).path),
           \A k \in 1 .. Len(s) : Visits(s[k]) /\ s[k].path = Append(Head(frames).path, k)
    PROVE  IsStack(s \o Tail(frames), n) /\ Rest(s \o Tail(frames), n) = Rest(frames, n)
<1> DEFINE top == Head(frames)
           p == top.path
<1>1. top \in Frames /\ top = frames[1] /\ 1 \in DOMAIN frames
  BY TopFacts DEF IsStack
<1>2. p \in InCall /\ p \in Nodes /\ p \in Seq(Nat) /\ IsHeld(p)
  BY <1>1, FrameFacts DEF IsStack
<1>3. Len(s) \in Nat /\ DOMAIN s = 1 .. Len(s) /\ Len(s) = Size(p) /\ Kind(p) = "struct"
  OBVIOUS
<1>4. \A k \in DOMAIN s : Visits(s[k]) /\ s[k].path = Append(p, k)
  BY <1>3
<1>t. Visits(top)
  OBVIOUS
<1>r. /\ Rest(frames, n) = Covered(<<top>>) \cup Rest(Tail(frames), n)
      /\ Covered(<<top>>) = {e \in Elements : Covers(top, e)}
  BY TopCovers
<1> HIDE DEF p
<1>5. \A k \in DOMAIN s :
         /\ Append(p, k) \in Seq(Nat) /\ Above(p, Append(p, k)) /\ IsHeld(Append(p, k))
         /\ k \in Nat
  BY <1>2, <1>3, MemberFacts, HeldMember
<1>6. LeftToRight(s)
  BY <1>2, <1>4, <1>5, MembersLeft DEF LeftToRight
<1>7. /\ IsStack(s \o Tail(frames), n)
      /\ Rest(s \o Tail(frames), n) = Covered(s) \cup Rest(Tail(frames), n)
  <2>1. \A k \in DOMAIN s : Visits(s[k]) =>
           /\ Visits(top) /\ IsHeld(s[k].path)
           /\ s[k].path = top.path \/ Above(top.path, s[k].path)
    BY <1>4, <1>5, <1>t DEF p
  <2> QED BY <1>6, <2>1, Replaced
<1>8. Covered(s) = Covered(<<top>>)
  <2>1. ASSUME NEW e \in Elements, Covers(top, e) PROVE \E k \in DOMAIN s : Covers(s[k], e)
    <3>1. e # p /\ e \in Nodes
      BY <1>3 DEF Elements
    <3>2. Above(p, e)
      BY <2>1, <3>1 DEF Covers, p
    <3>3. PICK k \in 1 .. Size(p) : e = Append(p, k) \/ Above(Append(p, k), e)
      BY <1>2, <3>1, <3>2, BelowStruct
    <3> QED BY <1>3, <1>4, <3>3 DEF Covers
  <2>2. ASSUME NEW e \in Elements, NEW k \in DOMAIN s, Covers(s[k], e) PROVE Covers(top, e)
    <3>1. e \in Seq(Nat) /\ (e = Append(p, k) \/ Above(Append(p, k), e))
      BY <1>4, <2>2, ElementInCall DEF Covers
    <3>2. Above(p, e)
      BY <1>2, <1>5, <3>1, BelowMember
    <3> QED BY <1>t, <3>2 DEF Covers, p
  <2> QED BY <1>r, <2>1, <2>2 DEF Covered
<1> QED BY <1>r, <1>7, <1>8

\* A frame returns.
LEMMA ReturnStep ==
    ASSUME IsCall(call), NEW frames, NEW n, IsStack(frames, n), frames # <<>>
    PROVE  /\ IsStack(Tail(frames), n) /\ <<>> \o Tail(frames) = Tail(frames)
           /\ ~Visits(Head(frames)) => Rest(Tail(frames), n) = Rest(frames, n)
<1>1. Tail(frames) \in Seq(Frames)
  BY TopFacts DEF IsStack
<1>2. <<>> \o Tail(frames) = Tail(frames)
  BY <1>1, ConcatEmptySeq
<1>3. <<>> \in Seq(Frames) /\ DOMAIN <<>> = {} /\ LeftToRight(<<>>)
  BY DEF LeftToRight
<1>4. IsStack(<<>> \o Tail(frames), n)
  BY <1>3, Replaced
<1>5. ASSUME ~Visits(Head(frames)) PROVE Rest(Tail(frames), n) = Rest(frames, n)
  <2>1. \A e \in Elements : ~Covers(Head(frames), e)
    BY <1>5 DEF Covers
  <2>2. /\ Rest(frames, n) = Covered(<<Head(frames)>>) \cup Rest(Tail(frames), n)
        /\ Covered(<<Head(frames)>>) = {e \in Elements : Covers(Head(frames), e)}
    BY TopCovers
  <2> QED BY <2>1, <2>2
<1> QED BY <1>2, <1>4, <1>5

\* The frame of an element is removed, and the element no longer to come.
LEMMA ElementStep ==
    ASSUME IsCall(call), NEW frames, NEW n, IsStack(frames, n), frames # <<>>,
           Visits(Head(frames)), IsElement(Head(frames).path)
    PROVE  /\ Head(frames).path \in Elements
           /\ Rest(Tail(frames), n) = Rest(frames, n) \ {Head(frames).path}
<1> DEFINE top == Head(frames)
           p == top.path
<1>1. top \in Frames /\ top = frames[1] /\ 1 \in DOMAIN frames
  BY TopFacts DEF IsStack
<1>2. p \in InCall /\ p \in Nodes /\ IsHeld(p)
  BY <1>1, FrameFacts DEF IsStack
<1>3. p \in Elements
  BY <1>2 DEF Elements, IsElement
<1>4. \A e \in Elements : Covers(top, e) <=> e = p
  <2>1. \A e \in Elements : ~Above(p, e)
    BY <1>2, BelowElement DEF Elements
  <2> QED BY <2>1 DEF Covers
<1>5. /\ Rest(frames, n) = Covered(<<top>>) \cup Rest(Tail(frames), n)
      /\ Covered(<<top>>) \cap Rest(Tail(frames), n) = {}
      /\ Covered(<<top>>) = {e \in Elements : Covers(top, e)}
  BY TopCovers
<1>6. Covered(<<top>>) = {p}
  BY <1>3, <1>4, <1>5
<1> QED BY <1>3, <1>5, <1>6

\* A frame is replaced by that for what its variant holds.
LEMMA VariantStep ==
    ASSUME IsCall(call), NEW frames, NEW n, IsStack(frames, n), frames # <<>>,
           Visits(Head(frames)), Kind(Head(frames).path) = "variant",
           NEW s \in Seq(Frames), s # <<>>, Visits(s[1]),
           s[1].path = Content(Head(frames).path, call.value[Head(frames).path]),
           \A k \in DOMAIN s : Visits(s[k]) => k = 1
    PROVE  /\ Head(frames).path \in Elements
           /\ IsStack(s \o Tail(frames), n)
           /\ Rest(s \o Tail(frames), n) = Rest(frames, n) \ {Head(frames).path}
<1> DEFINE top == Head(frames)
           p == top.path
           c == Content(p, call.value[p])
<1>1. top \in Frames /\ top = frames[1] /\ 1 \in DOMAIN frames
  BY TopFacts DEF IsStack
<1>2. p \in InCall /\ p \in Nodes /\ p \in Seq(Nat) /\ IsHeld(p) /\ Kind(p) = "variant"
  BY <1>1, FrameFacts DEF IsStack
<1>3. p \in Elements
  BY <1>2 DEF Elements
<1>t. Visits(top) /\ s[1].path = c
  OBVIOUS
<1>r. /\ Rest(frames, n) = Covered(<<top>>) \cup Rest(Tail(frames), n)
      /\ Covered(<<top>>) \cap Rest(Tail(frames), n) = {}
      /\ Covered(<<top>>) = {e \in Elements : Covers(top, e)}
  BY TopCovers
<1>4. c \in InCall /\ IsHeld(c) /\ Above(p, c) /\ c \in Seq(Nat)
  BY <1>2, HeldContent
<1>5. 1 \in DOMAIN s /\ LeftToRight(s)
  <2>1. \A j, k \in DOMAIN s : ~(j < k /\ Visits(s[j]) /\ Visits(s[k]))
    OBVIOUS
  <2>2. 1 \in DOMAIN s
    BY EmptySeq
  <2> QED BY <2>1, <2>2 DEF LeftToRight
<1>6. /\ IsStack(s \o Tail(frames), n)
      /\ Rest(s \o Tail(frames), n) = Covered(s) \cup Rest(Tail(frames), n)
  BY <1>4, <1>5, <1>t, Replaced
<1>7. Covered(s) = Covered(<<top>>) \ {p}
  <2>1. \A e \in Elements : (\E k \in DOMAIN s : Covers(s[k], e)) <=> e = c \/ Above(c, e)
    BY <1>5, <1>t DEF Covers
  <2>2. ASSUME NEW e \in Elements, Above(p, e) PROVE e = c \/ Above(c, e)
    BY <1>2, <2>2, BelowVariant
  <2>3. ASSUME NEW e \in Elements, e = c \/ Above(c, e) PROVE Above(p, e) /\ e # p
    <3>1. e \in Seq(Nat)
      BY ElementInCall
    <3>2. Above(p, e)
      BY <1>2, <1>4, <2>3, <3>1, AboveTransitive
    <3> QED BY <3>1, <3>2, BeforeIrreflexive DEF Before
  <2>4. \A e \in Elements : Covers(top, e) <=> e = p \/ Above(p, e)
    BY <1>t DEF Covers
  <2> QED BY <1>r, <2>1, <2>2, <2>3, <2>4 DEF Covered
<1>8. p \in Covered(<<top>>)
  BY <1>3, <1>r, <1>t DEF Covers
<1> QED BY <1>3, <1>6, <1>7, <1>8, <1>r

\* The element of the top is the next one.
LEMMA NextElement ==
    ASSUME IsCall(call), NEW frames, NEW n, IsStack(frames, n), frames # <<>>,
           Visits(Head(frames)), Head(frames).path \in Elements,
           NEW done, Remains(frames, n, done)
    PROVE  Place(Head(frames).path) = done + 1 /\ done \in Nat /\ done + 1 <= Total
<1> DEFINE p == Head(frames).path
<1>1. done \in 0 .. Total /\ Rest(frames, n) = {e \in Elements : done < Place(e)} /\ Total \in Nat
  BY ElementFacts DEF Remains
<1>2. p \in Rest(frames, n)
  <2>1. Covers(Head(frames), p)
    BY DEF Covers
  <2>2. /\ Covered(<<Head(frames)>>) = {e \in Elements : Covers(Head(frames), e)}
        /\ Rest(frames, n) = Covered(<<Head(frames)>>) \cup Rest(Tail(frames), n)
    BY TopCovers
  <2>3. p \in Elements
    OBVIOUS
  <2> HIDE DEF p
  <2>4. p \in Covered(<<Head(frames)>>)
    BY <2>1, <2>2, <2>3
  <2> QED BY <2>2, <2>4
<1>3. ASSUME NEW e \in Rest(frames, n) PROVE Place(p) <= Place(e)
  <2>1. e = p \/ Above(p, e) \/ LeftOf(p, e)
    BY TopCovers DEF Covers
  <2>2. e = p \/ Before(p, e)
    BY <2>1 DEF Before
  <2>3. e \in Elements /\ Place(e) \in 1 .. Total /\ Place(p) \in 1 .. Total
    BY <1>1, <1>3, PlaceFacts
  <2>4. e = p \/ Place(p) < Place(e)
    BY <2>2, <2>3, PlaceFacts
  <2> QED BY <2>3, <2>4
<1>4. p \in Elements /\ Place(p) \in 1 .. Total /\ done < Place(p)
  BY <1>1, <1>2, PlaceFacts
<1> HIDE DEF p
<1>5. PICK e \in Elements : Place(e) = done + 1
  <2>1. done + 1 \in 1 .. Total
    BY <1>1, <1>4
  <2> QED BY <2>1, PlaceFacts
<1>6. Place(p) = done + 1
  <2>1. e \in Rest(frames, n)
    BY <1>1, <1>5
  <2> QED BY <1>1, <1>3, <1>4, <1>5, <2>1
<1> QED BY <1>1, <1>4, <1>6 DEF p

\* After the element of the top, one more is done.
LEMMA Progress ==
    ASSUME IsCall(call), NEW frames, NEW n, IsStack(frames, n), frames # <<>>,
           Visits(Head(frames)), Head(frames).path \in Elements,
           NEW done, Remains(frames, n, done),
           NEW left, Rest(left, n) = Rest(frames, n) \ {Head(frames).path}
    PROVE  Remains(left, n, done + 1)
<1> DEFINE p == Head(frames).path
<1>1. Rest(frames, n) = {e \in Elements : done < Place(e)}
  BY DEF Remains
<1>2. p \in Elements /\ Place(p) = done + 1 /\ done \in Nat /\ done + 1 <= Total /\ Total \in Nat
  BY NextElement, ElementFacts
<1> HIDE DEF p
<1>3. \A f \in Elements : done + 1 < Place(f) <=> done < Place(f) /\ f # p
  <2> TAKE f \in Elements
  <2>1. Place(f) \in 1 .. Total /\ (Place(f) = Place(p) => f = p)
    BY <1>2, PlaceFacts
  <2> QED BY <1>2, <2>1
<1>4. Rest(left, n) = {f \in Elements : done < Place(f)} \ {p}
  BY <1>1 DEF p
<1>5. Rest(left, n) = {f \in Elements : done + 1 < Place(f)}
  BY <1>3, <1>4
<1>6. done + 1 \in 0 .. Total
  BY <1>2
<1> QED BY <1>5, <1>6 DEF Remains

\* Between two arguments.
LEMMA ArgumentStep ==
    ASSUME IsCall(call), NEW n \in Nat, n > 0, n <= Size(<<>>)
    PROVE  /\ IsStack(<<Visit(<<n>>, <<n>>)>>, n + 1)
           /\ Rest(<<Visit(<<n>>, <<n>>)>>, n + 1) = Rest(<<>>, n)
           /\ DeclaredFor(<<n>>) = <<n>>
<1> DEFINE f == Visit(<<n>>, <<n>>)
           s == <<f>>
<1>1. <<>> \in Seq(Nat) /\ Append(<<>>, n) = <<n>> /\ n \in 1 .. Size(<<>>) /\ Size(<<>>) \in Nat
  BY NodeFacts
<1>2. <<n>> \in InCall /\ <<n>> \in Seq(Nat) /\ <<n>>[1] = n /\ <<n>> # <<>>
  BY <1>1, NodeFacts DEF InCall
<1>3. \A q \in Nodes : Above(q, <<n>>) => q = <<>>
  BY <1>1, NodeFacts DEF Above
<1>4. IsHeld(<<n>>)
  BY <1>3, NodeFacts DEF IsHeld
<1>5. DeclaredFor(<<n>>) = <<n>>
  BY <1>3 DEF DeclaredFor, InCall
<1>6. f \in Frames /\ Visits(f) /\ f.path = <<n>>
  BY <1>2 DEF Frames, Visit, Frame, Visits
<1> HIDE DEF f
<1>7. s \in Seq(Frames) /\ DOMAIN s = {1} /\ s[1] = f
  BY <1>6
<1>8. LeftToRight(s)
  BY <1>7 DEF LeftToRight
<1>9. IsStack(s, n + 1)
  BY <1>2, <1>4, <1>6, <1>7, <1>8 DEF IsStack
<1>10. \A e \in Elements : n <= e[1] <=> n + 1 <= e[1] \/ \E k \in DOMAIN s : Covers(s[k], e)
  <2> TAKE e \in Elements
  <2>1. e \in Seq(Nat) /\ e # <<>> /\ e[1] \in Nat
    BY <1>1, ElementInCall DEF InCall
  <2>2. (\E k \in DOMAIN s : Covers(s[k], e)) <=> e = <<n>> \/ Above(<<n>>, e)
    BY <1>6, <1>7 DEF Covers
  <2>3. e = <<n>> \/ Above(<<n>>, e) <=> e[1] = n
    <3>1. Above(<<>>, e) /\ Len(<<>>) + 1 = 1
      BY <2>1, RootAbove
    <3>2. Above(<<>>, e) /\ e[Len(<<>>) + 1] = n
             <=> e = Append(<<>>, n) \/ Above(Append(<<>>, n), e)
      BY <1>1, <2>1, BelowMember
    <3> QED BY <1>1, <3>1, <3>2
  <2> QED BY <2>1, <2>2, <2>3
<1>11. Rest(s, n + 1) = Rest(<<>>, n)
  BY <1>10 DEF Rest, Covered
<1> QED BY <1>5, <1>9, <1>11 DEF f

\* Before the first argument everything is still to come, and behind the last one nothing.
LEMMA Ends ==
    ASSUME IsCall(call)
    PROVE  /\ IsStack(<<>>, 1) /\ Remains(<<>>, 1, 0)
           /\ \A n, done : n \in Nat /\ n > Size(<<>>) /\ Remains(<<>>, n, done) => done = Total
<1>1. Total \in Nat /\ \A e \in Elements : Place(e) \in 1 .. Total
  BY ElementFacts, PlaceFacts
<1>2. \A e \in Elements : e[1] \in 1 .. Size(<<>>) /\ Size(<<>>) \in Nat
  BY ElementInCall, NodeFacts
<1>3. IsStack(<<>>, 1)
  BY DEF IsStack, LeftToRight
<1>4. Remains(<<>>, 1, 0)
  <2>1. Rest(<<>>, 1) = Elements
    BY <1>2 DEF Rest, Covered
  <2> QED BY <1>1, <2>1 DEF Remains
<1>5. ASSUME NEW n \in Nat, n > Size(<<>>), NEW done, Remains(<<>>, n, done) PROVE done = Total
  <2>1. Rest(<<>>, n) = {}
    BY <1>2, <1>5 DEF Rest, Covered
  <2>2. done \in 0 .. Total /\ \A e \in Elements : ~(done < Place(e))
    BY <1>5, <2>1 DEF Remains
  <2>3. ASSUME done < Total PROVE FALSE
    <3>1. done + 1 \in 1 .. Total /\ done < done + 1
      BY <1>1, <2>2, <2>3
    <3> QED BY <2>2, <3>1, PlaceFacts
  <2> QED BY <1>1, <2>2, <2>3
<1> QED BY <1>3, <1>4, <1>5

------------------------------------------------------------------------------
(***************************************************************************)
(* The call stays as it is                                                 *)
(***************************************************************************)
\* What is defined from the call alone.
LEMMA SameTree ==
    ASSUME call' = call
    PROVE  /\ Nodes' = Nodes /\ InCall' = InCall /\ Elements' = Elements /\ Total' = Total
           /\ Frames' = Frames
           /\ \A p : Kind(p)' = Kind(p) /\ DefaultValue(p)' = DefaultValue(p)
           /\ \A p : Place(p)' = Place(p) /\ Declared(p)' = Declared(p)
           /\ \A p : ElementOf(p)' = ElementOf(p) /\ TypeElementOf(p)' = TypeElementOf(p)
           /\ \A p : IsHeld(p)' <=> IsHeld(p)
           /\ \A p : DeclaredFor(p)' = DeclaredFor(p)
<1>1. Nodes' = Nodes /\ InCall' = InCall
  BY DEF Nodes, InCall
<1>2. \A p : Kind(p)' = Kind(p) /\ Size(p)' = Size(p)
  BY DEF Kind, Size
<1>3. \A p : IsHeld(p)' <=> IsHeld(p)
  BY <1>1, <1>2 DEF IsHeld
<1>4. Elements' = Elements
  BY <1>1, <1>2, <1>3 DEF Elements
<1>5. Total' = Total
  BY <1>4 DEF Total
<1>6. \A p : DefaultValue(p)' = DefaultValue(p)
  BY <1>2 DEF DefaultValue
<1>7. \A p : Place(p)' = Place(p)
  <2> SUFFICES ASSUME NEW p PROVE Place(p)' = Place(p)
    OBVIOUS
  <2> QED BY <1>4 DEF Place
<1>8. \A p : Declared(p)' = Declared(p)
  <2> SUFFICES ASSUME NEW p PROVE Declared(p)' = Declared(p)
    OBVIOUS
  <2> QED BY <1>1, <1>2 DEF Declared
<1>9. \A p : ElementOf(p)' = ElementOf(p)
  <2> SUFFICES ASSUME NEW p PROVE ElementOf(p)' = ElementOf(p)
    OBVIOUS
  <2> QED BY <1>2, <1>8 DEF ElementOf
<1>10. \A p : TypeElementOf(p)' = TypeElementOf(p)
  BY <1>2, <1>8 DEF TypeElementOf
<1>11. Frames' = Frames
  BY <1>1 DEF Frames
<1>12. \A p : DeclaredFor(p)' = DeclaredFor(p)
  <2> SUFFICES ASSUME NEW p PROVE DeclaredFor(p)' = DeclaredFor(p)
    OBVIOUS
  <2> QED BY <1>1 DEF DeclaredFor
<1> QED BY <1>1, <1>2, <1>3, <1>4, <1>5, <1>6, <1>7, <1>8, <1>9, <1>10, <1>11, <1>12

\* What is said of stacks.
LEMMA SameStack ==
    ASSUME call' = call
    PROVE  /\ \A frames, n : IsStack(frames, n)' <=> IsStack(frames, n)
           /\ \A frames, n, done : Remains(frames, n, done)' <=> Remains(frames, n, done)
           /\ \A frames : AllAnnounced(frames)' <=> AllAnnounced(frames)
           /\ \A frames : AllDeclared(frames)' <=> AllDeclared(frames)
           /\ \A frames, position : Sets(frames, position)' <=> Sets(frames, position)
<1>1. ASSUME NEW frames, NEW n PROVE IsStack(frames, n)' <=> IsStack(frames, n)
  BY SameTree DEF IsStack
<1>2. ASSUME NEW frames, NEW n, NEW done
      PROVE  Remains(frames, n, done)' <=> Remains(frames, n, done)
  <2>1. Covered(frames)' = Covered(frames)
    BY SameTree DEF Covered
  <2>2. Rest(frames, n)' = Rest(frames, n)
    BY <2>1, SameTree DEF Rest
  <2>3. {e \in Elements : done < Place(e)}' = {e \in Elements : done < Place(e)}
    BY SameTree
  <2> QED BY <2>2, <2>3, SameTree DEF Remains
<1>3. ASSUME NEW frames PROVE AllAnnounced(frames)' <=> AllAnnounced(frames)
  BY SameTree DEF AllAnnounced, IsAnnounced
<1>4. ASSUME NEW frames PROVE AllDeclared(frames)' <=> AllDeclared(frames)
  BY SameTree DEF AllDeclared, IsDeclared
<1>5. ASSUME NEW frames, NEW position PROVE Sets(frames, position)' <=> Sets(frames, position)
  BY SameTree DEF Sets
<1> QED BY <1>1, <1>2, <1>3, <1>4, <1>5

\* What is said of streams.
LEMMA SameStreams ==
    ASSUME call' = call
    PROVE  /\ \A sequence : Announced(sequence)' <=> Announced(sequence)
           /\ \A stream : Output(stream)' <=> Output(stream)
           /\ \A stream : Input(stream)' <=> Input(stream)
           /\ \A values, frames, position :
                 Received(values, frames, position)' <=> Received(values, frames, position)
<1>1. ASSUME NEW sequence PROVE Announced(sequence)' <=> Announced(sequence)
  <2>1. {TypeElementOf(e) : e \in Elements}' = {TypeElementOf(e) : e \in Elements}
    BY SameTree
  <2> QED BY <2>1, SameTree DEF Announced
<1>2. {ElementOf(e) : e \in Elements}' = {ElementOf(e) : e \in Elements}
  BY SameTree
<1>3. ASSUME NEW sequence PROVE Written(sequence)' <=> Written(sequence)
  BY <1>2, SameTree DEF Written
<1>4. ASSUME NEW stream PROVE Output(stream)' <=> Output(stream)
  BY <1>2, <1>3, SameTree DEF Output
<1>5. ASSUME NEW stream PROVE Input(stream)' <=> Input(stream)
  BY <1>2, <1>3, SameTree DEF Input
<1>6. ASSUME NEW values, NEW frames, NEW position
      PROVE  Received(values, frames, position)' <=> Received(values, frames, position)
  BY SameTree DEF Received
<1> QED BY <1>1, <1>4, <1>5, <1>6

------------------------------------------------------------------------------
(***************************************************************************)
(* The steps of the streams                                                *)
(***************************************************************************)
\* Appending to a sequence.
LEMMA SequenceStep ==
    ASSUME NEW S, NEW sequence \in Seq(S), NEW x \in S
    PROVE  /\ Append(sequence, x) \in Seq(S) /\ Len(Append(sequence, x)) = Len(sequence) + 1
           /\ Len(sequence) \in Nat
           /\ \A k \in 1 .. Len(sequence) : Append(sequence, x)[k] = sequence[k]
           /\ Append(sequence, x)[Len(sequence) + 1] = x
BY AppendProperties

\* The type of the next element is announced.
LEMMA AnnounceStep ==
    ASSUME IsCall(call), NEW sequence, Announced(sequence),
           NEW e \in Elements, Place(e) = Len(sequence) + 1
    PROVE  /\ Announced(Append(sequence, TypeElementOf(e)))
           /\ Len(Append(sequence, TypeElementOf(e))) = Len(sequence) + 1
<1> DEFINE S == {TypeElementOf(f) : f \in Elements}
           next2 == Append(sequence, TypeElementOf(e))
<1>1. sequence \in Seq(S) /\ TypeElementOf(e) \in S
  BY DEF Announced
<1> HIDE DEF S
<1>2. /\ next2 \in Seq(S) /\ Len(next2) = Len(sequence) + 1 /\ Len(sequence) \in Nat
      /\ \A k \in 1 .. Len(sequence) : next2[k] = sequence[k]
      /\ next2[Len(sequence) + 1] = TypeElementOf(e)
  BY <1>1, SequenceStep
<1> HIDE DEF next2
<1>3. \A f \in Elements : Place(f) \in 1 .. Total /\ (Place(f) = Place(e) => f = e)
  BY PlaceFacts
<1>4. Total \in Nat
  BY ElementFacts
<1>5. ASSUME NEW f \in Elements, Place(f) <= Len(next2) PROVE next2[Place(f)] = TypeElementOf(f)
  <2>1. CASE f = e
    BY <1>2, <2>1
  <2>2. CASE f # e
    <3>1. Place(f) \in 1 .. Len(sequence)
      BY <1>2, <1>3, <1>4, <1>5, <2>2
    <3> QED BY <1>2, <3>1 DEF Announced
  <2> QED BY <2>1, <2>2
<1>6. Len(next2) <= Total
  BY <1>2, <1>3, <1>4
<1> QED BY <1>2, <1>5, <1>6 DEF Announced, S, next2

\* The next element is written.
LEMMA WrittenStep ==
    ASSUME IsCall(call), NEW sequence, Written(sequence),
           NEW e \in Elements, Place(e) = Len(sequence) + 1
    PROVE  Written(Append(sequence, ElementOf(e)))
<1> DEFINE S == {ElementOf(f) : f \in Elements}
           next2 == Append(sequence, ElementOf(e))
<1>1. sequence \in Seq(S) /\ ElementOf(e) \in S
  BY DEF Written
<1> HIDE DEF S
<1>2. /\ next2 \in Seq(S) /\ Len(next2) = Len(sequence) + 1 /\ Len(sequence) \in Nat
      /\ \A k \in 1 .. Len(sequence) : next2[k] = sequence[k]
      /\ next2[Len(sequence) + 1] = ElementOf(e)
  BY <1>1, SequenceStep
<1> HIDE DEF next2
<1>3. \A f \in Elements : Place(f) \in 1 .. Total /\ (Place(f) = Place(e) => f = e)
  BY PlaceFacts
<1>4. Total \in Nat
  BY ElementFacts
<1>5. ASSUME NEW f \in Elements, Place(f) <= Len(next2) PROVE next2[Place(f)] = ElementOf(f)
  <2>1. CASE f = e
    BY <1>2, <2>1
  <2>2. CASE f # e
    <3>1. Place(f) \in 1 .. Len(sequence)
      BY <1>2, <1>3, <1>4, <1>5, <2>2
    <3> QED BY <1>2, <3>1 DEF Written
  <2> QED BY <2>1, <2>2
<1>6. Len(next2) <= Total
  BY <1>2, <1>3, <1>4
<1> QED BY <1>2, <1>5, <1>6 DEF Written, S, next2

\* Tried counts an element, and has an error if it is the one to fail at.
LEMMA TriedFacts ==
    ASSUME NEW S, NEW stream \in StreamsOf(S)
    PROVE  LET new == Tried(stream)
           IN  /\ new \in StreamsOf(S)
               /\ new.elements = stream.elements /\ new.position = stream.position
               /\ new.tried = stream.tried + 1 /\ new.failAt = stream.failAt
               /\ new.error \in BOOLEAN /\ (new.error <=> stream.error \/ Fails(stream))
<1> DEFINE middle == [stream EXCEPT !.tried = @ + 1]
<1>1. /\ middle \in StreamsOf(S)
      /\ middle.elements = stream.elements /\ middle.position = stream.position
      /\ middle.tried = stream.tried + 1 /\ middle.failAt = stream.failAt
  BY DEF StreamsOf
<1>2. PICK b \in BOOLEAN : b = (stream.error \/ Fails(stream))
  OBVIOUS
<1>3. Tried(stream) = [stream EXCEPT !.tried = @ + 1, !.error = b]
  BY <1>2, Zenon DEF Tried
<1>4. [stream EXCEPT !.tried = @ + 1, !.error = b] = [middle EXCEPT !.error = b]
  BY DEF StreamsOf
<1> HIDE DEF middle
<1>5. LET new == [middle EXCEPT !.error = b]
      IN  /\ new \in StreamsOf(S)
          /\ new.elements = middle.elements /\ new.position = middle.position
          /\ new.tried = middle.tried /\ new.failAt = middle.failAt
          /\ new.error = b
  BY <1>1 DEF StreamsOf
<1>6. Tried(stream) = [middle EXCEPT !.error = b]
  BY <1>3, <1>4
<1> QED BY <1>1, <1>2, <1>5, <1>6

\* Moving a position changes no other field.
LEMMA PassedFacts ==
    ASSUME NEW S, NEW stream \in StreamsOf(S)
    PROVE  LET new == [stream EXCEPT !.position = @ + 1]
           IN  /\ new \in StreamsOf(S)
               /\ new.elements = stream.elements /\ new.position = stream.position + 1
               /\ new.tried = stream.tried /\ new.failAt = stream.failAt
               /\ new.error = stream.error
BY DEF StreamsOf

\* The elements of a message are put into a stream.
LEMMA FilledFacts ==
    ASSUME NEW S, NEW stream \in StreamsOf(S), NEW T, NEW x \in T
    PROVE  LET new == [stream EXCEPT !.elements = x]
           IN  /\ new \in StreamsOf(T)
               /\ new.elements = x /\ new.position = stream.position
               /\ new.tried = stream.tried /\ new.failAt = stream.failAt
               /\ new.error = stream.error
BY DEF StreamsOf

\* An error changes no other field.
LEMMA FailedFacts ==
    ASSUME NEW S, NEW stream \in StreamsOf(S)
    PROVE  LET new == [stream EXCEPT !.error = TRUE]
           IN  /\ new \in StreamsOf(S)
               /\ new.elements = stream.elements /\ new.position = stream.position
               /\ new.tried = stream.tried /\ new.failAt = stream.failAt
               /\ new.error = TRUE
BY DEF StreamsOf
\* OutputStream writes the next element, or has an error.
LEMMA WriteStep ==
    ASSUME IsCall(call), NEW stream, Output(stream),
           NEW e \in Elements, Place(e) = stream.tried + 1, stream.tried + 1 <= Total
    PROVE  LET new == WriteElement(stream, Kind(e), Declared(e), call.value[e])
           IN  Output(new) /\ new.tried = stream.tried + 1
<1> DEFINE S == {ElementOf(f) : f \in Elements}
           new == WriteElement(stream, Kind(e), Declared(e), call.value[e])
           tried == Tried(stream)
<1>1. stream \in StreamsOf(Seq(S)) /\ ElementOf(e) \in S
  BY DEF Output
<1>2. /\ stream.elements \in Seq(S) /\ stream.tried \in Nat /\ stream.failAt \in Nat
      /\ stream.error \in BOOLEAN
      /\ stream.error <=> stream.failAt \in 1 .. stream.tried
      /\ ~stream.error => stream.tried = Len(stream.elements) /\ Written(stream.elements)
  BY <1>1 DEF Output, StreamsOf
<1> HIDE DEF S
<1>3. /\ Append(stream.elements, ElementOf(e)) \in Seq(S)
      /\ Len(Append(stream.elements, ElementOf(e))) = Len(stream.elements) + 1
      /\ Len(stream.elements) \in Nat
  BY <1>1, <1>2, SequenceStep
<1>4. /\ tried \in StreamsOf(Seq(S)) /\ tried.elements = stream.elements
      /\ tried.tried = stream.tried + 1 /\ tried.failAt = stream.failAt
      /\ tried.error \in BOOLEAN /\ (tried.error <=> stream.error \/ Fails(stream))
  BY <1>1, TriedFacts
<1>5. Fails(stream) <=> stream.tried + 1 = stream.failAt
  BY DEF Fails
<1> HIDE DEF tried
<1>6. tried.error <=> tried.failAt \in 1 .. tried.tried
  <2>1. stream.failAt \in 1 .. stream.tried + 1
           <=> stream.failAt \in 1 .. stream.tried \/ stream.tried + 1 = stream.failAt
    BY <1>2
  <2> QED BY <1>2, <1>4, <1>5, <2>1
<1>7. CASE Fails(stream)
  <2>1. new = tried
    BY <1>7 DEF WriteElement, tried
  <2> HIDE DEF new
  <2> QED BY <1>4, <1>6, <1>7, <2>1 DEF Output, S, new
<1>8. CASE ~Fails(stream)
  <2>a. new = [tried EXCEPT !.elements = Append(stream.elements, ElementOf(e))]
    BY <1>4, <1>8 DEF WriteElement, tried, ElementOf
  <2>1. PICK x \in Seq(S) : x = Append(stream.elements, ElementOf(e))
    BY <1>3
  <2> HIDE DEF new
  <2>2. /\ new \in StreamsOf(Seq(S)) /\ new.elements = Append(stream.elements, ElementOf(e))
        /\ new.tried = tried.tried /\ new.failAt = tried.failAt /\ new.error = tried.error
    <3>1. new = [tried EXCEPT !.elements = x]
      BY <2>a, <2>1
    <3>2. LET filled == [tried EXCEPT !.elements = x]
          IN  /\ filled \in StreamsOf(Seq(S)) /\ filled.elements = x
              /\ filled.tried = tried.tried /\ filled.failAt = tried.failAt
              /\ filled.error = tried.error
      BY <1>4, <2>1 DEF StreamsOf
    <3> QED BY <2>1, <3>1, <3>2
  <2>3. ASSUME ~new.error PROVE new.tried = Len(new.elements) /\ Written(new.elements)
    <3>1. stream.tried = Len(stream.elements) /\ Written(stream.elements)
      BY <1>2, <1>4, <2>2, <2>3
    <3>2. Written(new.elements)
      BY <2>2, <3>1, WrittenStep
    <3> QED BY <1>3, <1>4, <2>2, <3>1, <3>2
  <2> QED BY <1>4, <1>6, <2>2, <2>3 DEF Output, S, new
<1> QED BY <1>7, <1>8

\* InputStream reads the next element as it was sent, or has an error and no value.
LEMMA ReadStep ==
    ASSUME IsCall(call), NEW stream, Input(stream), ~stream.error,
           NEW e \in Elements, Place(e) = stream.tried + 1, stream.tried + 1 <= Total, NEW value
    PROVE  LET read == ReadElement(stream, Kind(e), Declared(e), value)
           IN  /\ Input(read.input) /\ read.input.error \in BOOLEAN
               /\ read.input.error =>
                     read.input.position = stream.position /\ read.value = value
               /\ ~read.input.error =>
                     /\ read.input.position = Place(e) /\ stream.position = Place(e) - 1
                     /\ read.input.tried = stream.tried + 1 /\ read.value = call.value[e]
<1> DEFINE S == {ElementOf(f) : f \in Elements}
           read == ReadElement(stream, Kind(e), Declared(e), value)
           tried == Tried(stream)
<1>1. /\ stream \in StreamsOf(Seq(S)) /\ Written(stream.elements)
      /\ Len(stream.elements) = Total /\ Total \in Nat
      /\ stream.failAt \notin 1 .. stream.tried /\ stream.position = stream.tried
  BY ElementFacts DEF Input
<1> HIDE DEF S
<1>2. stream.position \in Nat /\ stream.tried \in Nat /\ stream.failAt \in Nat
  BY <1>1 DEF StreamsOf
<1>3. stream.position # Len(stream.elements)
  BY <1>1, <1>2
<1>4. /\ tried \in StreamsOf(Seq(S)) /\ tried.elements = stream.elements
      /\ tried.position = stream.position
      /\ tried.tried = stream.tried + 1 /\ tried.failAt = stream.failAt
      /\ tried.error \in BOOLEAN /\ (tried.error <=> stream.error \/ Fails(stream))
  BY <1>1, TriedFacts
<1>5. CASE Fails(stream)
  <2> DEFINE failed == [tried EXCEPT !.error = TRUE]
  <2>1. stream.tried + 1 = stream.failAt
    BY <1>5 DEF Fails
  <2>2. read = [input |-> failed, value |-> value]
    BY <1>5, Zenon DEF ReadElement
  <2>3. read.input = failed /\ read.value = value
    BY <2>2
  <2> HIDE DEF tried
  <2>4. /\ failed \in StreamsOf(Seq(S)) /\ failed.elements = tried.elements
        /\ failed.position = tried.position /\ failed.tried = tried.tried
        /\ failed.failAt = tried.failAt /\ failed.error = TRUE
    BY <1>4, FailedFacts
  <2> HIDE DEF failed
  <2>5. failed.tried = failed.failAt /\ failed.position = failed.tried - 1
        /\ failed.position = stream.position
    BY <1>1, <1>2, <1>4, <2>1, <2>4
  <2>6. Input(failed)
    BY <1>1, <1>4, <2>1, <2>4, <2>5 DEF Input, S
  <2> HIDE DEF read
  <2> QED BY <2>3, <2>4, <2>5, <2>6 DEF read
<1>6. CASE ~Fails(stream)
  <2> DEFINE passed == [tried EXCEPT !.position = @ + 1]
  <2>1. stream.tried + 1 # stream.failAt
    BY <1>6 DEF Fails
  <2>2. stream.elements[stream.position + 1] = ElementOf(e)
    BY <1>1, <1>2 DEF Written
  <2>3. /\ ElementOf(e).type = Base(Kind(e)) /\ ElementOf(e).depl = Plain(Declared(e))
        /\ ElementOf(e).value = call.value[e]
    BY DEF ElementOf, Element
  <2>4. read = [input |-> passed, value |-> call.value[e]]
    BY <1>3, <1>6, <2>2, <2>3 DEF ReadElement
  <2>5. read.input = passed /\ read.value = call.value[e]
    BY <2>4
  <2> HIDE DEF tried
  <2>6. /\ passed \in StreamsOf(Seq(S)) /\ passed.elements = tried.elements
        /\ passed.position = tried.position + 1 /\ passed.tried = tried.tried
        /\ passed.failAt = tried.failAt /\ passed.error = tried.error
    BY <1>4, PassedFacts
  <2> HIDE DEF passed
  <2>7. /\ passed.failAt \notin 1 .. passed.tried /\ passed.position = passed.tried
        /\ passed.error = FALSE /\ passed.tried = stream.tried + 1
        /\ passed.position = Place(e) /\ stream.position = Place(e) - 1
    <3>1. passed.error = FALSE
      BY <1>4, <1>6, <2>6
    <3>2. passed.tried = stream.tried + 1 /\ passed.position = stream.position + 1
          /\ passed.failAt = stream.failAt
      BY <1>4, <2>6
    <3>3. stream.failAt \notin 1 .. stream.tried + 1
      BY <1>1, <1>2, <2>1
    <3> QED BY <1>1, <1>2, <3>1, <3>2, <3>3
  <2>8. Input(passed)
    BY <1>1, <1>4, <2>6, <2>7 DEF Input, S
  <2> HIDE DEF read
  <2> QED BY <2>5, <2>7, <2>8 DEF read
<1> QED BY <1>5, <1>6

\* A new OutputStream, and an InputStream with what was written completely.
LEMMA NewStreamFacts ==
    ASSUME IsCall(call), NEW n \in Nat
    PROVE  /\ Output(NewStream(n)) /\ NewStream(n).tried = 0
           /\ \A stream : Output(stream) /\ ~stream.error /\ stream.tried = Total =>
                 LET new == [NewStream(n) EXCEPT !.elements = stream.elements]
                 IN  Input(new) /\ new.tried = 0 /\ new.position = 0 /\ new.error = FALSE
<1> DEFINE S == {ElementOf(f) : f \in Elements}
           fresh == NewStream(n)
<1>1. Total \in Nat /\ \A e \in Elements : Place(e) \in 1 .. Total
  BY ElementFacts, PlaceFacts
<1>2. /\ fresh \in StreamsOf(Seq(S)) /\ fresh.elements = <<>> /\ fresh.tried = 0
      /\ fresh.position = 0 /\ fresh.error = FALSE
  BY DEF StreamsOf, NewStream
<1>3. Written(<<>>)
  BY <1>1 DEF Written
<1> HIDE DEF fresh
<1>4. Output(fresh)
  BY <1>1, <1>2, <1>3 DEF Output
<1>5. ASSUME NEW stream, Output(stream), ~stream.error, stream.tried = Total
      PROVE  LET new == [fresh EXCEPT !.elements = stream.elements]
             IN  Input(new) /\ new.tried = 0 /\ new.position = 0 /\ new.error = FALSE
  <2> DEFINE new == [fresh EXCEPT !.elements = stream.elements]
  <2>1. /\ stream.elements \in Seq(S) /\ Len(stream.elements) = Total
        /\ Written(stream.elements)
    BY <1>5 DEF Output, StreamsOf
  <2> HIDE DEF S
  <2>2. /\ new \in StreamsOf(Seq(S)) /\ new.elements = stream.elements
        /\ new.position = 0 /\ new.tried = 0 /\ new.error = FALSE
    BY <1>2, <2>1, FilledFacts
  <2> HIDE DEF new
  <2>3. Input(new)
    BY <1>1, <2>1, <2>2 DEF Input, S
  <2> QED BY <2>2, <2>3 DEF new
<1> QED BY <1>2, <1>4, <1>5 DEF fresh

------------------------------------------------------------------------------
(***************************************************************************)
(* The frames that a step adds                                             *)
(***************************************************************************)
\* What is said of each frame, when some are put on the rest of a stack.
LEMMA Kept ==
    ASSUME IsCall(call), NEW frames \in Seq(Frames), frames # <<>>, NEW s \in Seq(Frames)
    PROVE  /\ AllAnnounced(frames) /\ AllAnnounced(s) => AllAnnounced(s \o Tail(frames))
           /\ AllDeclared(frames) /\ AllDeclared(s) => AllDeclared(s \o Tail(frames))
           /\ AllVisit(frames) /\ AllVisit(s) => AllVisit(s \o Tail(frames))
           /\ \A position : Sets(frames, position) /\ Sets(s, position) =>
                 Sets(s \o Tail(frames), position)
           /\ \A before, error :
                 /\ ChecksErrors(frames, before)
                 /\ \A k \in DOMAIN s : s[k].does = "visit" => k = 1 /\ ~error
                 => ChecksErrors(s \o Tail(frames), error)
<1> DEFINE new == s \o Tail(frames)
<1>1. /\ Tail(frames) \in Seq(Frames)
      /\ \A k \in DOMAIN Tail(frames) :
            k + 1 \in DOMAIN frames /\ Tail(frames)[k] = frames[k + 1] /\ k \in Nat \ {0}
  BY TopFacts
<1>2. \A k \in DOMAIN new :
         \/ k \in DOMAIN s /\ new[k] = s[k]
         \/ \E j \in DOMAIN frames : j # 1 /\ new[k] = frames[j]
  <2> TAKE k \in DOMAIN new
  <2>1. \/ k \in DOMAIN s /\ new[k] = s[k]
        \/ k - Len(s) \in DOMAIN Tail(frames) /\ new[k] = Tail(frames)[k - Len(s)]
    BY <1>1, ConcatFacts
  <2>2. \A j \in Nat \ {0} : j + 1 # 1
    OBVIOUS
  <2> QED BY <1>1, <2>1, <2>2
<1> HIDE DEF new
<1>3. AllAnnounced(frames) /\ AllAnnounced(s) => AllAnnounced(new)
  BY <1>2 DEF AllAnnounced
<1>4. AllDeclared(frames) /\ AllDeclared(s) => AllDeclared(new)
  BY <1>2 DEF AllDeclared
<1>v. AllVisit(frames) /\ AllVisit(s) => AllVisit(new)
  BY <1>2 DEF AllVisit
<1>5. \A position : Sets(frames, position) /\ Sets(s, position) => Sets(new, position)
  BY <1>2 DEF Sets
<1>6. \A before, error :
         /\ ChecksErrors(frames, before)
         /\ \A k \in DOMAIN s : s[k].does = "visit" => k = 1 /\ ~error
         => ChecksErrors(new, error)
  BY <1>2 DEF ChecksErrors
<1> QED BY <1>3, <1>4, <1>5, <1>6, <1>v DEF new

\* The frames that set a variant stay, except one that does it.
LEMMA StillKept ==
    ASSUME IsCall(call), NEW frames \in Seq(Frames), frames # <<>>, NEW s \in Seq(Frames), NEW p,
           StillSets(frames, p), Visits(Head(frames)) \/ Head(frames).path # p
    PROVE  StillSets(s \o Tail(frames), p)
<1>1. PICK k \in DOMAIN frames : ~Visits(frames[k]) /\ frames[k].path = p
  BY DEF StillSets
<1>2. /\ Tail(frames) \in Seq(Frames) /\ Head(frames) = frames[1]
      /\ k = 1 \/ (k - 1 \in DOMAIN Tail(frames) /\ Tail(frames)[k - 1] = frames[k])
  BY TopFacts
<1>3. PICK tail \in Seq(Frames) : tail = Tail(frames)
  BY <1>2
<1>4. PICK j \in DOMAIN tail : tail[j] = frames[k]
  BY <1>1, <1>2, <1>3
<1>5. j + Len(s) \in DOMAIN (s \o tail) /\ (s \o tail)[j + Len(s)] = tail[j]
  BY ConcatFacts
<1> QED BY <1>1, <1>3, <1>4, <1>5 DEF StillSets

\* The fields of the call of a reader or a writer.
LEMMA VisitFrame ==
    ASSUME NEW p \in InCall, NEW d \in InCall \cup {NullDepl}
    PROVE  /\ Visit(p, d) \in Frames /\ Visits(Visit(p, d))
           /\ Visit(p, d).path = p /\ Visit(p, d).depl = d
           /\ VisitChecked(p, d) \in Frames /\ Visits(VisitChecked(p, d))
           /\ VisitChecked(p, d).path = p /\ VisitChecked(p, d).depl = d
           /\ VisitChecked(p, d).does # "visit"
<1>1. /\ Visit(p, d) \in Frames /\ Visits(Visit(p, d))
      /\ Visit(p, d).path = p /\ Visit(p, d).depl = d
  BY DEF Visit, Frame, Frames, Visits
<1>2. /\ VisitChecked(p, d) \in Frames /\ Visits(VisitChecked(p, d))
      /\ VisitChecked(p, d).path = p /\ VisitChecked(p, d).depl = d
      /\ VisitChecked(p, d).does # "visit"
  BY DEF VisitChecked, Frame, Frames, Visits
<1> QED BY <1>1, <1>2

\* The fields of the call that sets a variant.
LEMMA SetFrame ==
    ASSUME NEW p \in InCall, NEW i \in Int
    PROVE  /\ SetIndex(p, i) \in Frames /\ ~Visits(SetIndex(p, i))
           /\ SetIndex(p, i).path = p /\ SetIndex(p, i).index = i
           /\ SetIndex(p, i).does # "visit"
BY DEF SetIndex, Frame, Frames, Visits

\* StructTypeWriter announces its members, although it hands an EmptyDeployment on.
LEMMA AnnouncedMembers ==
    ASSUME IsCall(call), NEW f \in Frames, IsAnnounced(f), Kind(f.path) = "struct"
    PROVE  LET s == StructTypeWriter(f.path, f.depl)
           IN  /\ s \in Seq(Frames) /\ Len(s) = Size(f.path) /\ AllAnnounced(s) /\ AllVisit(s)
               /\ \A k \in 1 .. Len(s) : Visits(s[k]) /\ s[k].path = Append(f.path, k)
<1> DEFINE p == f.path
           D == f.depl
           s == StructTypeWriter(p, D)
           depl(i) == IF Depl(D) = "empty" THEN D ELSE MemberDepl(D, i)
<1>1. p \in InCall /\ D \in InCall \cup {NullDepl} /\ Size(p) \in Nat
  BY FrameFacts, NodeFacts DEF Frames
<1>2. \A i \in 1 .. Size(p) :
         /\ Append(p, i) \in InCall
         /\ MemberDepl(DeclaredFor(p), i) = DeclaredFor(Append(p, i))
         /\ DeclaredFor(Append(p, i)) \in InCall \cup {NullDepl}
  BY <1>1, MemberFacts, DeclaredMember, DeclaredElement
<1>n. /\ NullDepl \notin InCall /\ Depl(NullDepl) = "null"
      /\ \A q \in InCall : Depl(q) = call.depl[q]
  BY NullIsNoNode
<1> HIDE DEF p, D
<1>3. ASSUME NEW i \in 1 .. Size(p)
      PROVE  \/ depl(i) = DeclaredFor(Append(p, i))
             \/ /\ DeclaredFor(Append(p, i)) = NullDepl
                /\ depl(i) \in InCall /\ call.depl[depl(i)] = "empty"
  <2>1. D = DeclaredFor(p) \/ (DeclaredFor(p) = NullDepl /\ D \in InCall /\ call.depl[D] = "empty")
    BY DEF IsAnnounced, p, D
  <2>2. CASE Depl(D) = "empty"
    <3>1. D \in InCall /\ call.depl[D] = "empty" /\ depl(i) = D
      BY <1>1, <1>n, <2>2
    <3>2. MemberDepl(DeclaredFor(p), i) = NullDepl
      BY <1>n, <2>1, <2>2 DEF MemberDepl
    <3> QED BY <1>2, <3>1, <3>2
  <2>3. CASE Depl(D) # "empty"
    <3>1. D = DeclaredFor(p)
      BY <1>n, <2>1, <2>3
    <3> QED BY <1>2, <2>3, <3>1
  <2> QED BY <2>2, <2>3
<1>4. s = [i \in 1 .. Size(p) |-> Visit(Append(p, i), depl(i))]
  BY DEF StructTypeWriter
<1>5. \A i \in 1 .. Size(p) : depl(i) \in InCall \cup {NullDepl}
  BY <1>2, <1>3
<1> HIDE DEF s, depl
<1>6. \A i \in 1 .. Size(p) :
         /\ Visit(Append(p, i), depl(i)) \in Frames /\ Visits(Visit(Append(p, i), depl(i)))
         /\ Visit(Append(p, i), depl(i)).path = Append(p, i)
         /\ Visit(Append(p, i), depl(i)).depl = depl(i)
  BY <1>2, <1>5, VisitFrame
<1>7. /\ s \in Seq(Frames) /\ Len(s) = Size(p) /\ DOMAIN s = 1 .. Size(p)
      /\ \A k \in 1 .. Size(p) : s[k] = Visit(Append(p, k), depl(k))
  BY <1>1, <1>4, <1>6
<1>8. AllAnnounced(s)
  <2>1. \A k \in DOMAIN s : k \in 1 .. Size(p) /\ s[k].path = Append(p, k) /\ s[k].depl = depl(k)
    BY <1>6, <1>7
  <2> QED BY <1>3, <2>1 DEF AllAnnounced, IsAnnounced
<1> QED BY <1>6, <1>7, <1>8 DEF AllVisit, s, p, D

\* TypeOutputStreamWriteVisitor announces the content of a variant.
LEMMA AnnouncedContent ==
    ASSUME IsCall(call), NEW f \in Frames, IsAnnounced(f), Kind(f.path) = "variant"
    PROVE  LET s == TypeOutputStreamWriteVisitor(f.path, f.depl, call.value[f.path])
           IN  /\ s \in Seq(Frames) /\ s # <<>> /\ Visits(s[1]) /\ AllAnnounced(s)
               /\ AllVisit(s)
               /\ s[1].path = Content(f.path, call.value[f.path])
               /\ \A k \in DOMAIN s : Visits(s[k]) => k = 1
<1> DEFINE p == f.path
           D == f.depl
           c == Content(p, call.value[p])
           d == ContentDepl(D, call.value[p])
           s == <<Visit(c, d)>>
<1>1. p \in InCall /\ D \in InCall \cup {NullDepl} /\ Kind(p) = "variant"
  BY FrameFacts DEF Frames
<1>2. c \in InCall
  <2>1. Size(p) + 1 - call.value[p] \in 1 .. Size(p)
    BY <1>1, HeldIndex, 0 \in Nat
  <2> QED BY <1>1, <2>1, MemberFacts DEF Content
<1>3. ContentDepl(DeclaredFor(p), call.value[p]) = DeclaredFor(c)
      /\ DeclaredFor(c) \in InCall \cup {NullDepl}
  BY <1>1, <1>2, DeclaredContent, DeclaredElement
<1>4. /\ NullDepl \notin InCall /\ Depl(NullDepl) = "null"
      /\ \A q \in InCall : Depl(q) = call.depl[q]
  BY NullIsNoNode
<1>5. d = DeclaredFor(c)
  <2>1. D = DeclaredFor(p) \/ (DeclaredFor(p) = NullDepl /\ D \in InCall /\ call.depl[D] = "empty")
    BY DEF IsAnnounced
  <2>2. CASE D = DeclaredFor(p)
    BY <1>3, <2>2
  <2>3. CASE DeclaredFor(p) = NullDepl /\ D \in InCall /\ call.depl[D] = "empty"
    <3>1. d = NullDepl /\ DeclaredFor(c) = NullDepl
      BY <1>3, <1>4, <2>3 DEF ContentDepl
    <3> QED BY <3>1
  <2> QED BY <2>1, <2>2, <2>3
<1> HIDE DEF c, d
<1>6. /\ Visit(c, d) \in Frames /\ Visits(Visit(c, d)) /\ Visit(c, d).path = c
      /\ Visit(c, d).depl = d
  BY <1>2, <1>3, <1>5, VisitFrame
<1>7. s \in Seq(Frames) /\ DOMAIN s = {1} /\ s[1] = Visit(c, d) /\ s # <<>>
  BY <1>6
<1>8. AllAnnounced(s)
  BY <1>5, <1>6, <1>7 DEF AllAnnounced, IsAnnounced
<1> QED BY <1>6, <1>7, <1>8 DEF AllVisit, TypeOutputStreamWriteVisitor, c, d

\* The type that is announced for an element is the one of what is written for it.
LEMMA AnnouncedElement ==
    ASSUME IsCall(call), NEW f \in Frames, IsAnnounced(f)
    PROVE  /\ IsElement(f.path) => TypeElement(Kind(f.path), Depl(f.depl)) = TypeElementOf(f.path)
           /\ Kind(f.path) = "variant" => TypeElement("variant", "null") = TypeElementOf(f.path)
<1>1. f.path \in InCall
  BY FrameFacts
<1>2. /\ NullDepl \notin InCall /\ Depl(NullDepl) = "null"
      /\ \A q \in InCall : Depl(q) = call.depl[q]
  BY NullIsNoNode
<1>3. ASSUME IsElement(f.path) PROVE Plain(Depl(f.depl)) = Plain(Declared(f.path))
  <2>1. Depl(DeclaredFor(f.path)) = Declared(f.path)
    BY <1>1, <1>3, DeclaredElement
  <2>2. CASE f.depl = DeclaredFor(f.path)
    BY <2>1, <2>2
  <2>3. CASE DeclaredFor(f.path) = NullDepl /\ f.depl \in InCall /\ call.depl[f.depl] = "empty"
    BY <1>2, <2>1, <2>3 DEF Plain
  <2> QED BY <2>2, <2>3 DEF IsAnnounced
<1>4. Kind(f.path) = "variant" => Declared(f.path) = "null"
  BY <1>1, DeclaredElement
<1> QED BY <1>3, <1>4 DEF TypeElement, TypeElementOf

\* StructWriter and StructReader.
LEMMA DeclaredMembers ==
    ASSUME IsCall(call), NEW f \in Frames, IsDeclared(f), Kind(f.path) = "struct",
           NEW s, s \in {StructWriter(f.path, f.depl), StructReader(f.path, f.depl)}
    PROVE  /\ s \in Seq(Frames) /\ Len(s) = Size(f.path) /\ AllDeclared(s) /\ AllVisit(s)
           /\ \A k \in 1 .. Len(s) : Visits(s[k]) /\ s[k].path = Append(f.path, k)
           /\ \A position : Sets(s, position)
           /\ s = StructReader(f.path, f.depl) =>
                 \A k \in DOMAIN s : s[k].does = "visit" => k = 1
<1> DEFINE p == f.path
           depl(i) == MemberDepl(f.depl, i)
<1>1. p \in InCall /\ Size(p) \in Nat /\ f.depl = DeclaredFor(p)
  BY FrameFacts, NodeFacts DEF IsDeclared
<1>2. \A i \in 1 .. Size(p) :
         /\ Append(p, i) \in InCall /\ depl(i) = DeclaredFor(Append(p, i))
         /\ depl(i) \in InCall \cup {NullDepl}
  BY <1>1, MemberFacts, DeclaredMember, DeclaredElement
<1> HIDE DEF depl
<1>3. \A i \in 1 .. Size(p) :
         /\ Visit(Append(p, i), depl(i)) \in Frames
         /\ VisitChecked(Append(p, i), depl(i)) \in Frames
         /\ Visits(Visit(Append(p, i), depl(i))) /\ Visits(VisitChecked(Append(p, i), depl(i)))
         /\ Visit(Append(p, i), depl(i)).path = Append(p, i)
         /\ VisitChecked(Append(p, i), depl(i)).path = Append(p, i)
         /\ Visit(Append(p, i), depl(i)).depl = depl(i)
         /\ VisitChecked(Append(p, i), depl(i)).depl = depl(i)
         /\ VisitChecked(Append(p, i), depl(i)).does # "visit"
  <2> TAKE i \in 1 .. Size(p)
  <2>1. PICK q \in InCall : q = Append(p, i)
    BY <1>2
  <2>2. PICK d \in InCall \cup {NullDepl} : d = depl(i)
    BY <1>2
  <2>3. /\ Visit(q, d) \in Frames /\ Visits(Visit(q, d))
        /\ Visit(q, d).path = q /\ Visit(q, d).depl = d
        /\ VisitChecked(q, d) \in Frames /\ Visits(VisitChecked(q, d))
        /\ VisitChecked(q, d).path = q /\ VisitChecked(q, d).depl = d
        /\ VisitChecked(q, d).does # "visit"
    BY VisitFrame
  <2> QED BY <2>1, <2>2, <2>3
<1> HIDE DEF p
<1>4. ASSUME s = StructWriter(p, f.depl)
      PROVE  /\ s \in Seq(Frames) /\ Len(s) = Size(p) /\ DOMAIN s = 1 .. Size(p)
             /\ \A k \in 1 .. Size(p) : s[k] = Visit(Append(p, k), depl(k))
  <2>1. s = [i \in 1 .. Size(p) |-> Visit(Append(p, i), depl(i))]
    BY <1>4 DEF StructWriter, depl
  <2> QED BY <1>1, <1>3, <2>1
<1>5. ASSUME s = StructReader(p, f.depl)
      PROVE  /\ s \in Seq(Frames) /\ Len(s) = Size(p) /\ DOMAIN s = 1 .. Size(p)
             /\ \A k \in 1 .. Size(p) :
                   s[k] = IF k = 1 THEN Visit(Append(p, k), depl(k))
                          ELSE VisitChecked(Append(p, k), depl(k))
  <2>1. s = [i \in 1 .. Size(p) |-> IF i = 1 THEN Visit(Append(p, i), depl(i))
                                    ELSE VisitChecked(Append(p, i), depl(i))]
    BY <1>5 DEF StructReader, depl
  <2> QED BY <1>1, <1>3, <2>1
<1>6. /\ s \in Seq(Frames) /\ Len(s) = Size(p) /\ DOMAIN s = 1 .. Size(p)
      /\ \A k \in 1 .. Size(p) :
            s[k] \in {Visit(Append(p, k), depl(k)), VisitChecked(Append(p, k), depl(k))}
  BY <1>4, <1>5 DEF p
<1>7. \A k \in 1 .. Size(p) :
         Visits(s[k]) /\ s[k].path = Append(p, k) /\ s[k].depl = depl(k)
  BY <1>3, <1>6
<1>8. AllDeclared(s)
  BY <1>2, <1>6, <1>7 DEF AllDeclared, IsDeclared
<1>9. \A position : Sets(s, position)
  BY <1>6, <1>7 DEF Sets
<1>10. ASSUME s = StructReader(p, f.depl), NEW k \in DOMAIN s, s[k].does = "visit" PROVE k = 1
  BY <1>3, <1>5, <1>6, <1>10
<1> QED BY <1>6, <1>7, <1>8, <1>9, <1>10 DEF AllVisit, p

\* OutputStreamWriteVisitor and InputStreamReadVisitor.
LEMMA DeclaredContents ==
    ASSUME IsCall(call), NEW f \in Frames, IsDeclared(f), Kind(f.path) = "variant",
           NEW s, s \in {OutputStreamWriteVisitor(f.path, f.depl, call.value[f.path]),
                         ReadContent(f.path, f.depl, call.value[f.path])}
    PROVE  /\ s \in Seq(Frames) /\ s # <<>> /\ AllDeclared(s) /\ Visits(s[1])
           /\ s[1].path = Content(f.path, call.value[f.path])
           /\ \A k \in DOMAIN s : (Visits(s[k]) => k = 1) /\ (s[k].does = "visit" => k = 1)
           /\ s = OutputStreamWriteVisitor(f.path, f.depl, call.value[f.path]) => AllVisit(s)
           /\ s = ReadContent(f.path, f.depl, call.value[f.path]) =>
                 /\ StillSets(s, f.path)
                 /\ \A position : f.path \in Elements /\ Place(f.path) <= position =>
                       Sets(s, position)
<1> DEFINE p == f.path
           index == call.value[p]
           c == Content(p, index)
           v == Visit(c, ContentDepl(f.depl, index))
           t == SetIndex(p, index)
<1>1. /\ p \in InCall /\ Kind(p) = "variant" /\ f.depl = DeclaredFor(p)
      /\ index \in 1 .. Size(p) /\ index \in Int
  BY FrameFacts, NodeFacts DEF IsDeclared
<1>2. c \in InCall
  <2>1. Size(p) + 1 - index \in 1 .. Size(p)
    BY <1>1, HeldIndex, 0 \in Nat
  <2> QED BY <1>1, <2>1, MemberFacts DEF Content
<1>3. /\ ContentDepl(f.depl, index) = DeclaredFor(c)
      /\ DeclaredFor(c) \in InCall \cup {NullDepl}
  BY <1>1, <1>2, DeclaredContent, DeclaredElement
<1>4. /\ OutputStreamWriteVisitor(p, f.depl, index) = <<v>>
      /\ ReadContent(p, f.depl, index) = <<v, t>>
  BY <1>1 DEF OutputStreamWriteVisitor, ReadContent, InputStreamReadVisitor
<1>5. v \in Frames /\ Visits(v) /\ v.path = c /\ v.depl = DeclaredFor(c)
  <2> HIDE DEF c, index
  <2> QED BY <1>2, <1>3, VisitFrame
<1>6. t \in Frames /\ ~Visits(t) /\ t.path = p /\ t.index = index /\ t.does # "visit"
  BY <1>1, SetFrame
<1> HIDE DEF v, t, c
<1>7. \/ s = <<v>> /\ DOMAIN s = {1} /\ s[1] = v
      \/ s = <<v, t>> /\ DOMAIN s = {1, 2} /\ s[1] = v /\ s[2] = t
  <2>1. s = <<v>> \/ s = <<v, t>>
    BY <1>4
  <2> QED BY <2>1
<1>8. s \in Seq(Frames) /\ s # <<>>
  <2>1. <<v>> \in Seq(Frames) /\ <<v, t>> \in Seq(Frames)
    BY <1>5, <1>6
  <2>2. <<v>> # <<>> /\ <<v, t>> # <<>>
    OBVIOUS
  <2>3. s = <<v>> \/ s = <<v, t>>
    BY <1>7
  <2> QED BY <2>1, <2>2, <2>3, Zenon
<1>9. AllDeclared(s)
  BY <1>5, <1>6, <1>7 DEF AllDeclared, IsDeclared
<1>10. \A k \in DOMAIN s : (Visits(s[k]) => k = 1) /\ (s[k].does = "visit" => k = 1)
  BY <1>5, <1>6, <1>7
<1>11. ASSUME s = ReadContent(p, f.depl, index)
       PROVE  /\ StillSets(s, p)
              /\ \A position : p \in Elements /\ Place(p) <= position => Sets(s, position)
  <2>1. s = <<v, t>> /\ DOMAIN s = {1, 2} /\ s[1] = v /\ s[2] = t
    BY <1>4, <1>11
  <2>2. StillSets(s, p)
    BY <1>6, <2>1 DEF StillSets
  <2>3. \A position : p \in Elements /\ Place(p) <= position => Sets(s, position)
    BY <1>1, <1>5, <1>6, <2>1 DEF Sets
  <2> QED BY <2>2, <2>3
<1>12. s = <<v>> => AllVisit(s)
  BY <1>5 DEF AllVisit
<1> QED BY <1>4, <1>5, <1>7, <1>8, <1>9, <1>10, <1>11, <1>12 DEF c

------------------------------------------------------------------------------
(***************************************************************************)
(* The targets                                                             *)
(***************************************************************************)
\* A struct is gone into, or something could not be read.
LEMMA NothingReceived ==
    ASSUME IsCall(call), NEW frames \in Seq(Frames), frames # <<>>, Visits(Head(frames)),
           NEW s \in Seq(Frames), NEW values, NEW position, Received(values, frames, position)
    PROVE  Received(values, s \o Tail(frames), position)
BY StillKept DEF Received

\* Only one element is at a place.
LEMMA NextPlace ==
    ASSUME IsCall(call), NEW p \in Elements, NEW e \in Elements
    PROVE  /\ Place(p) \in Nat /\ Place(e) \in Nat
           /\ Place(e) <= Place(p) <=> Place(e) <= Place(p) - 1 \/ e = p
<1>1. Place(p) \in 1 .. Total /\ Place(e) \in 1 .. Total /\ Total \in Nat
  BY PlaceFacts, ElementFacts
<1>2. Place(e) = Place(p) <=> e = p
  BY PlaceFacts
<1> QED BY <1>1, <1>2

\* An element that was read is in its target.
LEMMA ElementReceived ==
    ASSUME IsCall(call), NEW frames \in Seq(Frames), frames # <<>>, Visits(Head(frames)),
           NEW p \in Elements, NEW values, DOMAIN values = Nodes,
           Received(values, frames, Place(p) - 1)
    PROVE  Received([values EXCEPT ![p] = call.value[p]], <<>> \o Tail(frames), Place(p))
<1> DEFINE new == [values EXCEPT ![p] = call.value[p]]
           left == <<>> \o Tail(frames)
<1>1. p \in Nodes /\ new[p] = call.value[p] /\ \A q \in Nodes : q # p => new[q] = values[q]
  BY ElementFacts
<1>2. \A q : StillSets(frames, q) => StillSets(left, q)
  <2>1. <<>> \in Seq(Frames)
    OBVIOUS
  <2> QED BY <2>1, StillKept
<1> HIDE DEF new, left
<1>3. ASSUME NEW q \in Nodes
      PROVE  \/ new[q] = call.value[q] /\ q \in Elements /\ Place(q) <= Place(p)
             \/ /\ new[q] = DefaultValue(q)
                /\ q \in Elements /\ Place(q) <= Place(p) => StillSets(left, q)
  <2>1. CASE q = p
    BY <1>1, <2>1, NextPlace
  <2>2. CASE q # p
    <3>1. q \in Elements => (Place(q) <= Place(p) <=> Place(q) <= Place(p) - 1)
      BY <2>2, NextPlace
    <3> QED BY <1>1, <1>2, <2>2, <3>1 DEF Received
  <2> QED BY <2>1, <2>2
<1> QED BY <1>3 DEF Received, new, left

\* The index of a variant was read; the variant is still to be set.
LEMMA VariantReceived ==
    ASSUME IsCall(call), NEW frames \in Seq(Frames), frames # <<>>, Visits(Head(frames)),
           NEW p \in Elements, NEW values, Received(values, frames, Place(p) - 1),
           NEW s \in Seq(Frames), StillSets(s, p)
    PROVE  Received(values, s \o Tail(frames), Place(p))
<1> DEFINE new == s \o Tail(frames)
<1>1. \A q : StillSets(frames, q) => StillSets(new, q)
  BY StillKept
<1>2. StillSets(new, p)
  <2>1. Tail(frames) \in Seq(Frames)
    BY TopFacts
  <2> QED BY <2>1, ConcatFacts DEF StillSets
<1> HIDE DEF new
<1>3. ASSUME NEW q \in Nodes
      PROVE  \/ values[q] = call.value[q] /\ q \in Elements /\ Place(q) <= Place(p)
             \/ /\ values[q] = DefaultValue(q)
                /\ q \in Elements /\ Place(q) <= Place(p) => StillSets(new, q)
  <2>1. q \in Elements => (Place(q) <= Place(p) <=> Place(q) <= Place(p) - 1 \/ q = p)
    BY NextPlace
  <2> QED BY <1>1, <1>2, <2>1 DEF Received
<1> QED BY <1>3 DEF Received, new

\* A variant is set to the index that was read for it.
LEMMA VariantSet ==
    ASSUME IsCall(call), NEW frames \in Seq(Frames), frames # <<>>,
           NEW position, Sets(frames, position), ~Visits(Head(frames)),
           NEW values, DOMAIN values = Nodes, Received(values, frames, position)
    PROVE  Received([values EXCEPT ![Head(frames).path] = Head(frames).index],
                    <<>> \o Tail(frames), position)
<1> DEFINE p == Head(frames).path
           new == [values EXCEPT ![p] = Head(frames).index]
           left == <<>> \o Tail(frames)
<1>1. /\ p \in Elements /\ Place(p) <= position
      /\ Head(frames).index = call.value[p]
  BY TopFacts DEF Sets
<1>2. p \in Nodes /\ new[p] = call.value[p] /\ \A q \in Nodes : q # p => new[q] = values[q]
  BY <1>1, ElementFacts
<1>3. \A q : StillSets(frames, q) /\ q # p => StillSets(left, q)
  <2>1. <<>> \in Seq(Frames)
    OBVIOUS
  <2> QED BY <2>1, StillKept
<1> HIDE DEF new, left, p
<1>4. ASSUME NEW q \in Nodes
      PROVE  \/ new[q] = call.value[q] /\ q \in Elements /\ Place(q) <= position
             \/ /\ new[q] = DefaultValue(q)
                /\ q \in Elements /\ Place(q) <= position => StillSets(left, q)
  <2>1. CASE q = p
    BY <1>1, <1>2, <2>1
  <2>2. CASE q # p
    BY <1>2, <1>3, <2>2 DEF Received
  <2> QED BY <2>1, <2>2
<1> QED BY <1>4 DEF Received, new, left, p

------------------------------------------------------------------------------
(***************************************************************************)
(* The inductive invariant holds                                           *)
(***************************************************************************)
\* It holds before the first argument.
LEMMA SerialInit == Init => SerialInv
<1> SUFFICES ASSUME Init PROVE SerialInv
  OBVIOUS
<1>1. /\ call \in Calls /\ types = <<>> /\ out = NewStream(0) /\ at = "announce" /\ next = 1
      /\ todo = <<>> /\ targets = [p \in Nodes |-> DefaultValue(p)]
  BY DEF Init
<1>2. IsCall(call)
  BY <1>1, CallsAssumption
<1>3. Total \in Nat /\ \A e \in Elements : Place(e) \in 1 .. Total
  BY <1>2, ElementFacts, PlaceFacts
<1>4. IsStack(<<>>, 1) /\ Remains(<<>>, 1, 0)
  BY <1>2, Ends
<1>5. StackInv
  BY <1>1, <1>4 DEF StackInv
<1>6. AnnounceInv
  <2>1. Announced(<<>>)
    BY <1>3 DEF Announced
  <2> QED BY <1>1, <1>4, <2>1 DEF AnnounceInv, AllAnnounced, AllVisit
<1>7. WriteInv
  <2>1. Output(NewStream(0))
    BY <1>2, NewStreamFacts, 0 \in Nat
  <2> QED BY <1>1, <2>1 DEF WriteInv
<1>8. ReadInv
  BY <1>1 DEF ReadInv
<1> QED BY <1>5, <1>6, <1>7, <1>8 DEF SerialInv

\* The next argument.
LEMMA StreamStep ==
    ASSUME IsCall(call), StackInv, NEW stage, Stream(stage)
    PROVE  /\ at = stage /\ IsStack(todo', next') /\ next' > 0
           /\ \A done : Remains(todo, next, done) => Remains(todo', next', done)
           /\ AllAnnounced(todo') /\ AllDeclared(todo') /\ AllVisit(todo')
           /\ \A position : Sets(todo', position)
           /\ ChecksErrors(todo', FALSE)
           /\ \A values, position :
                 Received(values, todo, position) => Received(values, todo', position)
<1> DEFINE f == Visit(<<next>>, <<next>>)
           new == <<f>>
<1>1. /\ at = stage /\ todo = <<>> /\ next <= Size(<<>>) /\ todo' = new /\ next' = next + 1
      /\ next \in Nat /\ next > 0
  BY DEF Stream, StackInv, IsStack
<1>2. /\ IsStack(new, next + 1) /\ Rest(new, next + 1) = Rest(<<>>, next)
      /\ DeclaredFor(<<next>>) = <<next>>
  BY <1>1, ArgumentStep
<1>3. \A done : Remains(todo, next, done) => Remains(todo', next', done)
  BY <1>1, <1>2 DEF Remains
<1>4. /\ f.path = <<next>> /\ f.depl = <<next>> /\ Visits(f)
  BY DEF Visit, Frame, Visits
<1> HIDE DEF f
<1>5. DOMAIN new = {1} /\ new[1] = f
  OBVIOUS
<1> HIDE DEF new
<1>6. AllAnnounced(new) /\ AllDeclared(new) /\ AllVisit(new)
  BY <1>2, <1>4, <1>5 DEF AllAnnounced, IsAnnounced, AllDeclared, IsDeclared, AllVisit
<1>7. (\A position : Sets(new, position)) /\ ChecksErrors(new, FALSE)
  BY <1>4, <1>5 DEF Sets, ChecksErrors
<1>8. \A values, position : Received(values, todo, position) => Received(values, new, position)
  <2>1. \A p : ~StillSets(todo, p)
    BY <1>1 DEF StillSets
  <2> QED BY <2>1 DEF Received
<1>9. IsStack(todo', next') /\ next' > 0
  BY <1>1, <1>2
<1>10. /\ AllAnnounced(todo') /\ AllDeclared(todo') /\ AllVisit(todo')
       /\ (\A position : Sets(todo', position)) /\ ChecksErrors(todo', FALSE)
       /\ \A values, position :
             Received(values, todo, position) => Received(values, todo', position)
  BY <1>1, <1>6, <1>7, <1>8
<1> QED BY <1>1, <1>3, <1>9, <1>10

\* The top of the stack.
LEMMA TopOfStack ==
    ASSUME IsCall(call), StackInv, todo # <<>>
    PROVE  /\ todo \in Seq(Frames) /\ Top \in Frames /\ Top = todo[1] /\ 1 \in DOMAIN todo
           /\ AllVisit(todo) => Visits(Top)
           /\ AllAnnounced(todo) => IsAnnounced(Top)
           /\ AllDeclared(todo) /\ Visits(Top) => IsDeclared(Top)
<1>1. todo \in Seq(Frames)
  BY DEF StackInv, IsStack
<1>2. Top \in Frames /\ Top = todo[1] /\ 1 \in DOMAIN todo
  BY <1>1, TopFacts DEF Top
<1>3. AllVisit(todo) => Visits(Top)
  BY <1>2 DEF AllVisit
<1>4. AllAnnounced(todo) => IsAnnounced(Top)
  BY <1>2 DEF AllAnnounced
<1>5. AllDeclared(todo) /\ Visits(Top) => IsDeclared(Top)
  BY <1>2 DEF AllDeclared
<1> QED BY <1>1, <1>2, <1>3, <1>4, <1>5

\* The reader or writer of the top calls those of the members of its struct.
LEMMA StructCalled ==
    ASSUME IsCall(call), StackInv, todo # <<>>, Visits(Top), Kind(Top.path) = "struct",
           NEW s \in Seq(Frames), Len(s) = Size(Top.path),
           \A k \in 1 .. Len(s) : Visits(s[k]) /\ s[k].path = Append(Top.path, k),
           Calling(s)
    PROVE  /\ IsStack(todo', next) /\ todo' = s \o Tail(todo)
           /\ \A done : Remains(todo, next, done) => Remains(todo', next, done)
<1>1. IsStack(todo, next) /\ todo' = s \o Tail(todo)
  BY DEF StackInv, Calling
<1>2. IsStack(s \o Tail(todo), next) /\ Rest(s \o Tail(todo), next) = Rest(todo, next)
  BY <1>1, StructStep DEF Top
<1> QED BY <1>1, <1>2 DEF Remains

\* The visitor of the top goes on to the content of its variant.
LEMMA VariantCalled ==
    ASSUME IsCall(call), StackInv, todo # <<>>, Visits(Top), Kind(Top.path) = "variant",
           NEW s \in Seq(Frames), s # <<>>, Visits(s[1]),
           s[1].path = Content(Top.path, call.value[Top.path]),
           \A k \in DOMAIN s : Visits(s[k]) => k = 1,
           Calling(s)
    PROVE  /\ IsStack(todo', next) /\ todo' = s \o Tail(todo) /\ Top.path \in Elements
           /\ \A done : Remains(todo, next, done) =>
                 /\ Place(Top.path) = done + 1 /\ done \in Nat /\ done + 1 <= Total
                 /\ Remains(todo', next, done + 1)
<1>1. IsStack(todo, next) /\ todo' = s \o Tail(todo)
  BY DEF StackInv, Calling
<1>2. /\ IsStack(s \o Tail(todo), next) /\ Top.path \in Elements
      /\ Rest(s \o Tail(todo), next) = Rest(todo, next) \ {Top.path}
  BY <1>1, VariantStep DEF Top
<1>3. ASSUME NEW done, Remains(todo, next, done)
      PROVE  /\ Place(Top.path) = done + 1 /\ done \in Nat /\ done + 1 <= Total
             /\ Remains(s \o Tail(todo), next, done + 1)
  <2> HIDE DEF Top
  <2> QED BY <1>1, <1>2, <1>3, NextElement, Progress DEF Top
<1> QED BY <1>1, <1>2, <1>3

\* The call for the element of the top returns.
LEMMA ElementCalled ==
    ASSUME IsCall(call), StackInv, todo # <<>>, Visits(Top), IsElement(Top.path), Calling(<<>>)
    PROVE  /\ IsStack(todo', next) /\ todo' = <<>> \o Tail(todo) /\ Top.path \in Elements
           /\ \A done : Remains(todo, next, done) =>
                 /\ Place(Top.path) = done + 1 /\ done \in Nat /\ done + 1 <= Total
                 /\ Remains(todo', next, done + 1)
<1>1. IsStack(todo, next) /\ todo' = <<>> \o Tail(todo)
  BY DEF StackInv, Calling
<1>2. <<>> \o Tail(todo) = Tail(todo) /\ IsStack(Tail(todo), next)
  BY <1>1, ReturnStep
<1>3. Top.path \in Elements /\ Rest(Tail(todo), next) = Rest(todo, next) \ {Top.path}
  BY <1>1, ElementStep DEF Top
<1>4. ASSUME NEW done, Remains(todo, next, done)
      PROVE  /\ Place(Top.path) = done + 1 /\ done \in Nat /\ done + 1 <= Total
             /\ Remains(Tail(todo), next, done + 1)
  BY <1>1, <1>3, <1>4, NextElement, Progress DEF Top
<1> QED BY <1>1, <1>2, <1>3, <1>4

\* The element of the top is the one that the stream is at.
LEMMA TopIsNext ==
    ASSUME IsCall(call), StackInv, todo # <<>>, Visits(Top),
           IsElement(Top.path) \/ Kind(Top.path) = "variant",
           NEW done, Remains(todo, next, done)
    PROVE  /\ Top.path \in Elements
           /\ Place(Top.path) = done + 1 /\ done \in Nat /\ done + 1 <= Total
<1>1. IsStack(todo, next) /\ Top = Head(todo)
  BY DEF StackInv, Top
<1>2. Top \in Frames /\ Top = todo[1] /\ 1 \in DOMAIN todo
  BY TopOfStack
<1>3. Top.path \in Nodes /\ IsHeld(Top.path)
  BY <1>1, <1>2, FrameFacts DEF IsStack
<1>4. Top.path \in Elements
  BY <1>3 DEF Elements, IsElement
<1> HIDE DEF Top
<1> QED BY <1>1, <1>4, NextElement

\* What is said of each frame holds of no frames.
LEMMA EmptyFrames ==
    /\ <<>> \in Seq(Frames) /\ AllAnnounced(<<>>) /\ AllDeclared(<<>>) /\ AllVisit(<<>>)
    /\ \A position : Sets(<<>>, position)
    /\ \A k \in DOMAIN <<>> : <<>>[k].does = "visit" => FALSE
BY DEF AllAnnounced, AllDeclared, AllVisit, Sets

\* The call of the top returns.
LEMMA Returned ==
    ASSUME IsCall(call), StackInv, todo # <<>>, Calling(<<>>)
    PROVE  /\ IsStack(todo', next) /\ todo' = <<>> \o Tail(todo)
           /\ ~Visits(Top) => \A done : Remains(todo, next, done) => Remains(todo', next, done)
<1>1. IsStack(todo, next) /\ todo' = <<>> \o Tail(todo)
  BY DEF StackInv, Calling
<1>2. /\ <<>> \o Tail(todo) = Tail(todo) /\ IsStack(Tail(todo), next)
      /\ ~Visits(Top) => Rest(Tail(todo), next) = Rest(todo, next)
  BY <1>1, ReturnStep DEF Top
<1> QED BY <1>1, <1>2 DEF Remains

\* What a step of the TypeOutputStream has to keep.
LEMMA InAnnounce ==
    ASSUME SerialInv, at = "announce", UNCHANGED <<call, at, out, in, targets>>,
           IsStack(todo', next'), next' > 0, Announced(types'),
           Remains(todo', next', Len(types')), AllAnnounced(todo'), AllVisit(todo')
    PROVE  SerialInv'
<1>1. StackInv'
  BY SameStack, SameTree DEF SerialInv, StackInv
<1>2. AnnounceInv'
  <2>1. Announced(types)' /\ Remains(todo, next, Len(types))' /\ AllAnnounced(todo)'
    BY SameStack, SameStreams
  <2> QED BY <2>1 DEF AnnounceInv, AllVisit
<1>3. WriteInv'
  BY SameStreams DEF SerialInv, WriteInv
<1>4. ReadInv'
  BY SameTree DEF SerialInv, ReadInv
<1> QED BY <1>1, <1>2, <1>3, <1>4 DEF SerialInv

\* What a step of the OutputStream has to keep.
LEMMA InSerialize ==
    ASSUME SerialInv, at = "serialize", UNCHANGED <<call, at, types, in, targets>>,
           IsStack(todo', next'), next' > 0, Output(out'),
           Remains(todo', next', out'.tried), AllDeclared(todo'), AllVisit(todo')
    PROVE  SerialInv'
<1>1. StackInv'
  BY SameStack, SameTree DEF SerialInv, StackInv
<1>2. AnnounceInv'
  BY SameStreams, SameTree DEF SerialInv, AnnounceInv
<1>3. WriteInv'
  <2>1. Output(out)' /\ Remains(todo, next, out.tried)' /\ AllDeclared(todo)'
    BY SameStack, SameStreams
  <2> QED BY <2>1 DEF WriteInv, AllVisit
<1>4. ReadInv'
  BY SameTree DEF SerialInv, ReadInv
<1> QED BY <1>1, <1>2, <1>3, <1>4 DEF SerialInv

\* What a step of the InputStream has to keep.
LEMMA InDeserialize ==
    ASSUME SerialInv, at = "deserialize", UNCHANGED <<call, at, types, out>>,
           IsStack(todo', next'), next' > 0, Input(in'),
           DOMAIN targets' = Nodes, targets' = [p \in DOMAIN targets' |-> targets'[p]],
           Received(targets', todo', in'.position), AllDeclared(todo'),
           Sets(todo', in'.position), ChecksErrors(todo', in'.error),
           ~in'.error => Remains(todo', next', in'.tried)
    PROVE  SerialInv'
<1>1. StackInv'
  BY SameStack, SameTree DEF SerialInv, StackInv
<1>2. AnnounceInv'
  BY SameStreams, SameTree DEF SerialInv, AnnounceInv
<1>3. WriteInv'
  BY SameStreams, SameTree DEF SerialInv, WriteInv
<1>4. ReadInv'
  <2>1. /\ Input(in)' /\ Received(targets, todo, in.position)'
        /\ AllDeclared(todo)' /\ Sets(todo, in.position)'
        /\ ~in'.error => Remains(todo, next, in.tried)'
    BY SameStack, SameStreams
  <2> QED BY <2>1 DEF ReadInv, ChecksErrors
<1> QED BY <1>1, <1>2, <1>3, <1>4 DEF SerialInv

\* TypeOutputStream begins with an argument.
LEMMA AnnounceKeeps == SerialInv /\ Announce => SerialInv'
<1> SUFFICES ASSUME SerialInv, Announce PROVE SerialInv'
  OBVIOUS
<1>1. IsCall(call)
  BY CallsAssumption DEF SerialInv, StackInv
<1>2. Stream("announce") /\ UNCHANGED <<call, types, out, in, targets, at>>
  BY DEF Announce
<1>3. /\ at = "announce" /\ IsStack(todo', next') /\ next' > 0
      /\ \A done : Remains(todo, next, done) => Remains(todo', next', done)
      /\ AllAnnounced(todo') /\ AllVisit(todo')
  BY <1>1, <1>2, StreamStep DEF SerialInv
<1>4. Announced(types') /\ Remains(todo', next', Len(types'))
  BY <1>2, <1>3 DEF SerialInv, AnnounceInv
<1> QED BY <1>2, <1>3, <1>4, InAnnounce

\* It announces a struct, a variant or an element.
LEMMA writeTypeKeeps == SerialInv /\ writeType => SerialInv'
<1> SUFFICES ASSUME SerialInv, writeType PROVE SerialInv'
  OBVIOUS
<1>1. IsCall(call) /\ StackInv
  BY CallsAssumption DEF SerialInv, StackInv
<1>2. /\ at = "announce" /\ todo # <<>> /\ UNCHANGED <<call, out, in, targets, at, next>>
  BY DEF writeType, WriteTypeOfStruct, WriteTypeOfVariant, WriteTypeOfElement
<1>3. /\ Announced(types) /\ Remains(todo, next, Len(types)) /\ AllAnnounced(todo) /\ AllVisit(todo)
      /\ next > 0
  BY <1>2 DEF SerialInv, StackInv, AnnounceInv
<1>4. todo \in Seq(Frames) /\ Top \in Frames /\ Visits(Top) /\ IsAnnounced(Top)
  BY <1>1, <1>2, <1>3, TopOfStack
<1> HIDE DEF Top
<1> SUFFICES /\ IsStack(todo', next) /\ Announced(types') /\ Remains(todo', next, Len(types'))
             /\ AllAnnounced(todo') /\ AllVisit(todo')
  BY <1>2, <1>3, InAnnounce
<1>5. CASE WriteTypeOfStruct
  <2> DEFINE s == StructTypeWriter(Top.path, Top.depl)
  <2>1. Kind(Top.path) = "struct" /\ Calling(s) /\ types' = types
    BY <1>5 DEF WriteTypeOfStruct
  <2>2. /\ s \in Seq(Frames) /\ Len(s) = Size(Top.path) /\ AllAnnounced(s) /\ AllVisit(s)
        /\ \A k \in 1 .. Len(s) : Visits(s[k]) /\ s[k].path = Append(Top.path, k)
    BY <1>1, <1>4, <2>1, AnnouncedMembers
  <2> HIDE DEF s
  <2>3. /\ IsStack(todo', next) /\ todo' = s \o Tail(todo)
        /\ \A done : Remains(todo, next, done) => Remains(todo', next, done)
    BY <1>1, <1>2, <1>4, <2>1, <2>2, StructCalled
  <2>4. AllAnnounced(todo') /\ AllVisit(todo')
    BY <1>1, <1>2, <1>3, <1>4, <2>2, <2>3, Kept
  <2> QED BY <1>3, <2>1, <2>3, <2>4
<1>6. CASE WriteTypeOfVariant
  <2> DEFINE s == TypeOutputStreamWriteVisitor(Top.path, Top.depl, call.value[Top.path])
  <2>1. /\ Kind(Top.path) = "variant" /\ Calling(s)
        /\ types' = Append(types, TypeElement("variant", "null"))
    BY <1>6 DEF WriteTypeOfVariant
  <2>2. /\ s \in Seq(Frames) /\ s # <<>> /\ Visits(s[1]) /\ AllAnnounced(s) /\ AllVisit(s)
        /\ s[1].path = Content(Top.path, call.value[Top.path])
        /\ \A k \in DOMAIN s : Visits(s[k]) => k = 1
    BY <1>1, <1>4, <2>1, AnnouncedContent
  <2> HIDE DEF s
  <2>3. /\ IsStack(todo', next) /\ todo' = s \o Tail(todo) /\ Top.path \in Elements
        /\ Place(Top.path) = Len(types) + 1 /\ Remains(todo', next, Len(types) + 1)
    BY <1>1, <1>2, <1>3, <1>4, <2>1, <2>2, VariantCalled
  <2>4. AllAnnounced(todo') /\ AllVisit(todo')
    BY <1>1, <1>2, <1>3, <1>4, <2>2, <2>3, Kept
  <2>5. types' = Append(types, TypeElementOf(Top.path))
    BY <1>1, <1>4, <2>1, AnnouncedElement
  <2>6. Announced(types') /\ Len(types') = Len(types) + 1
    BY <1>1, <1>3, <2>3, <2>5, AnnounceStep
  <2> QED BY <2>3, <2>4, <2>6
<1>7. CASE WriteTypeOfElement
  <2>1. /\ IsElement(Top.path) /\ Calling(<<>>)
        /\ types' = Append(types, TypeElement(Kind(Top.path), Depl(Top.depl)))
    BY <1>7 DEF WriteTypeOfElement
  <2>3. /\ IsStack(todo', next) /\ todo' = <<>> \o Tail(todo) /\ Top.path \in Elements
        /\ Place(Top.path) = Len(types) + 1 /\ Remains(todo', next, Len(types) + 1)
    BY <1>1, <1>2, <1>3, <1>4, <2>1, ElementCalled
  <2>4. AllAnnounced(todo') /\ AllVisit(todo')
    BY <1>1, <1>2, <1>3, <1>4, <2>3, EmptyFrames, Kept
  <2>5. types' = Append(types, TypeElementOf(Top.path))
    BY <1>1, <1>4, <2>1, AnnouncedElement
  <2>6. Announced(types') /\ Len(types') = Len(types) + 1
    BY <1>1, <1>3, <2>3, <2>5, AnnounceStep
  <2> QED BY <2>3, <2>4, <2>6
<1> QED BY <1>5, <1>6, <1>7 DEF writeType

\* All arguments are announced, and none is written.
LEMMA BeginKeeps == SerialInv /\ Begin => SerialInv'
<1> SUFFICES ASSUME SerialInv, Begin PROVE SerialInv'
  OBVIOUS
<1>1. IsCall(call)
  BY CallsAssumption DEF SerialInv, StackInv
<1>2. /\ at = "announce" /\ todo = <<>> /\ next > Size(<<>>) /\ at' = "serialize" /\ next' = 1
      /\ UNCHANGED <<call, types, in, targets, todo>>
  BY DEF Begin
<1>3. PICK n \in Nat : out' = NewStream(n)
  BY FailuresAssumption DEF Begin
<1>4. Remains(todo, next, Len(types)) /\ next \in Nat
  BY <1>2 DEF SerialInv, AnnounceInv, StackInv, IsStack
<1>5. /\ Len(types) = Total /\ IsStack(<<>>, 1) /\ Remains(<<>>, 1, 0)
  BY <1>1, <1>2, <1>4, Ends
<1>6. Output(out') /\ out'.tried = 0
  BY <1>1, <1>3, NewStreamFacts
<1>7. StackInv'
  <2>1. IsStack(todo, next)'
    BY <1>2, <1>5, SameStack
  <2> QED BY <1>2, <2>1, SameTree DEF SerialInv, StackInv
<1>8. AnnounceInv'
  <2>1. Announced(types)' /\ Total' = Total
    BY <1>2, SameStreams, SameTree DEF SerialInv, AnnounceInv
  <2> QED BY <1>2, <1>5, <2>1 DEF AnnounceInv
<1>9. WriteInv'
  <2>1. Output(out)' /\ Remains(todo, next, out.tried)' /\ AllDeclared(todo)'
    BY <1>2, <1>5, <1>6, SameStack, SameStreams, EmptyFrames
  <2> QED BY <1>2, <2>1 DEF WriteInv, AllVisit
<1>10. ReadInv'
  BY <1>2, SameTree DEF SerialInv, ReadInv
<1> QED BY <1>7, <1>8, <1>9, <1>10 DEF SerialInv

\* OutputStream begins with an argument.
LEMMA SerializeKeeps == SerialInv /\ Serialize => SerialInv'
<1> SUFFICES ASSUME SerialInv, Serialize PROVE SerialInv'
  OBVIOUS
<1>1. IsCall(call)
  BY CallsAssumption DEF SerialInv, StackInv
<1>2. Stream("serialize") /\ UNCHANGED <<call, types, out, in, targets, at>>
  BY DEF Serialize
<1>3. /\ at = "serialize" /\ IsStack(todo', next') /\ next' > 0
      /\ \A done : Remains(todo, next, done) => Remains(todo', next', done)
      /\ AllDeclared(todo') /\ AllVisit(todo')
  BY <1>1, <1>2, StreamStep DEF SerialInv
<1>4. Output(out') /\ Remains(todo', next', out'.tried)
  BY <1>2, <1>3 DEF SerialInv, WriteInv
<1> QED BY <1>2, <1>3, <1>4, InSerialize

\* It writes a struct, a variant or an element.
LEMMA writeValueKeeps == SerialInv /\ writeValue => SerialInv'
<1> SUFFICES ASSUME SerialInv, writeValue PROVE SerialInv'
  OBVIOUS
<1>1. IsCall(call) /\ StackInv
  BY CallsAssumption DEF SerialInv, StackInv
<1>2. /\ at = "serialize" /\ todo # <<>> /\ UNCHANGED <<call, types, in, targets, at, next>>
  BY DEF writeValue, WriteStruct, WriteVariant, WriteOther
<1>3. /\ Output(out) /\ Remains(todo, next, out.tried) /\ AllDeclared(todo) /\ AllVisit(todo)
      /\ next > 0
  BY <1>2 DEF SerialInv, StackInv, WriteInv
<1>4. todo \in Seq(Frames) /\ Top \in Frames /\ Visits(Top) /\ IsDeclared(Top)
  BY <1>1, <1>2, <1>3, TopOfStack
<1>d. /\ IsElement(Top.path) => Depl(Top.depl) = Declared(Top.path)
      /\ Kind(Top.path) = "variant" => Declared(Top.path) = "null"
  BY <1>1, <1>4, FrameFacts, DeclaredElement DEF IsDeclared
<1> HIDE DEF Top
<1> SUFFICES /\ IsStack(todo', next) /\ Output(out') /\ Remains(todo', next, out'.tried)
             /\ AllDeclared(todo') /\ AllVisit(todo')
  BY <1>2, <1>3, InSerialize
<1>5. CASE WriteStruct
  <2> DEFINE s == StructWriter(Top.path, Top.depl)
  <2>1. Kind(Top.path) = "struct" /\ Calling(s) /\ out' = out
    BY <1>5 DEF WriteStruct
  <2>2. /\ s \in Seq(Frames) /\ Len(s) = Size(Top.path) /\ AllDeclared(s) /\ AllVisit(s)
        /\ \A k \in 1 .. Len(s) : Visits(s[k]) /\ s[k].path = Append(Top.path, k)
    BY <1>1, <1>4, <2>1, DeclaredMembers
  <2> HIDE DEF s
  <2>3. /\ IsStack(todo', next) /\ todo' = s \o Tail(todo)
        /\ \A done : Remains(todo, next, done) => Remains(todo', next, done)
    BY <1>1, <1>2, <1>4, <2>1, <2>2, StructCalled
  <2>4. AllDeclared(todo') /\ AllVisit(todo')
    BY <1>1, <1>2, <1>3, <1>4, <2>2, <2>3, Kept
  <2> QED BY <1>3, <2>1, <2>3, <2>4
<1>6. CASE WriteVariant
  <2> DEFINE s == OutputStreamWriteVisitor(Top.path, Top.depl, call.value[Top.path])
  <2>1. /\ Kind(Top.path) = "variant" /\ Calling(s)
        /\ out' = WriteElement(out, "variant", "null", call.value[Top.path])
    BY <1>6 DEF WriteVariant
  <2>2. /\ s \in Seq(Frames) /\ s # <<>> /\ Visits(s[1]) /\ AllDeclared(s) /\ AllVisit(s)
        /\ s[1].path = Content(Top.path, call.value[Top.path])
        /\ \A k \in DOMAIN s : Visits(s[k]) => k = 1
    BY <1>1, <1>4, <2>1, DeclaredContents
  <2> HIDE DEF s
  <2>3. /\ IsStack(todo', next) /\ todo' = s \o Tail(todo) /\ Top.path \in Elements
        /\ Place(Top.path) = out.tried + 1 /\ out.tried + 1 <= Total
        /\ Remains(todo', next, out.tried + 1)
    BY <1>1, <1>2, <1>3, <1>4, <2>1, <2>2, VariantCalled
  <2>4. AllDeclared(todo') /\ AllVisit(todo')
    BY <1>1, <1>2, <1>3, <1>4, <2>2, <2>3, Kept
  <2>5. out' = WriteElement(out, Kind(Top.path), Declared(Top.path), call.value[Top.path])
    BY <1>d, <2>1
  <2>6. Output(out') /\ out'.tried = out.tried + 1
    BY <1>1, <1>3, <2>3, <2>5, WriteStep
  <2> QED BY <2>3, <2>4, <2>6
<1>7. CASE WriteOther
  <2>1. /\ IsElement(Top.path) /\ Calling(<<>>)
        /\ out' = WriteElement(out, Kind(Top.path), Depl(Top.depl), call.value[Top.path])
    BY <1>7 DEF WriteOther
  <2>3. /\ IsStack(todo', next) /\ todo' = <<>> \o Tail(todo) /\ Top.path \in Elements
        /\ Place(Top.path) = out.tried + 1 /\ out.tried + 1 <= Total
        /\ Remains(todo', next, out.tried + 1)
    BY <1>1, <1>2, <1>3, <1>4, <2>1, ElementCalled
  <2>4. AllDeclared(todo') /\ AllVisit(todo')
    BY <1>1, <1>2, <1>3, <1>4, <2>3, EmptyFrames, Kept
  <2>5. out' = WriteElement(out, Kind(Top.path), Declared(Top.path), call.value[Top.path])
    BY <1>d, <2>1
  <2>6. Output(out') /\ out'.tried = out.tried + 1
    BY <1>1, <1>3, <2>3, <2>5, WriteStep
  <2> QED BY <2>3, <2>4, <2>6
<1> QED BY <1>5, <1>6, <1>7 DEF writeValue

\* serialize() returns false.
LEMMA NotSerializedKeeps == SerialInv /\ NotSerialized => SerialInv'
<1> SUFFICES ASSUME SerialInv, NotSerialized PROVE SerialInv'
  OBVIOUS
<1>1. /\ at = "serialize" /\ todo = <<>> /\ out.error /\ at' = "not serialized"
      /\ UNCHANGED <<call, types, out, in, targets, next, todo>>
  BY DEF NotSerialized, Accepted, HasError
<1>2. StackInv'
  BY <1>1, SameStack, SameTree DEF SerialInv, StackInv
<1>3. AnnounceInv'
  BY <1>1, SameStreams, SameTree DEF SerialInv, AnnounceInv
<1>4. WriteInv'
  BY <1>1, SameStreams DEF SerialInv, WriteInv
<1>5. ReadInv'
  BY <1>1, SameTree DEF SerialInv, ReadInv
<1> QED BY <1>2, <1>3, <1>4, <1>5 DEF SerialInv

\* serialize() returned true: the message is complete.
LEMMA DeliverKeeps == SerialInv /\ Deliver => SerialInv'
<1> SUFFICES ASSUME SerialInv, Deliver PROVE SerialInv'
  OBVIOUS
<1>1. IsCall(call)
  BY CallsAssumption DEF SerialInv, StackInv
<1>2. /\ at = "serialize" /\ todo = <<>> /\ ~out.error /\ next > Size(<<>>)
      /\ at' = "deserialize" /\ next' = 1
      /\ UNCHANGED <<call, types, out, targets, todo>>
  BY DEF Deliver, Accepted, HasError
<1>3. PICK n \in Nat : in' = [NewStream(n) EXCEPT !.elements = out.elements]
  BY FailuresAssumption DEF Deliver
<1>4. Output(out) /\ Remains(todo, next, out.tried) /\ next \in Nat
  BY <1>2 DEF SerialInv, WriteInv, StackInv, IsStack
<1>5. /\ out.tried = Total /\ IsStack(<<>>, 1) /\ Remains(<<>>, 1, 0)
  BY <1>1, <1>2, <1>4, Ends
<1>6. Input(in') /\ in'.tried = 0 /\ in'.position = 0 /\ in'.error = FALSE
  BY <1>1, <1>2, <1>3, <1>4, <1>5, NewStreamFacts
<1>7. StackInv'
  <2>1. IsStack(todo, next)'
    BY <1>2, <1>5, SameStack
  <2> QED BY <1>2, <2>1, SameTree DEF SerialInv, StackInv
<1>8. AnnounceInv'
  BY <1>2, SameStreams, SameTree DEF SerialInv, AnnounceInv
<1>9. WriteInv'
  BY <1>2, <1>4, <1>5, SameStreams, SameTree DEF WriteInv
<1>10. ReadInv'
  <2>1. Received(targets, todo, 0)
    <3>1. \A e \in Elements : ~(Place(e) <= 0)
      BY <1>1, PlaceFacts
    <3> QED BY <1>2, <3>1 DEF SerialInv, ReadInv, Received
  <2>2. Input(in)' /\ Received(targets, todo, in.position)'
    BY <1>2, <1>6, <2>1, SameStreams
  <2>3. /\ AllDeclared(todo)' /\ Sets(todo, in.position)' /\ ChecksErrors(todo, in.error)'
        /\ Remains(todo, next, in.tried)'
    <3>1. AllDeclared(todo') /\ Sets(todo', in'.position) /\ Remains(todo', next', in'.tried)
      BY <1>2, <1>5, <1>6, EmptyFrames
    <3> QED BY <1>2, <3>1, SameStack DEF ChecksErrors
  <2> QED BY <1>2, <2>2, <2>3 DEF ReadInv
<1> QED BY <1>7, <1>8, <1>9, <1>10 DEF SerialInv

\* InputStream begins with an argument.
LEMMA DeserializeKeeps == SerialInv /\ Deserialize => SerialInv'
<1> SUFFICES ASSUME SerialInv, Deserialize PROVE SerialInv'
  OBVIOUS
<1>1. IsCall(call)
  BY CallsAssumption DEF SerialInv, StackInv
<1>2. /\ Stream("deserialize") /\ in.error = FALSE
      /\ UNCHANGED <<call, types, out, in, targets, at>>
  <2>1. Stream("deserialize") /\ ~in.error /\ UNCHANGED <<call, types, out, in, targets, at>>
    BY DEF Deserialize, Accepted, HasError
  <2>2. in.error \in BOOLEAN
    BY <2>1 DEF Stream, SerialInv, ReadInv, Input, StreamsOf
  <2> QED BY <2>1, <2>2
<1>3. /\ at = "deserialize" /\ IsStack(todo', next') /\ next' > 0
      /\ \A done : Remains(todo, next, done) => Remains(todo', next', done)
      /\ AllDeclared(todo') /\ ChecksErrors(todo', FALSE)
      /\ \A position : Sets(todo', position)
      /\ \A values, position :
            Received(values, todo, position) => Received(values, todo', position)
  BY <1>1, <1>2, StreamStep DEF SerialInv
<1>4. /\ Input(in') /\ Received(targets', todo', in'.position)
      /\ Remains(todo', next', in'.tried) /\ Sets(todo', in'.position)
      /\ ChecksErrors(todo', in'.error)
      /\ DOMAIN targets' = Nodes /\ targets' = [p \in DOMAIN targets' |-> targets'[p]]
  BY <1>2, <1>3 DEF SerialInv, StackInv, ReadInv
<1> QED BY <1>2, <1>3, <1>4, InDeserialize

\* What is still to be set stays below the position when that moves on.
LEMMA SetsMore ==
    ASSUME IsCall(call), NEW p \in Elements, NEW frames, Sets(frames, Place(p) - 1)
    PROVE  Sets(frames, Place(p))
BY NextPlace DEF Sets

\* InputStream reads a struct, a variant or an element, sets a variant or skips a member.
LEMMA readValueKeeps == SerialInv /\ readValue => SerialInv'
<1> SUFFICES ASSUME SerialInv, readValue PROVE SerialInv'
  OBVIOUS
<1>1. IsCall(call) /\ StackInv
  BY CallsAssumption DEF SerialInv, StackInv
<1>2. /\ at = "deserialize" /\ todo # <<>> /\ UNCHANGED <<call, types, out, at, next>>
  BY DEF readValue, ReadStruct, ReadVariant, ReadOther, SetVariant, SkipMember
<1>3. /\ Input(in) /\ Received(targets, todo, in.position) /\ AllDeclared(todo)
      /\ Sets(todo, in.position) /\ ChecksErrors(todo, in.error)
      /\ ~in.error => Remains(todo, next, in.tried)
      /\ next > 0 /\ DOMAIN targets = Nodes /\ targets = [p \in DOMAIN targets |-> targets[p]]
  BY <1>2 DEF SerialInv, StackInv, ReadInv
<1>4. /\ todo \in Seq(Frames) /\ Top \in Frames /\ Top = Head(todo)
      /\ Visits(Top) => IsDeclared(Top)
      /\ Top.does = "visit" => ~in.error
  BY <1>1, <1>2, <1>3, TopOfStack DEF ChecksErrors, Top
<1>5. IsVisited(Top) => Visits(Top) /\ ~in.error /\ Remains(todo, next, in.tried) /\ IsDeclared(Top)
  BY <1>3, <1>4 DEF IsVisited, Visits, HasError
<1>d. /\ Visits(Top) /\ IsElement(Top.path) => Depl(Top.depl) = Declared(Top.path)
      /\ Kind(Top.path) = "variant" => Declared(Top.path) = "null"
  BY <1>1, <1>4, FrameFacts, DeclaredElement DEF IsDeclared
<1>e. /\ <<>> \in Seq(Frames) /\ AllDeclared(<<>>) /\ \A position : Sets(<<>>, position)
      /\ \A error : \A k \in DOMAIN <<>> : <<>>[k].does = "visit" => k = 1 /\ ~error
  BY EmptyFrames
<1> HIDE DEF Top
<1> DEFINE Good ==
      /\ IsStack(todo', next) /\ Input(in')
      /\ DOMAIN targets' = Nodes /\ targets' = [p \in DOMAIN targets' |-> targets'[p]]
      /\ Received(targets', todo', in'.position) /\ AllDeclared(todo')
      /\ Sets(todo', in'.position) /\ ChecksErrors(todo', in'.error)
      /\ ~in'.error => Remains(todo', next, in'.tried)
<1>g. Good => SerialInv'
  BY <1>2, <1>3, InDeserialize
<1>6. CASE ReadStruct
  <2> DEFINE s == StructReader(Top.path, Top.depl)
  <2>1. /\ IsVisited(Top) /\ Kind(Top.path) = "struct" /\ Calling(s)
        /\ in' = in /\ targets' = targets
    BY <1>6 DEF ReadStruct
  <2>2. /\ s \in Seq(Frames) /\ Len(s) = Size(Top.path) /\ AllDeclared(s)
        /\ \A k \in 1 .. Len(s) : Visits(s[k]) /\ s[k].path = Append(Top.path, k)
        /\ \A position : Sets(s, position)
        /\ \A k \in DOMAIN s : s[k].does = "visit" => k = 1
    BY <1>1, <1>4, <1>5, <2>1, DeclaredMembers
  <2> HIDE DEF s
  <2>3. /\ IsStack(todo', next) /\ todo' = s \o Tail(todo)
        /\ \A done : Remains(todo, next, done) => Remains(todo', next, done)
    BY <1>1, <1>2, <1>5, <2>1, <2>2, StructCalled
  <2>4. AllDeclared(todo') /\ Sets(todo', in.position) /\ ChecksErrors(todo', in.error)
    BY <1>1, <1>2, <1>3, <1>4, <1>5, <2>1, <2>2, <2>3, Kept
  <2>5. Received(targets, todo', in.position)
    BY <1>1, <1>2, <1>3, <1>4, <1>5, <2>1, <2>2, <2>3, NothingReceived
  <2> QED BY <1>3, <1>5, <1>g, <2>1, <2>3, <2>4, <2>5
<1>7. CASE ReadVariant
  <2> DEFINE p == Top.path
             read == ReadElement(in, "variant", "null", targets[p])
             s == ReadContent(p, Top.depl, call.value[p])
  <2>1. /\ IsVisited(Top) /\ Kind(p) = "variant" /\ in' = read.input /\ targets' = targets
        /\ read.input.error => Calling(<<>>)
        /\ ~read.input.error => Calling(ReadContent(p, Top.depl, read.value))
    BY <1>7 DEF ReadVariant, HasError
  <2>2. p \in Elements /\ Place(p) = in.tried + 1 /\ in.tried + 1 <= Total
    BY <1>1, <1>2, <1>5, <2>1, TopIsNext
  <2>3. read = ReadElement(in, Kind(p), Declared(p), targets[p])
    BY <1>d, <2>1
  <2> HIDE DEF p, read
  <2>4. /\ Input(read.input) /\ read.input.error \in BOOLEAN
        /\ read.input.error => read.input.position = in.position
        /\ ~read.input.error =>
              /\ read.input.position = Place(p) /\ in.position = Place(p) - 1
              /\ read.input.tried = in.tried + 1 /\ read.value = call.value[p]
    BY <1>1, <1>3, <1>5, <2>1, <2>2, <2>3, ReadStep
  <2>5. CASE read.input.error
    <3>1. IsStack(todo', next) /\ todo' = <<>> \o Tail(todo)
      BY <1>1, <1>2, <2>1, <2>5, Returned
    <3>2. AllDeclared(todo') /\ Sets(todo', in.position) /\ ChecksErrors(todo', in'.error)
      BY <1>1, <1>2, <1>3, <1>4, <1>e, <3>1, Kept
    <3>3. Received(targets, todo', in.position)
      BY <1>1, <1>2, <1>3, <1>4, <1>5, <1>e, <2>1, <3>1, NothingReceived
    <3> QED BY <1>3, <1>g, <2>1, <2>4, <2>5, <3>1, <3>2, <3>3
  <2>6. CASE ~read.input.error
    <3>1. Calling(s)
      BY <2>1, <2>4, <2>6
    <3>2. /\ s \in Seq(Frames) /\ s # <<>> /\ Visits(s[1]) /\ AllDeclared(s)
          /\ s[1].path = Content(p, call.value[p])
          /\ \A k \in DOMAIN s : (Visits(s[k]) => k = 1) /\ (s[k].does = "visit" => k = 1)
          /\ StillSets(s, p) /\ \A position : Place(p) <= position => Sets(s, position)
      BY <1>1, <1>4, <1>5, <2>1, <2>2, DeclaredContents DEF p
    <3> HIDE DEF s
    <3>3. /\ IsStack(todo', next) /\ todo' = s \o Tail(todo)
          /\ Remains(todo', next, in.tried + 1)
      BY <1>1, <1>2, <1>5, <2>1, <3>1, <3>2, VariantCalled DEF p
    <3>4. Place(p) <= Place(p) /\ Sets(todo, Place(p)) /\ Received(targets, todo, Place(p) - 1)
      BY <1>1, <1>3, <2>2, <2>4, <2>6, SetsMore, NextPlace
    <3>5. AllDeclared(todo') /\ Sets(todo', in'.position) /\ ChecksErrors(todo', in'.error)
      BY <1>1, <1>2, <1>3, <1>4, <2>1, <2>4, <2>6, <3>2, <3>3, <3>4, Kept
    <3>6. Received(targets, todo', in'.position)
      BY <1>1, <1>2, <1>4, <1>5, <2>1, <2>2, <2>4, <2>6, <3>2, <3>3, <3>4, VariantReceived
    <3> QED BY <1>3, <1>g, <2>1, <2>4, <2>6, <3>3, <3>5, <3>6
  <2> QED BY <2>5, <2>6
<1>8. CASE ReadOther
  <2> DEFINE p == Top.path
             read == ReadElement(in, Kind(p), Depl(Top.depl), targets[p])
  <2>1. /\ IsVisited(Top) /\ IsElement(p) /\ in' = read.input /\ Calling(<<>>)
        /\ targets' = [targets EXCEPT ![p] = read.value]
    BY <1>8 DEF ReadOther
  <2>2. p \in Elements /\ Place(p) = in.tried + 1 /\ in.tried + 1 <= Total /\ p \in Nodes
    BY <1>1, <1>2, <1>5, <2>1, TopIsNext, ElementFacts
  <2>3. read = ReadElement(in, Kind(p), Declared(p), targets[p])
    BY <1>5, <1>d, <2>1
  <2> HIDE DEF p, read
  <2>4. /\ Input(read.input) /\ read.input.error \in BOOLEAN
        /\ read.input.error => read.input.position = in.position /\ read.value = targets[p]
        /\ ~read.input.error =>
              /\ read.input.position = Place(p) /\ in.position = Place(p) - 1
              /\ read.input.tried = in.tried + 1 /\ read.value = call.value[p]
    BY <1>1, <1>3, <1>5, <2>1, <2>2, <2>3, ReadStep
  <2>5. /\ IsStack(todo', next) /\ todo' = <<>> \o Tail(todo)
        /\ Remains(todo', next, in.tried + 1)
    BY <1>1, <1>2, <1>5, <2>1, ElementCalled DEF p
  <2>6. /\ DOMAIN targets' = Nodes /\ targets' = [q \in DOMAIN targets' |-> targets'[q]]
    BY <1>3, <2>1
  <2>7. AllDeclared(todo') /\ ChecksErrors(todo', in'.error)
    BY <1>1, <1>2, <1>3, <1>4, <1>e, <2>5, Kept
  <2>8. CASE read.input.error
    <3>1. targets' = targets
      BY <1>3, <2>1, <2>2, <2>4, <2>8
    <3>2. Sets(todo', in.position)
      BY <1>1, <1>2, <1>3, <1>4, <1>e, <2>5, Kept
    <3>3. Received(targets, todo', in.position)
      BY <1>1, <1>2, <1>3, <1>4, <1>5, <1>e, <2>1, <2>5, NothingReceived
    <3> QED BY <1>g, <2>1, <2>4, <2>5, <2>6, <2>7, <2>8, <3>1, <3>2, <3>3
  <2>9. CASE ~read.input.error
    <3>1. Sets(todo, Place(p)) /\ Received(targets, todo, Place(p) - 1)
      BY <1>1, <1>3, <2>2, <2>4, <2>9, SetsMore
    <3>p. in'.position = Place(p)
      BY <2>1, <2>4, <2>9
    <3>2. Sets(todo', in'.position)
      <4>1. Sets(<<>> \o Tail(todo), Place(p))
        BY <1>1, <1>2, <1>4, <1>e, <3>1, Kept
      <4> QED BY <2>5, <3>p, <4>1
    <3>3. targets' = [targets EXCEPT ![p] = call.value[p]]
      BY <2>1, <2>4, <2>9
    <3>4. Received(targets', todo', in'.position)
      <4>1. Received([targets EXCEPT ![p] = call.value[p]], <<>> \o Tail(todo), Place(p))
        BY <1>1, <1>2, <1>3, <1>4, <1>5, <2>1, <2>2, <3>1, ElementReceived
      <4> QED BY <2>5, <3>3, <3>p, <4>1
    <3> QED BY <1>g, <2>1, <2>4, <2>5, <2>6, <2>7, <2>9, <3>2, <3>4
  <2> QED BY <2>8, <2>9
<1>9. CASE SetVariant
  <2>1. /\ Top.does = "set" /\ Calling(<<>>) /\ in' = in
        /\ targets' = [targets EXCEPT ![Top.path] = Top.index]
    BY <1>9 DEF SetVariant
  <2>2. ~Visits(Top)
    BY <2>1 DEF Visits
  <2>3. /\ IsStack(todo', next) /\ todo' = <<>> \o Tail(todo)
        /\ \A done : Remains(todo, next, done) => Remains(todo', next, done)
    BY <1>1, <1>2, <2>1, <2>2, Returned
  <2>4. AllDeclared(todo') /\ Sets(todo', in.position) /\ ChecksErrors(todo', in.error)
    BY <1>1, <1>2, <1>3, <1>4, <1>e, <2>3, Kept
  <2>5. Received(targets', todo', in.position)
    BY <1>1, <1>2, <1>3, <1>4, <2>1, <2>2, <2>3, VariantSet
  <2>6. /\ DOMAIN targets' = Nodes /\ targets' = [q \in DOMAIN targets' |-> targets'[q]]
    BY <1>3, <2>1
  <2> QED BY <1>3, <1>g, <2>1, <2>3, <2>4, <2>5, <2>6
<1>10. CASE SkipMember
  <2>1. /\ Top.does = "visit checked" /\ in.error /\ Calling(<<>>) /\ in' = in
        /\ targets' = targets
    BY <1>10 DEF SkipMember, HasError
  <2>2. Visits(Top)
    BY <2>1 DEF Visits
  <2>3. IsStack(todo', next) /\ todo' = <<>> \o Tail(todo)
    BY <1>1, <1>2, <2>1, Returned
  <2>4. AllDeclared(todo') /\ Sets(todo', in.position) /\ ChecksErrors(todo', in.error)
    BY <1>1, <1>2, <1>3, <1>4, <1>e, <2>3, Kept
  <2>5. Received(targets, todo', in.position)
    BY <1>1, <1>2, <1>3, <1>4, <1>e, <2>2, <2>3, NothingReceived
  <2> QED BY <1>3, <1>g, <2>1, <2>3, <2>4, <2>5
<1> QED BY <1>6, <1>7, <1>8, <1>9, <1>10 DEF readValue

\* deserialize() returns false.
LEMMA NotDeserializedKeeps == SerialInv /\ NotDeserialized => SerialInv'
<1> SUFFICES ASSUME SerialInv, NotDeserialized PROVE SerialInv'
  OBVIOUS
<1>1. /\ at = "deserialize" /\ todo = <<>> /\ in.error /\ at' = "not deserialized"
      /\ UNCHANGED <<call, types, out, in, targets, next, todo>>
  BY DEF NotDeserialized, Accepted, HasError
<1>2. StackInv'
  BY <1>1, SameStack, SameTree DEF SerialInv, StackInv
<1>3. AnnounceInv'
  BY <1>1, SameStreams, SameTree DEF SerialInv, AnnounceInv
<1>4. WriteInv'
  BY <1>1, SameStreams, SameTree DEF SerialInv, WriteInv
<1>5. ReadInv'
  BY <1>1, SameStreams DEF SerialInv, ReadInv
<1> QED BY <1>2, <1>3, <1>4, <1>5 DEF SerialInv

\* deserialize() returns true.
LEMMA DeserializedKeeps == SerialInv /\ Deserialized => SerialInv'
<1> SUFFICES ASSUME SerialInv, Deserialized PROVE SerialInv'
  OBVIOUS
<1>1. /\ at = "deserialize" /\ todo = <<>> /\ ~in.error /\ at' = "deserialized"
      /\ next > Size(<<>>)
      /\ UNCHANGED <<call, types, out, in, targets, next, todo>>
  BY DEF Deserialized, Accepted, HasError
<1>2. StackInv'
  BY <1>1, SameStack, SameTree DEF SerialInv, StackInv
<1>3. AnnounceInv'
  BY <1>1, SameStreams, SameTree DEF SerialInv, AnnounceInv
<1>4. WriteInv'
  BY <1>1, SameStreams, SameTree DEF SerialInv, WriteInv
<1>5. in.tried = Total
  <2>1. IsCall(call)
    BY CallsAssumption DEF SerialInv, StackInv
  <2>2. Remains(<<>>, next, in.tried) /\ next \in Nat
    BY <1>1 DEF SerialInv, ReadInv, StackInv, IsStack
  <2> QED BY <1>1, <2>1, <2>2, Ends
<1>6. ReadInv'
  BY <1>1, <1>5, SameStreams, SameTree DEF SerialInv, ReadInv
<1> QED BY <1>2, <1>3, <1>4, <1>6 DEF SerialInv

\* Nothing changes.
LEMMA StutterKeeps == SerialInv /\ UNCHANGED vars => SerialInv'
<1> SUFFICES ASSUME SerialInv, UNCHANGED vars PROVE SerialInv'
  OBVIOUS
<1>1. UNCHANGED <<call, types, out, in, targets, at, next, todo>>
  BY DEF vars
<1>2. StackInv'
  BY <1>1, SameStack, SameTree DEF SerialInv, StackInv
<1>3. AnnounceInv'
  BY <1>1, SameStack, SameStreams, SameTree DEF SerialInv, AnnounceInv, AllVisit
<1>4. WriteInv'
  BY <1>1, SameStack, SameStreams, SameTree DEF SerialInv, WriteInv, AllVisit
<1>5. ReadInv'
  BY <1>1, SameStack, SameStreams, SameTree DEF SerialInv, ReadInv, ChecksErrors
<1> QED BY <1>2, <1>3, <1>4, <1>5 DEF SerialInv

\* The stacks, the elements of the streams and the targets are always those of one place
\* in the order of the elements.
THEOREM SerialInvariant == Spec => []SerialInv
<1>1. SerialInv /\ [Next]_vars => SerialInv'
  BY AnnounceKeeps, writeTypeKeeps, BeginKeeps, SerializeKeeps, writeValueKeeps,
     NotSerializedKeeps, DeliverKeeps, DeserializeKeeps, readValueKeeps,
     NotDeserializedKeeps, DeserializedKeeps, StutterKeeps DEF Next
<1> QED BY SerialInit, <1>1, PTL DEF Spec

------------------------------------------------------------------------------
(***************************************************************************)
(* The properties                                                          *)
(***************************************************************************)
\* Without a reader that is still to set a variant, what was read is in the targets.
LEMMA AllSet ==
    ASSUME NEW values, NEW position, Received(values, <<>>, position), NEW p \in Nodes
    PROVE  \/ values[p] = call.value[p] /\ p \in Elements /\ Place(p) <= position
           \/ values[p] = DefaultValue(p) /\ ~(p \in Elements /\ Place(p) <= position)
<1>1. ~StillSets(<<>>, p)
  BY DEF StillSets
<1> QED BY <1>1 DEF Received

\* What was tried without an error was written, and is in the arguments before the next.
LEMMA InvWrittenAsDeployed == SerialInv => WrittenAsDeployed
<1> DEFINE written == {p \in Elements : p[1] < next}
<1> SUFFICES ASSUME SerialInv, at = "serialize", todo = <<>>, ~out.error
             PROVE  /\ DOMAIN out.elements = {Place(p) : p \in written}
                    /\ \A p \in written : out.elements[Place(p)] = ElementOf(p)
  BY DEF WrittenAsDeployed, HasError
<1>1. IsCall(call) /\ next \in Nat
  BY CallsAssumption DEF SerialInv, StackInv, IsStack
<1>2. /\ Remains(<<>>, next, out.tried)
      /\ out.tried = Len(out.elements) /\ Written(out.elements)
  BY DEF SerialInv, WriteInv, Output
<1>3. /\ DOMAIN out.elements = 1 .. Len(out.elements) /\ Len(out.elements) \in 0 .. Total
      /\ Total \in Nat
  <2>1. out.elements \in Seq({ElementOf(e) : e \in Elements})
    BY <1>2 DEF Written
  <2>2. DOMAIN out.elements = 1 .. Len(out.elements)
    BY <2>1
  <2> QED BY <1>1, <1>2, <2>2, ElementFacts DEF Remains
<1>4. {e \in Elements : next <= e[1]} = {e \in Elements : Len(out.elements) < Place(e)}
  BY <1>2 DEF Remains, Rest, Covered
<1>5. ASSUME NEW e \in Elements
      PROVE  /\ e \in written <=> Place(e) <= Len(out.elements)
             /\ Place(e) \in 1 .. Total
  <2>1. e[1] \in Nat /\ Place(e) \in 1 .. Total
    BY <1>1, NodeFacts, ElementInCall, PlaceFacts
  <2>2. next <= e[1] <=> Len(out.elements) < Place(e)
    BY <1>4
  <2> QED BY <1>1, <1>3, <2>1, <2>2
<1>6. DOMAIN out.elements = {Place(p) : p \in written}
  <2>1. ASSUME NEW k \in DOMAIN out.elements PROVE k \in {Place(p) : p \in written}
    <3>1. k \in 1 .. Total /\ k <= Len(out.elements)
      BY <1>3
    <3>2. PICK e \in Elements : Place(e) = k
      BY <1>1, <3>1, PlaceFacts
    <3> QED BY <1>5, <3>1, <3>2
  <2>2. ASSUME NEW p \in written PROVE Place(p) \in DOMAIN out.elements
    <3>1. p \in Elements
      OBVIOUS
    <3>2. Place(p) \in 1 .. Total /\ Place(p) <= Len(out.elements)
      BY <1>5, <3>1
    <3> QED BY <1>3, <3>2
  <2> QED BY <2>1, <2>2
<1>7. \A p \in written : out.elements[Place(p)] = ElementOf(p)
  BY <1>2, <1>5 DEF Written
<1> QED BY <1>6, <1>7

\* What is announced and what is written both follow the order of the elements.
LEMMA InvSignatureAgrees == SerialInv => SignatureAgrees
<1> SUFFICES ASSUME SerialInv, at # "announce", ~out.error
             PROVE  /\ \A k \in DOMAIN out.elements :
                          /\ k \in DOMAIN types
                          /\ types[k] = [type |-> out.elements[k].type,
                                         depl |-> out.elements[k].depl]
                    /\ at # "serialize" => Len(types) = Len(out.elements)
  BY DEF SignatureAgrees, HasError
<1>1. IsCall(call)
  BY CallsAssumption DEF SerialInv, StackInv
<1>2. Announced(types) /\ Len(types) = Total
  BY DEF SerialInv, AnnounceInv
<1>3. Written(out.elements) /\ out.tried = Len(out.elements)
  BY DEF SerialInv, WriteInv, Output
<1>4. /\ Total \in Nat /\ Len(out.elements) <= Total
      /\ DOMAIN out.elements = 1 .. Len(out.elements) /\ Len(out.elements) \in Nat
      /\ DOMAIN types = 1 .. Total
  <2>1. /\ out.elements \in Seq({ElementOf(e) : e \in Elements})
        /\ types \in Seq({TypeElementOf(e) : e \in Elements})
    BY <1>2, <1>3 DEF Announced, Written
  <2>2. /\ DOMAIN out.elements = 1 .. Len(out.elements) /\ Len(out.elements) \in Nat
        /\ DOMAIN types = 1 .. Len(types)
    BY <2>1
  <2>3. Len(out.elements) <= Total
    BY <1>3 DEF Written
  <2> QED BY <1>1, <1>2, <2>2, <2>3, ElementFacts
<1>5. ASSUME NEW k \in DOMAIN out.elements
      PROVE  /\ k \in DOMAIN types
             /\ types[k] = [type |-> out.elements[k].type, depl |-> out.elements[k].depl]
  <2>1. k \in 1 .. Total /\ k <= Len(out.elements)
    BY <1>4
  <2>2. PICK e \in Elements : Place(e) = k
    BY <1>1, <2>1, PlaceFacts
  <2>3. types[k] = TypeElementOf(e)
    BY <1>2, <2>1, <2>2 DEF Announced
  <2>4. out.elements[k] = ElementOf(e)
    BY <1>3, <2>1, <2>2 DEF Written
  <2> QED BY <1>4, <2>1, <2>3, <2>4 DEF TypeElementOf, TypeElement, ElementOf, Element
<1>6. ASSUME at # "serialize" PROVE Len(types) = Len(out.elements)
  <2>1. at \in {"deserialize", "deserialized", "not deserialized"}
    BY <1>6 DEF SerialInv, StackInv, WriteInv
  <2>2. out.tried = Total
    BY <2>1 DEF SerialInv, WriteInv
  <2> QED BY <1>2, <1>3, <2>2
<1> QED BY <1>5, <1>6

\* All elements were read, and no variant is still to be set.
LEMMA InvRoundTrip == SerialInv => RoundTrip
<1> SUFFICES ASSUME SerialInv, at = "deserialized"
             PROVE  /\ \A p \in Elements : targets[p] = call.value[p]
                    /\ in.position = Len(in.elements)
  BY DEF RoundTrip
<1>1. IsCall(call) /\ todo = <<>>
  BY CallsAssumption DEF SerialInv, StackInv
<1>2. Input(in) /\ Received(targets, <<>>, in.position) /\ ~in.error /\ in.tried = Total
  BY <1>1 DEF SerialInv, ReadInv
<1>3. in.position = Total /\ Len(in.elements) = Total
  BY <1>2 DEF Input
<1>4. ASSUME NEW p \in Elements PROVE targets[p] = call.value[p]
  <2>1. p \in Nodes /\ Place(p) <= in.position
    BY <1>1, <1>3, ElementFacts, PlaceFacts
  <2> QED BY <1>2, <2>1, AllSet
<1> QED BY <1>3, <1>4

\* A stream with an error stopped at the element that it failed at, and what is before that
\* is received.
LEMMA StoppedAtFailure ==
    ASSUME IsCall(call), NEW stream, Input(stream), stream.error,
           NEW values, Received(values, <<>>, stream.position)
    PROVE  /\ stream.tried = stream.failAt /\ stream.failAt \in 1 .. Total
           /\ \A p \in Nodes :
                 values[p] = IF p \in Elements /\ Place(p) < stream.failAt
                             THEN call.value[p] ELSE DefaultValue(p)
<1>1. PICK n \in Nat : n = stream.failAt
  BY DEF Input, StreamsOf
<1>2. stream.tried = n /\ n <= Total /\ stream.position = n - 1 /\ n - 1 \in Nat
  BY <1>1 DEF Input, StreamsOf
<1>3. n \in 1 .. Total
  BY <1>2, ElementFacts
<1>4. ASSUME NEW p \in Nodes
      PROVE  values[p] = IF p \in Elements /\ Place(p) < n
                         THEN call.value[p] ELSE DefaultValue(p)
  <2>1. ASSUME p \in Elements PROVE Place(p) <= n - 1 <=> Place(p) < n
    <3>1. Place(p) \in 1 .. Total /\ Total \in Nat
      BY <2>1, ElementFacts, PlaceFacts
    <3> QED BY <1>2, <3>1
  <2>2. \/ values[p] = call.value[p] /\ p \in Elements /\ Place(p) <= n - 1
        \/ values[p] = DefaultValue(p) /\ ~(p \in Elements /\ Place(p) <= n - 1)
    BY <1>2, AllSet
  <2> QED BY <2>1, <2>2
<1> QED BY <1>1, <1>2, <1>3, <1>4

\* Both streams come to all elements before they return true.
LEMMA InvFailureReported == SerialInv => FailureReported
<1> SUFFICES ASSUME SerialInv PROVE FailureReported
  OBVIOUS
<1>1. IsCall(call)
  BY CallsAssumption DEF SerialInv, StackInv
<1>2. Total \in Nat /\ Total = Cardinality(Elements)
  BY <1>1, ElementFacts DEF Total
<1>3. /\ out.tried \in Nat /\ out.tried <= Total /\ out.failAt \in Nat
      /\ out.error <=> out.failAt \in 1 .. out.tried
  BY DEF SerialInv, WriteInv, Output, StreamsOf
<1>4. at = "not serialized" => out.failAt \in 1 .. Total
  <2>1. at = "not serialized" => out.failAt \in 1 .. out.tried
    BY <1>3 DEF SerialInv, WriteInv
  <2>2. 1 .. out.tried \subseteq 1 .. Total
    BY <1>2, <1>3
  <2> QED BY <2>1, <2>2
<1>5. at \in {"deserialize", "deserialized", "not deserialized"} => out.failAt \notin 1 .. Total
  BY <1>3 DEF SerialInv, WriteInv
<1>6. at = "deserialized" /\ ~in.error => in.failAt \notin 1 .. in.tried
  BY DEF SerialInv, ReadInv, Input, StreamsOf
<1>7. at = "not deserialized" => in.failAt \in 1 .. Total
  <2>1. at = "not deserialized" =>
           todo = <<>> /\ Input(in) /\ in.error /\ Received(targets, <<>>, in.position)
    BY DEF SerialInv, StackInv, ReadInv
  <2> QED BY <1>1, <2>1, StoppedAtFailure
<1>8. at = "deserialized" => in.failAt \notin 1 .. Total
  BY <1>6 DEF SerialInv, ReadInv
<1> QED BY <1>2, <1>4, <1>5, <1>7, <1>8 DEF FailureReported

\* The stream that has an error stopped where it failed.
LEMMA InvNothingReadAfterFailure == SerialInv => NothingReadAfterFailure
<1> SUFFICES ASSUME SerialInv, at = "not deserialized"
             PROVE  /\ in.tried = in.failAt
                    /\ \A p \in Nodes :
                          targets[p] = IF p \in Elements /\ Place(p) < in.failAt
                                       THEN call.value[p] ELSE DefaultValue(p)
  BY DEF NothingReadAfterFailure
<1>1. IsCall(call) /\ todo = <<>>
  BY CallsAssumption DEF SerialInv, StackInv
<1>2. Input(in) /\ Received(targets, <<>>, in.position) /\ in.error
  BY <1>1 DEF SerialInv, ReadInv
<1> QED BY <1>1, <1>2, StoppedAtFailure

\* As long as the OutputStream has no error, it holds the arguments serialized so far, each
\* element with the deployment that is declared for its place (Struct.hpp:112,
\* Variant.hpp:364), for calls of every size and depth.
THEOREM SpecWrittenAsDeployed == Spec => []WrittenAsDeployed
<1> QED BY SerialInvariant, InvWrittenAsDeployed, PTL

\* The announced types are those of the elements that are written (Struct.hpp:159).
THEOREM SpecSignatureAgrees == Spec => []SignatureAgrees
<1> QED BY SerialInvariant, InvSignatureAgrees, PTL

\* What serialize() and deserialize() accepted has arrived as it was sent
\* (SerializableArguments.hpp:34).
THEOREM SpecRoundTrip == Spec => []RoundTrip
<1> QED BY SerialInvariant, InvRoundTrip, PTL

\* serialize() and deserialize() return false exactly if an element failed.
THEOREM SpecFailureReported == Spec => []FailureReported
<1> QED BY SerialInvariant, InvFailureReported, PTL

\* Behind an element that could not be read nothing is taken from the stream, and the
\* targets behind it are as initialised (Struct.hpp:59).
THEOREM SpecNothingReadAfterFailure == Spec => []NothingReadAfterFailure
<1> QED BY SerialInvariant, InvNothingReadAfterFailure, PTL
==============================================================================
