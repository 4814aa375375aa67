------------------------ MODULE MainLoopContextProofs ------------------------
(***************************************************************************)
(* Theorems about MainLoopContext, for any kinds, listeners and sources,   *)
(* and however deep notifications nest.                                    *)
(***************************************************************************)
EXTENDS MainLoopContext, SequenceTheorems, TLAPS

-----------------------------------------------------------------------------
(***************************************************************************)
(* Lemmas about the lists.  A list is known by its order.                  *)
(***************************************************************************)
IsBehind(list, c, x) == \E i, j \in DOMAIN list : i < j /\ list[i] = c /\ list[j] = x

IsList(list) == list \in Seq(Subscriptions) /\ IsInjective(list)

LEMMA ListFacts ==
    ASSUME NEW list, IsList(list)
    PROVE  /\ list \in Seq(Subscriptions) /\ Len(list) \in Nat /\ DOMAIN list = 1 .. Len(list)
           /\ \A i \in 1 .. Len(list) : list[i] \in Subscriptions
           /\ \A i, j \in 1 .. Len(list) : list[i] = list[j] => i = j
           /\ \A s : s \in Range(list) <=> \E i \in 1 .. Len(list) : list[i] = s
BY LenProperties, ElementOfSeq DEF IsList, IsInjective, Range

\* What is behind a node.
LEMMA BehindFacts ==
    ASSUME NEW list, IsList(list), NEW i \in 1 .. Len(list)
    PROVE  /\ First(Behind(list, list[i])) = IF i = Len(list) THEN End ELSE list[i + 1]
           /\ \A x : x \in Range(Behind(list, list[i])) <=>
                        \E j \in 1 .. Len(list) : i < j /\ list[j] = x
<1> DEFINE n == Len(list)
           rest == SubSeq(list, i + 1, n)
<1>1. /\ list \in Seq(Subscriptions) /\ n \in Nat /\ DOMAIN list = 1 .. n
      /\ \A j \in 1 .. n : list[j] \in Subscriptions
      /\ \A j, k \in 1 .. n : list[j] = list[k] => j = k
  BY ListFacts
<1>2. Behind(list, list[i]) = rest
  <2>1. (CHOOSE j \in DOMAIN list : list[j] = list[i]) = i
    BY <1>1
  <2> QED BY <2>1 DEF Behind
<1>3. /\ rest \in Seq(Subscriptions) /\ Len(rest) = n - i
      /\ \A j \in 1 .. n - i : rest[j] = list[i + j]
  <2>1. \A j \in i + 1 .. n : list[j] \in Subscriptions
    BY <1>1
  <2>2. /\ rest \in Seq(Subscriptions)
        /\ Len(rest) = IF i + 1 <= n THEN n - (i + 1) + 1 ELSE 0
        /\ \A j \in 1 .. n - (i + 1) + 1 : rest[j] = list[(i + 1) + j - 1]
    <3> HIDE DEF n
    <3>1. i + 1 \in Int /\ n \in Int
      BY <1>1
    <3> QED BY <2>1, <3>1, SubSeqProperties
  <2> HIDE DEF rest, n
  <2>3. n - (i + 1) + 1 = n - i /\ \A j \in 1 .. n - i : (i + 1) + j - 1 = i + j
    BY <1>1
  <2>4. i <= n
    BY <1>1 DEF n
  <2> QED BY <1>1, <2>2, <2>3, <2>4
<1> HIDE DEF rest, n
<1>4. i \in 1 .. n
  BY DEF n
<1>5. First(rest) = IF i = n THEN End ELSE list[i + 1]
  <2>1. CASE i = n
    <3>1. rest = <<>>
      BY <1>1, <1>3, <2>1, EmptySeq
    <3> QED BY <2>1, <3>1 DEF First
  <2>2. CASE i # n
    <3>1. 1 \in 1 .. n - i
      BY <1>1, <1>4, <2>2
    <3>2. rest # <<>> /\ rest[1] = list[i + 1]
      BY <1>1, <1>3, <1>4, <2>2, <3>1
    <3>3. Head(rest) = rest[1]
      BY <1>3, <3>2
    <3> QED BY <2>2, <3>2, <3>3 DEF First
  <2> QED BY <2>1, <2>2
<1>6. ASSUME NEW x PROVE x \in Range(rest) <=> \E j \in 1 .. n : i < j /\ list[j] = x
  <2>1. DOMAIN rest = 1 .. n - i
    BY <1>3, LenProperties
  <2>2. ASSUME NEW j \in 1 .. n - i, rest[j] = x PROVE \E k \in 1 .. n : i < k /\ list[k] = x
    <3>1. i + j \in 1 .. n /\ i < i + j
      BY <1>1, <1>4
    <3> QED BY <1>3, <2>2, <3>1
  <2>3. ASSUME NEW k \in 1 .. n, i < k, list[k] = x PROVE \E j \in 1 .. n - i : rest[j] = x
    <3>1. k - i \in 1 .. n - i /\ i + (k - i) = k
      BY <1>1, <1>4, <2>3
    <3> QED BY <1>3, <2>3, <3>1
  <2> QED BY <2>1, <2>2, <2>3 DEF Range
<1> QED BY <1>2, <1>5, <1>6 DEF n

\* The same, for a node of the list.
LEMMA BehindNode ==
    ASSUME NEW list, IsList(list), NEW c \in Range(list)
    PROVE  /\ \A x : x \in Range(Behind(list, c)) <=> IsBehind(list, c, x)
           /\ c \notin Range(Behind(list, c))
           /\ Range(Behind(list, c)) \subseteq Range(list)
           /\ First(Behind(list, c)) = End => Range(Behind(list, c)) = {}
           /\ First(Behind(list, c)) # End =>
                 LET next == First(Behind(list, c))
                 IN  /\ next \in Range(list)
                     /\ Range(Behind(list, c)) = Range(Behind(list, next)) \cup {next}
<1>1. /\ Len(list) \in Nat /\ DOMAIN list = 1 .. Len(list)
      /\ \A j, k \in 1 .. Len(list) : list[j] = list[k] => j = k
      /\ \A i \in 1 .. Len(list) : list[i] \in Subscriptions
  BY ListFacts
<1>2. PICK i \in 1 .. Len(list) : list[i] = c
  BY ListFacts
<1>3. /\ First(Behind(list, c)) = IF i = Len(list) THEN End ELSE list[i + 1]
      /\ \A x : x \in Range(Behind(list, c)) <=> \E j \in 1 .. Len(list) : i < j /\ list[j] = x
  <2>1. /\ First(Behind(list, list[i])) = IF i = Len(list) THEN End ELSE list[i + 1]
        /\ \A x : x \in Range(Behind(list, list[i])) <=>
                     \E j \in 1 .. Len(list) : i < j /\ list[j] = x
    BY BehindFacts
  <2> QED BY <1>2, <2>1
<1>4. \A x : x \in Range(Behind(list, c)) <=> IsBehind(list, c, x)
  <2> SUFFICES ASSUME NEW x PROVE x \in Range(Behind(list, c)) <=> IsBehind(list, c, x)
    OBVIOUS
  <2>1. ASSUME NEW j \in 1 .. Len(list), i < j, list[j] = x PROVE IsBehind(list, c, x)
    BY <1>1, <1>2, <2>1 DEF IsBehind
  <2>2. ASSUME IsBehind(list, c, x) PROVE \E j \in 1 .. Len(list) : i < j /\ list[j] = x
    <3>1. PICK k \in 1 .. Len(list), j \in 1 .. Len(list) : k < j /\ list[k] = c /\ list[j] = x
      BY <1>1, <2>2 DEF IsBehind
    <3>2. k = i
      BY <1>1, <1>2, <3>1
    <3> QED BY <3>1, <3>2
  <2> QED BY <1>3, <2>1, <2>2
<1>5. c \notin Range(Behind(list, c)) /\ Range(Behind(list, c)) \subseteq Range(list)
  <2>1. ASSUME c \in Range(Behind(list, c)) PROVE FALSE
    <3>1. PICK j \in 1 .. Len(list) : i < j /\ list[j] = c
      BY <1>3, <2>1
    <3>2. j = i
      BY <1>1, <1>2, <3>1
    <3> QED BY <1>2, <3>1, <3>2
  <2>2. Range(Behind(list, c)) \subseteq Range(list)
    BY <1>3, ListFacts
  <2> QED BY <2>1, <2>2
<1>6. CASE i = Len(list)
  <2>1. First(Behind(list, c)) = End
    BY <1>3, <1>6
  <2>2. \A j \in 1 .. Len(list) : ~(i < j)
    BY <1>1, <1>6
  <2> QED BY <1>3, <1>4, <1>5, <2>1, <2>2
<1>7. CASE i # Len(list)
  <2>1. i + 1 \in 1 .. Len(list) /\ First(Behind(list, c)) = list[i + 1]
    BY <1>1, <1>3, <1>7
  <2>2. list[i + 1] # End /\ list[i + 1] \in Range(list)
    BY <1>1, <2>1, EndAssumption, ListFacts
  <2>3. \A x : x \in Range(Behind(list, list[i + 1])) <=>
                  \E j \in 1 .. Len(list) : i + 1 < j /\ list[j] = x
    BY <2>1, BehindFacts
  <2>4. \A j \in 1 .. Len(list) : i < j <=> i + 1 < j \/ j = i + 1
    BY <1>1
  <2>5. Range(Behind(list, c)) = Range(Behind(list, list[i + 1])) \cup {list[i + 1]}
    BY <1>3, <2>1, <2>3, <2>4
  <2> QED BY <1>4, <1>5, <2>1, <2>2, <2>5
<1> QED BY <1>6, <1>7

\* The whole list, from its first node on.
LEMMA FirstFacts ==
    ASSUME NEW list, IsList(list)
    PROVE  /\ First(list) = End => Range(list) = {}
           /\ First(list) # End =>
                 /\ First(list) \in Range(list)
                 /\ Range(list) = Range(Behind(list, First(list))) \cup {First(list)}
<1>1. /\ list \in Seq(Subscriptions) /\ Len(list) \in Nat /\ DOMAIN list = 1 .. Len(list)
      /\ \A i \in 1 .. Len(list) : list[i] \in Subscriptions
  BY ListFacts
<1>2. CASE list = <<>>
  <2>1. Range(list) = {}
    BY <1>2 DEF Range
  <2> QED BY <1>2, <2>1 DEF First
<1>3. CASE list # <<>>
  <2>1. 1 \in 1 .. Len(list)
    BY <1>1, <1>3, EmptySeq
  <2>2. First(list) = list[1]
    BY <1>1, <1>3, <2>1 DEF First
  <2>3. First(list) # End /\ First(list) \in Range(list)
    BY <1>1, <2>1, <2>2, EndAssumption, ListFacts
  <2>4. \A x : x \in Range(Behind(list, list[1])) <=>
                  \E j \in 1 .. Len(list) : 1 < j /\ list[j] = x
    BY <2>1, BehindFacts
  <2>5. \A j \in 1 .. Len(list) : j = 1 \/ 1 < j
    BY <1>1
  <2>6. \A x : x \in Range(list) <=> \E j \in 1 .. Len(list) : list[j] = x
    BY ListFacts
  <2>7. Range(list) = Range(Behind(list, list[1])) \cup {list[1]}
    BY <2>1, <2>4, <2>5, <2>6
  <2> QED BY <2>2, <2>3, <2>7
<1> QED BY <1>2, <1>3

\* A new node at the front is behind no other.
LEMMA ConsFacts ==
    ASSUME NEW list, IsList(list), NEW s \in Subscriptions, s \notin Range(list)
    PROVE  /\ IsList(Cons(s, list)) /\ Range(Cons(s, list)) = Range(list) \cup {s}
           /\ \A c \in Range(list) : Range(Behind(Cons(s, list), c)) = Range(Behind(list, c))
<1> DEFINE longer == Cons(s, list)
           n == Len(list)
<1>1. /\ list \in Seq(Subscriptions) /\ n \in Nat /\ DOMAIN list = 1 .. n
      /\ \A i \in 1 .. n : list[i] \in Subscriptions
      /\ \A i, j \in 1 .. n : list[i] = list[j] => i = j
      /\ \A x : x \in Range(list) <=> \E i \in 1 .. n : list[i] = x
  BY ListFacts
<1>2. /\ longer \in Seq(Subscriptions) /\ Len(longer) = n + 1 /\ DOMAIN longer = 1 .. n + 1
      /\ longer[1] = s /\ \A i \in 1 .. n : longer[i + 1] = list[i]
  <2>1. <<s>> \in Seq(Subscriptions) /\ Len(<<s>>) = 1 /\ <<s>>[1] = s
    OBVIOUS
  <2>2. /\ <<s>> \o list \in Seq(Subscriptions) /\ Len(<<s>> \o list) = Len(<<s>>) + Len(list)
        /\ \A i \in 1 .. Len(<<s>>) + Len(list) : (<<s>> \o list)[i] =
              IF i <= Len(<<s>>) THEN <<s>>[i] ELSE list[i - Len(<<s>>)]
    BY <1>1, <2>1, ConcatProperties
  <2>3. longer = <<s>> \o list
    BY DEF Cons
  <2>4. longer \in Seq(Subscriptions) /\ Len(longer) = n + 1
    BY <1>1, <2>1, <2>2, <2>3
  <2>5. \A i \in 1 .. n + 1 : longer[i] = IF i <= 1 THEN s ELSE list[i - 1]
    BY <1>1, <2>1, <2>2, <2>3
  <2> HIDE DEF longer, n
  <2>6. DOMAIN longer = 1 .. n + 1
    BY <2>4, LenProperties
  <2>7. 1 \in 1 .. n + 1 /\ \A i \in 1 .. n : i + 1 \in 1 .. n + 1 /\ ~(i + 1 <= 1) /\ i + 1 - 1 = i
    BY <1>1
  <2> QED BY <2>4, <2>5, <2>6, <2>7
<1> HIDE DEF longer
<1>3. \A i \in 1 .. n + 1 : i = 1 \/ (i - 1 \in 1 .. n /\ longer[i] = list[i - 1])
  <2>1. \A i \in 1 .. n + 1 : i = 1 \/ (i - 1 \in 1 .. n /\ (i - 1) + 1 = i)
    BY <1>1
  <2> QED BY <1>2, <2>1
<1>4. \A i \in 1 .. n : list[i] # s
  BY <1>1
<1>5. Range(longer) = Range(list) \cup {s}
  <2>1. \A x : x \in Range(longer) <=> \E i \in 1 .. n + 1 : longer[i] = x
    BY <1>2 DEF Range
  <2>2. 1 \in 1 .. n + 1 /\ \A i \in 1 .. n : i + 1 \in 1 .. n + 1
    BY <1>1
  <2> QED BY <1>1, <1>2, <1>3, <2>1, <2>2
<1>6. IsInjective(longer)
  <2> SUFFICES ASSUME NEW i \in 1 .. n + 1, NEW j \in 1 .. n + 1, longer[i] = longer[j]
               PROVE  i = j
    BY <1>2 DEF IsInjective
  <2>1. CASE i = 1 \/ j = 1
    BY <1>2, <1>3, <1>4, <2>1
  <2>2. CASE i # 1 /\ j # 1
    <3>1. i - 1 \in 1 .. n /\ j - 1 \in 1 .. n /\ list[i - 1] = list[j - 1]
      BY <1>3, <2>2
    <3>2. i - 1 = j - 1
      BY <1>1, <3>1
    <3> QED BY <1>1, <3>2
  <2> QED BY <2>1, <2>2
<1>7. IsList(longer)
  BY <1>2, <1>6 DEF IsList
<1>8. ASSUME NEW c \in Range(list) PROVE Range(Behind(longer, c)) = Range(Behind(list, c))
  <2>1. \A x : x \in Range(Behind(list, c)) <=> IsBehind(list, c, x)
    BY BehindNode
  <2>2. \A x : x \in Range(Behind(longer, c)) <=> IsBehind(longer, c, x)
    BY <1>5, <1>7, <1>8, BehindNode
  <2>3. ASSUME NEW x, IsBehind(list, c, x) PROVE IsBehind(longer, c, x)
    <3>1. PICK i \in 1 .. n, j \in 1 .. n : i < j /\ list[i] = c /\ list[j] = x
      BY <1>1, <2>3 DEF IsBehind
    <3>2. i + 1 \in 1 .. n + 1 /\ j + 1 \in 1 .. n + 1 /\ i + 1 < j + 1
      BY <1>1, <3>1
    <3> QED BY <1>2, <3>1, <3>2 DEF IsBehind
  <2>4. ASSUME NEW x, IsBehind(longer, c, x) PROVE IsBehind(list, c, x)
    <3>1. PICK i \in 1 .. n + 1, j \in 1 .. n + 1 : i < j /\ longer[i] = c /\ longer[j] = x
      BY <1>2, <2>4 DEF IsBehind
    <3>2. c # s
      BY <1>8
    <3>3. i # 1 /\ j # 1
      BY <1>1, <1>2, <3>1, <3>2
    <3>4. i - 1 \in 1 .. n /\ j - 1 \in 1 .. n /\ i - 1 < j - 1
          /\ list[i - 1] = c /\ list[j - 1] = x
      BY <1>1, <1>3, <3>1, <3>3
    <3> QED BY <1>1, <3>4 DEF IsBehind
  <2> QED BY <2>1, <2>2, <2>3, <2>4
<1> QED BY <1>5, <1>7, <1>8 DEF longer

\* An erased node leaves the others in their order.
LEMMA EraseFacts ==
    ASSUME NEW list, IsList(list), NEW s \in Range(list)
    PROVE  /\ IsList(RemoveFirst(list, s)) /\ Range(RemoveFirst(list, s)) = Range(list) \ {s}
           /\ \A c \in Range(list) \ {s} :
                 Range(Behind(RemoveFirst(list, s), c)) = Range(Behind(list, c)) \ {s}
<1> DEFINE shorter == RemoveFirst(list, s)
           n == Len(list)
<1>1. /\ list \in Seq(Subscriptions) /\ n \in Nat /\ DOMAIN list = 1 .. n
      /\ \A i \in 1 .. n : list[i] \in Subscriptions
      /\ \A i, j \in 1 .. n : list[i] = list[j] => i = j
      /\ \A x : x \in Range(list) <=> \E i \in 1 .. n : list[i] = x
  BY ListFacts
<1>2. PICK p \in 1 .. n : list[p] = s
  BY <1>1
<1>3. shorter = SubSeq(list, 1, p - 1) \o SubSeq(list, p + 1, n)
  <2>1. {i \in 1 .. n : list[i] = s} = {p}
    BY <1>1, <1>2
  <2>2. Min({p}) = p
    BY <1>2 DEF Min
  <2>3. SelectInSeq(list, LAMBDA v : v = s) = p
    BY <2>1, <2>2 DEF SelectInSeq
  <2> QED BY <1>2, <2>3 DEF RemoveFirst, RemoveAt
<1>4. /\ SubSeq(list, 1, p - 1) \in Seq(Subscriptions) /\ Len(SubSeq(list, 1, p - 1)) = p - 1
      /\ \A i \in 1 .. p - 1 : SubSeq(list, 1, p - 1)[i] = list[i]
  <2>1. 1 \in Int /\ p - 1 \in Int /\ \A i \in 1 .. p - 1 : list[i] \in Subscriptions
    BY <1>1, <1>2
  <2>2. /\ SubSeq(list, 1, p - 1) \in Seq(Subscriptions)
        /\ Len(SubSeq(list, 1, p - 1)) = IF 1 <= p - 1 THEN (p - 1) - 1 + 1 ELSE 0
        /\ \A i \in 1 .. (p - 1) - 1 + 1 : SubSeq(list, 1, p - 1)[i] = list[1 + i - 1]
    BY <2>1, SubSeqProperties
  <2> QED BY <1>1, <1>2, <2>2
<1>5. /\ SubSeq(list, p + 1, n) \in Seq(Subscriptions) /\ Len(SubSeq(list, p + 1, n)) = n - p
      /\ \A i \in 1 .. n - p : SubSeq(list, p + 1, n)[i] = list[p + i]
  <2>1. p + 1 \in Int /\ n \in Int /\ \A i \in p + 1 .. n : list[i] \in Subscriptions
    BY <1>1, <1>2
  <2> HIDE DEF n
  <2>2. /\ SubSeq(list, p + 1, n) \in Seq(Subscriptions)
        /\ Len(SubSeq(list, p + 1, n)) = IF p + 1 <= n THEN n - (p + 1) + 1 ELSE 0
        /\ \A i \in 1 .. n - (p + 1) + 1 : SubSeq(list, p + 1, n)[i] = list[(p + 1) + i - 1]
    BY <2>1, SubSeqProperties
  <2> QED BY <1>1, <1>2, <2>2
<1>6. /\ shorter \in Seq(Subscriptions) /\ Len(shorter) = n - 1 /\ DOMAIN shorter = 1 .. n - 1
      /\ \A i \in 1 .. n - 1 : shorter[i] = IF i < p THEN list[i] ELSE list[i + 1]
  <2> DEFINE a == SubSeq(list, 1, p - 1)
             b == SubSeq(list, p + 1, n)
  <2>1. /\ a \in Seq(Subscriptions) /\ Len(a) = p - 1 /\ b \in Seq(Subscriptions)
        /\ Len(b) = n - p /\ shorter = a \o b
        /\ \A i \in 1 .. p - 1 : a[i] = list[i]
        /\ \A i \in 1 .. n - p : b[i] = list[p + i]
    BY <1>3, <1>4, <1>5
  <2> HIDE DEF a, b, shorter, n
  <2>2. /\ shorter \in Seq(Subscriptions) /\ Len(shorter) = (p - 1) + (n - p)
        /\ \A i \in 1 .. (p - 1) + (n - p) :
              shorter[i] = IF i <= p - 1 THEN a[i] ELSE b[i - (p - 1)]
    BY <2>1, ConcatProperties
  <2>3. (p - 1) + (n - p) = n - 1 /\ Len(shorter) = n - 1
    BY <1>1, <1>2, <2>2
  <2>4. DOMAIN shorter = 1 .. n - 1
    BY <2>2, <2>3, LenProperties
  <2>5. ASSUME NEW i \in 1 .. n - 1
        PROVE  shorter[i] = IF i < p THEN list[i] ELSE list[i + 1]
    <3>1. CASE i < p
      BY <1>1, <1>2, <2>1, <2>2, <2>3, <3>1
    <3>2. CASE ~(i < p)
      <4>1. ~(i <= p - 1) /\ i - (p - 1) \in 1 .. n - p /\ p + (i - (p - 1)) = i + 1
        BY <1>1, <1>2, <3>2
      <4> QED BY <2>1, <2>2, <2>3, <3>2, <4>1
    <3> QED BY <3>1, <3>2
  <2> QED BY <2>2, <2>3, <2>4, <2>5
<1> HIDE DEF shorter
\* Where a node of the shorter list was, and where one of the longer list went.
<1>7. \A i \in 1 .. n - 1 : \E k \in 1 .. n \ {p} :
         shorter[i] = list[k] /\ k = IF i < p THEN i ELSE i + 1
  BY <1>1, <1>2, <1>6
<1>8. \A k \in 1 .. n \ {p} : \E i \in 1 .. n - 1 :
         shorter[i] = list[k] /\ i = IF k < p THEN k ELSE k - 1
  <2> SUFFICES ASSUME NEW k \in 1 .. n, k # p
               PROVE  \E i \in 1 .. n - 1 : shorter[i] = list[k] /\ i = IF k < p THEN k ELSE k - 1
    OBVIOUS
  <2>1. CASE k < p
    BY <1>1, <1>2, <1>6, <2>1
  <2>2. CASE ~(k < p)
    <3>1. k - 1 \in 1 .. n - 1 /\ ~(k - 1 < p) /\ (k - 1) + 1 = k
      BY <1>1, <1>2, <2>2
    <3> QED BY <1>6, <2>2, <3>1
  <2> QED BY <2>1, <2>2
<1>9. Range(shorter) = Range(list) \ {s}
  <2>1. \A x : x \in Range(shorter) <=> \E i \in 1 .. n - 1 : shorter[i] = x
    BY <1>6 DEF Range
  <2>2. ASSUME NEW x \in Range(shorter) PROVE x \in Range(list) \ {s}
    <3>1. PICK i \in 1 .. n - 1 : shorter[i] = x
      BY <2>1
    <3>2. PICK k \in 1 .. n \ {p} : list[k] = x
      BY <1>7, <3>1
    <3> QED BY <1>1, <1>2, <3>2
  <2>3. ASSUME NEW x \in Range(list) \ {s} PROVE x \in Range(shorter)
    <3>1. PICK k \in 1 .. n : list[k] = x
      BY <1>1
    <3>2. k # p
      BY <1>2, <3>1
    <3>3. \E i \in 1 .. n - 1 : shorter[i] = x
      BY <1>8, <3>1, <3>2
    <3> QED BY <2>1, <3>3
  <2> QED BY <2>2, <2>3
<1>10. IsInjective(shorter)
  <2> SUFFICES ASSUME NEW i \in 1 .. n - 1, NEW j \in 1 .. n - 1, shorter[i] = shorter[j]
               PROVE  i = j
    BY <1>6 DEF IsInjective
  <2>1. PICK k \in 1 .. n \ {p} : shorter[i] = list[k] /\ k = IF i < p THEN i ELSE i + 1
    BY <1>7
  <2>2. PICK m \in 1 .. n \ {p} : shorter[j] = list[m] /\ m = IF j < p THEN j ELSE j + 1
    BY <1>7
  <2>3. k = m
    BY <1>1, <2>1, <2>2
  <2> QED BY <1>1, <1>2, <2>1, <2>2, <2>3
<1>11. IsList(shorter)
  BY <1>6, <1>10 DEF IsList
<1>12. ASSUME NEW c \in Range(list) \ {s}
       PROVE  Range(Behind(shorter, c)) = Range(Behind(list, c)) \ {s}
  <2>1. \A x : x \in Range(Behind(list, c)) <=> IsBehind(list, c, x)
    BY BehindNode
  <2>2. \A x : x \in Range(Behind(shorter, c)) <=> IsBehind(shorter, c, x)
    BY <1>9, <1>11, BehindNode
  <2>3. ASSUME NEW x, IsBehind(list, c, x), x # s PROVE IsBehind(shorter, c, x)
    <3>1. PICK i \in 1 .. n, j \in 1 .. n : i < j /\ list[i] = c /\ list[j] = x
      BY <1>1, <2>3 DEF IsBehind
    <3>2. i # p /\ j # p
      BY <1>2, <2>3, <3>1
    <3>3. PICK k \in 1 .. n - 1 : shorter[k] = c /\ k = IF i < p THEN i ELSE i - 1
      BY <1>8, <3>1, <3>2
    <3>4. PICK m \in 1 .. n - 1 : shorter[m] = x /\ m = IF j < p THEN j ELSE j - 1
      BY <1>8, <3>1, <3>2
    <3>5. k < m
      BY <1>1, <1>2, <3>1, <3>2, <3>3, <3>4
    <3> QED BY <1>6, <3>3, <3>4, <3>5 DEF IsBehind
  <2>4. ASSUME NEW x, IsBehind(shorter, c, x) PROVE IsBehind(list, c, x) /\ x # s
    <3>1. PICK i \in 1 .. n - 1, j \in 1 .. n - 1 : i < j /\ shorter[i] = c /\ shorter[j] = x
      BY <1>6, <2>4 DEF IsBehind
    <3>2. PICK k \in 1 .. n \ {p} : list[k] = c /\ k = IF i < p THEN i ELSE i + 1
      BY <1>7, <3>1
    <3>3. PICK m \in 1 .. n \ {p} : list[m] = x /\ m = IF j < p THEN j ELSE j + 1
      BY <1>7, <3>1
    <3>4. k < m
      BY <1>1, <1>2, <3>1, <3>2, <3>3
    <3>5. x # s
      BY <1>1, <1>2, <3>3
    <3> QED BY <1>1, <3>2, <3>3, <3>4, <3>5 DEF IsBehind
  <2> QED BY <2>1, <2>2, <2>3, <2>4
<1> QED BY <1>9, <1>11, <1>12 DEF shorter

-----------------------------------------------------------------------------
(***************************************************************************)
(* The running notifications, as each step leaves them.                    *)
(***************************************************************************)
LEMMA NoticeType ==
    \A n \in Notices :
        /\ n.kind \in Kinds
        /\ n.op = "wakeup" \/ (n.op \in {"added", "removed"} /\ n.kind \in SourceKinds
                               /\ n.source \in Sources)
BY KindsAssumption DEF Notices, SourceKinds

LEMMA CallsFacts ==
    ASSUME TypeOK
    PROVE  /\ Len(calls) \in Nat /\ DOMAIN calls = 1 .. Len(calls)
           /\ \A i \in 1 .. Len(calls) :
                 /\ calls[i] \in Frames
                 /\ calls[i].notice \in Notices /\ calls[i].notice.kind \in Kinds
                 /\ calls[i].cursor \in Subscriptions \cup {End}
           /\ calls # <<>> => Len(calls) \in 1 .. Len(calls) /\ Innermost = calls[Len(calls)]
           /\ calls = <<>> => Len(calls) = 0
<1>1. /\ calls \in Seq(Frames) /\ Len(calls) \in Nat /\ DOMAIN calls = 1 .. Len(calls)
      /\ \A i \in 1 .. Len(calls) : calls[i] \in Frames
  BY LenProperties, ElementOfSeq DEF TypeOK
<1>2. calls # <<>> => Len(calls) \in Nat \ {0}
  BY <1>1, EmptySeq
<1>3. \A f \in Frames : f.notice \in Notices /\ f.cursor \in Subscriptions \cup {End}
  BY DEF Frames
<1> QED BY <1>1, <1>2, <1>3, NoticeType DEF Innermost, Last

\* The innermost notification becomes another.
LEMMA TopFacts ==
    ASSUME TypeOK, calls # <<>>, NEW f \in Frames,
           calls' = [calls EXCEPT ![Len(calls)] = f]
    PROVE  /\ calls' \in Seq(Frames) /\ Len(calls') = Len(calls)
           /\ DOMAIN calls' = 1 .. Len(calls)
           /\ calls'[Len(calls)] = f
           /\ \A i \in 1 .. Len(calls) : i # Len(calls) => calls'[i] = calls[i]
<1>1. calls \in Seq(Frames) /\ Len(calls) \in 1 .. Len(calls)
  BY CallsFacts DEF TypeOK
<1>2. /\ calls' \in Seq(Frames) /\ Len(calls') = Len(calls)
      /\ \A i \in 1 .. Len(calls) : calls'[i] = IF i = Len(calls) THEN f ELSE calls[i]
  BY <1>1, ExceptSeq
<1>3. DOMAIN calls' = 1 .. Len(calls)
  BY <1>2, LenProperties
<1> QED BY <1>1, <1>2, <1>3

Called(f) == [f EXCEPT !.inCallback = TRUE]
Moved(f) == [f EXCEPT !.cursor = Successor(f.notice.kind, f.cursor), !.inCallback = FALSE]

LEMMA InvokeFacts ==
    ASSUME TypeOK, Invoke
    PROVE  /\ calls # <<>> /\ calls' = [calls EXCEPT ![Len(calls)] = Called(calls[Len(calls)])]
           /\ Called(calls[Len(calls)]) \in Frames
BY CallsFacts DEF Invoke, Called, Frames

LEMMA SuccessorType ==
    ASSUME TypeOK, NEW k \in Kinds, IsList(listeners[k]), NEW s \in Range(listeners[k])
    PROVE  /\ Successor(k, s) \in Range(listeners[k]) \cup {End}
           /\ Range(listeners[k]) \subseteq Subscriptions
<1>1. Successor(k, s) \in Range(listeners[k]) \cup {End}
  BY BehindNode DEF Successor
<1>2. Range(listeners[k]) \subseteq Subscriptions
  BY ListFacts
<1> QED BY <1>1, <1>2

LEMMA ReturnFacts ==
    ASSUME IteratorsValid, Return
    PROVE  LET top == calls[Len(calls)]
               k == top.notice.kind
           IN  /\ calls # <<>> /\ calls' = [calls EXCEPT ![Len(calls)] = Moved(top)]
               /\ k \in Kinds /\ top.cursor \in Range(listeners[k]) /\ IsList(listeners[k])
               /\ Moved(top) \in Frames /\ Moved(top).notice = top.notice
               /\ Moved(top).cursor = Successor(k, top.cursor)
               /\ Moved(top).cursor \in Range(listeners[k]) \cup {End}
               /\ Moved(top).inCallback = FALSE
<1> DEFINE top == calls[Len(calls)]
           k == top.notice.kind
<1>1. TypeOK /\ calls # <<>> /\ top.inCallback /\ Len(calls) \in 1 .. Len(calls)
      /\ Innermost = top /\ top \in Frames /\ k \in Kinds
  BY CallsFacts DEF IteratorsValid, Return
<1>2. IsList(listeners[k])
  BY <1>1 DEF IteratorsValid, TypeOK, IsList
<1>3. top.cursor \in Range(listeners[k])
  BY <1>1, CallsFacts DEF IteratorsValid
<1>4. calls' = [calls EXCEPT ![Len(calls)] = Moved(top)]
  <2>1. calls' = [calls EXCEPT ![Len(calls)].cursor = Successor(k, top.cursor),
                               ![Len(calls)].inCallback = FALSE]
    BY <1>1 DEF Return
  <2> QED BY <1>1, <2>1, CallsFacts DEF Moved
<1>5. Successor(k, top.cursor) \in Range(listeners[k]) \cup {End}
      /\ Range(listeners[k]) \subseteq Subscriptions
  BY <1>1, <1>2, <1>3, SuccessorType
<1>6. /\ Moved(top) \in Frames /\ Moved(top).notice = top.notice
      /\ Moved(top).cursor = Successor(k, top.cursor) /\ Moved(top).inCallback = FALSE
  BY <1>1, <1>5 DEF Moved, Frames
<1> QED BY <1>1, <1>2, <1>3, <1>4, <1>5, <1>6

\* A notification that starts.
Started(n) == [notice |-> n, cursor |-> First(listeners[n.kind]), inCallback |-> FALSE]

LEMMA NotifyFacts ==
    ASSUME IteratorsValid, NEW n \in Notices, Notify(n)
    PROVE  /\ n.kind \in Kinds /\ IsList(listeners[n.kind])
           /\ First(listeners[n.kind]) \in Range(listeners[n.kind]) \cup {End}
           /\ Started(n) \in Frames /\ calls' = Append(calls, Started(n))
           /\ calls' \in Seq(Frames) /\ Len(calls') = Len(calls) + 1
           /\ DOMAIN calls' = 1 .. Len(calls) + 1 /\ calls'[Len(calls) + 1] = Started(n)
           /\ \A i \in 1 .. Len(calls) : calls'[i] = calls[i]
<1>1. n.kind \in Kinds
  BY NoticeType
<1>2. IsList(listeners[n.kind])
  BY <1>1 DEF IteratorsValid, TypeOK, IsList
<1>3. First(listeners[n.kind]) \in Range(listeners[n.kind]) \cup {End}
      /\ Range(listeners[n.kind]) \subseteq Subscriptions
  BY <1>2, FirstFacts, ListFacts
<1>4. Started(n) \in Frames
  BY <1>3 DEF Started, Frames
<1>5. calls \in Seq(Frames) /\ calls' = Append(calls, Started(n))
  BY DEF IteratorsValid, TypeOK, Notify, Started
<1>6. /\ calls' \in Seq(Frames) /\ Len(calls') = Len(calls) + 1
      /\ \A i \in 1 .. Len(calls) : calls'[i] = calls[i]
      /\ calls'[Len(calls) + 1] = Started(n)
  BY <1>4, <1>5, AppendProperties
<1>7. DOMAIN calls' = 1 .. Len(calls) + 1
  BY <1>6, LenProperties
<1> QED BY <1>1, <1>2, <1>3, <1>4, <1>5, <1>6, <1>7

LEMMA EndFacts ==
    ASSUME TypeOK, EndNotification
    PROVE  /\ calls # <<>> /\ calls' \in Seq(Frames) /\ Len(calls') = Len(calls) - 1
           /\ DOMAIN calls' = 1 .. Len(calls) - 1
           /\ \A i \in 1 .. Len(calls) - 1 : calls'[i] = calls[i]
<1>1. /\ calls # <<>> /\ calls' = SubSeq(calls, 1, Len(calls) - 1)
      /\ Len(calls) \in Nat /\ Len(calls) >= 1
      /\ \A i \in 1 .. Len(calls) : calls[i] \in Frames
  BY CallsFacts DEF EndNotification, Front
<1> DEFINE m == Len(calls) - 1
<1>2. 1 \in Int /\ m \in Int /\ m - 1 + 1 = m /\ \A i \in 1 .. m : calls[i] \in Frames
  BY <1>1
<1>3. /\ calls' \in Seq(Frames) /\ Len(calls') = IF 1 <= m THEN m - 1 + 1 ELSE 0
      /\ \A i \in 1 .. m - 1 + 1 : calls'[i] = calls[1 + i - 1]
  <2> HIDE DEF m
  <2> QED BY <1>1, <1>2, SubSeqProperties DEF m
<1>4. Len(calls') = m /\ \A i \in 1 .. m : calls'[i] = calls[i]
  BY <1>1, <1>2, <1>3
<1>5. DOMAIN calls' = 1 .. m
  BY <1>3, <1>4, LenProperties
<1> QED BY <1>1, <1>3, <1>4, <1>5

-----------------------------------------------------------------------------
(***************************************************************************)
(* Iterators                                                               *)
(***************************************************************************)
\* A node is in one list.
Disjoint ==
    \A j, k \in Kinds : j # k => Range(listeners[j]) \cap Range(listeners[k]) = {}

StackInv == IteratorsValid /\ Disjoint

CallsValid ==
    \A i \in 1 .. Len(calls) :
        /\ calls[i].cursor \in Range(listeners[calls[i].notice.kind]) \cup {End}
        /\ calls[i].inCallback => calls[i].cursor # End
        /\ i < Len(calls) => calls[i].inCallback

\* What a subscription, and its end, do to the lists.
LEMMA SubscribeFacts ==
    ASSUME StackInv, NEW k \in Kinds, NEW s \in Subscriptions, Subscribe(k, s)
    PROVE  /\ IsList(listeners[k]) /\ s \notin Range(listeners[k])
           /\ listeners' \in [Kinds -> Seq(Subscriptions)]
           /\ listeners'[k] = Cons(s, listeners[k]) /\ IsList(listeners'[k])
           /\ Range(listeners'[k]) = Range(listeners[k]) \cup {s}
           /\ \A c \in Range(listeners[k]) :
                 Range(Behind(listeners'[k], c)) = Range(Behind(listeners[k], c))
           /\ \A j \in Kinds \ {k} : listeners'[j] = listeners[j] /\ s \notin Range(listeners[j])
<1>1. listeners \in [Kinds -> Seq(Subscriptions)] /\ IsList(listeners[k])
  BY DEF StackInv, IteratorsValid, TypeOK, IsList
<1>2. \A j \in Kinds : s \notin Range(listeners[j])
  BY DEF Subscribe, Subscribed
<1>3. /\ listeners'[k] = Cons(s, listeners[k])
      /\ \A j \in Kinds \ {k} : listeners'[j] = listeners[j]
      /\ listeners' = [listeners EXCEPT ![k] = Cons(s, listeners[k])]
  BY <1>1 DEF Subscribe, AtFront
<1>4. /\ IsList(Cons(s, listeners[k])) /\ Range(Cons(s, listeners[k])) = Range(listeners[k]) \cup {s}
      /\ \A c \in Range(listeners[k]) :
            Range(Behind(Cons(s, listeners[k]), c)) = Range(Behind(listeners[k], c))
  BY <1>1, <1>2, ConsFacts
<1>5. listeners' \in [Kinds -> Seq(Subscriptions)]
  BY <1>1, <1>3, <1>4 DEF IsList
<1> QED BY <1>1, <1>2, <1>3, <1>4, <1>5

LEMMA UnsubscribeFacts ==
    ASSUME StackInv, NEW k \in Kinds, NEW s \in Subscriptions, Unsubscribe(k, s)
    PROVE  /\ IsList(listeners[k]) /\ s \in Range(listeners[k])
           /\ listeners' \in [Kinds -> Seq(Subscriptions)]
           /\ IsList(listeners'[k]) /\ Range(listeners'[k]) = Range(listeners[k]) \ {s}
           /\ \A c \in Range(listeners[k]) \ {s} :
                 Range(Behind(listeners'[k], c)) = Range(Behind(listeners[k], c)) \ {s}
           /\ \A j \in Kinds \ {k} : listeners'[j] = listeners[j] /\ s \notin Range(listeners[j])
           /\ \A i \in 1 .. Len(calls) : calls[i].cursor # s
<1>1. listeners \in [Kinds -> Seq(Subscriptions)] /\ IsList(listeners[k]) /\ TypeOK
  BY DEF StackInv, IteratorsValid, TypeOK, IsList
<1>2. s \in Range(listeners[k])
  BY DEF Unsubscribe
<1>3. /\ listeners'[k] = RemoveFirst(listeners[k], s)
      /\ \A j \in Kinds \ {k} : listeners'[j] = listeners[j]
      /\ listeners' = [listeners EXCEPT ![k] = RemoveFirst(listeners[k], s)]
  BY <1>1 DEF Unsubscribe, Erased
<1>4. /\ IsList(RemoveFirst(listeners[k], s))
      /\ Range(RemoveFirst(listeners[k], s)) = Range(listeners[k]) \ {s}
      /\ \A c \in Range(listeners[k]) \ {s} :
            Range(Behind(RemoveFirst(listeners[k], s), c)) = Range(Behind(listeners[k], c)) \ {s}
  BY <1>1, <1>2, EraseFacts
<1>5. listeners' \in [Kinds -> Seq(Subscriptions)]
  BY <1>1, <1>3, <1>4 DEF IsList
<1>6. \A j \in Kinds \ {k} : s \notin Range(listeners[j])
  BY <1>2 DEF StackInv, Disjoint
<1>7. \A i \in 1 .. Len(calls) : calls[i].cursor # s
  BY <1>1, CallsFacts DEF Unsubscribe, IsCalled
<1> QED BY <1>1, <1>2, <1>3, <1>4, <1>5, <1>6, <1>7

LEMMA InitStack == Init => StackInv
<1> SUFFICES ASSUME Init PROVE StackInv
  OBVIOUS
<1>1. /\ \A k \in Kinds : listeners[k] = <<>>
      /\ listeners \in [Kinds -> Seq(Subscriptions)]
      /\ calls = <<>> /\ calls \in Seq(Frames) /\ Len(calls) = 0 /\ DOMAIN calls = {}
  BY EmptySeq DEF Init
<1>2. Range(<<>>) = {} /\ IsInjective(<<>>)
  BY DEF Range, IsInjective
<1>3. TypeOK
  BY <1>1, MaxDepthAssumption DEF Init, TypeOK
<1> QED BY <1>1, <1>2, <1>3 DEF StackInv, IteratorsValid, Disjoint

LEMMA NextStack == StackInv /\ [Next]_vars => StackInv'
<1> SUFFICES ASSUME StackInv, [Next]_vars PROVE StackInv'
  OBVIOUS
<1>0. /\ IteratorsValid /\ TypeOK /\ Disjoint /\ CallsValid
      /\ Len(calls) \in Nat /\ DOMAIN calls = 1 .. Len(calls) /\ Len(calls) <= MaxDepth
      /\ \A i \in 1 .. Len(calls) : calls[i].notice.kind \in Kinds
      /\ \A k \in Kinds : IsList(listeners[k])
  BY CallsFacts DEF StackInv, IteratorsValid, TypeOK, CallsValid, IsList
<1>1. ASSUME TypeOK', DOMAIN calls' = 1 .. Len(calls'), CallsValid', Disjoint',
             \A k \in Kinds : IsInjective(listeners'[k])
      PROVE  StackInv'
  BY <1>1 DEF StackInv, IteratorsValid, CallsValid
<1>2. ASSUME NEW k \in Kinds, NEW s \in Subscriptions, Subscribe(k, s) PROVE StackInv'
  <2>1. /\ listeners' \in [Kinds -> Seq(Subscriptions)] /\ IsList(listeners'[k])
        /\ Range(listeners'[k]) = Range(listeners[k]) \cup {s}
        /\ \A j \in Kinds \ {k} : listeners'[j] = listeners[j] /\ s \notin Range(listeners[j])
    BY <1>2, SubscribeFacts
  <2>2. UNCHANGED <<calls, registered, overlapped>>
    BY <1>2 DEF Subscribe
  <2>3. mirror' \in [Subscriptions -> SUBSET Sources] /\ missed' \in [Subscriptions -> SUBSET Sources]
    BY <1>0, <1>2 DEF Subscribe, TypeOK, SourceKinds
  <2>4. TypeOK'
    BY <1>0, <2>1, <2>2, <2>3 DEF TypeOK
  <2>5. Disjoint'
    <3> SUFFICES ASSUME NEW i \in Kinds, NEW j \in Kinds, i # j,
                        NEW x \in Range(listeners'[i]) \cap Range(listeners'[j])
                 PROVE  FALSE
      BY DEF Disjoint
    <3>1. Range(listeners[i]) \cap Range(listeners[j]) = {}
      BY <1>0 DEF Disjoint
    <3>2. i \notin {k} \/ j \notin {k}
      OBVIOUS
    <3> QED BY <2>1, <3>1, <3>2
  <2>6. \A j \in Kinds : IsInjective(listeners'[j])
    BY <1>0, <2>1 DEF IsList
  <2>7. \A j \in Kinds : Range(listeners[j]) \subseteq Range(listeners'[j])
    BY <2>1
  <2>8. CallsValid'
    BY <1>0, <2>2, <2>7 DEF CallsValid
  <2> QED BY <1>0, <1>1, <2>2, <2>4, <2>5, <2>6, <2>8
<1>3. ASSUME NEW k \in Kinds, NEW s \in Subscriptions, Unsubscribe(k, s) PROVE StackInv'
  <2>1. /\ listeners' \in [Kinds -> Seq(Subscriptions)] /\ IsList(listeners'[k])
        /\ Range(listeners'[k]) = Range(listeners[k]) \ {s}
        /\ \A j \in Kinds \ {k} : listeners'[j] = listeners[j] /\ s \notin Range(listeners[j])
        /\ \A i \in 1 .. Len(calls) : calls[i].cursor # s
    BY <1>3, UnsubscribeFacts
  <2>2. UNCHANGED <<calls, registered, overlapped>>
    BY <1>3 DEF Unsubscribe
  <2>3. mirror' \in [Subscriptions -> SUBSET Sources] /\ missed' \in [Subscriptions -> SUBSET Sources]
    BY <1>0, <1>3 DEF Unsubscribe, TypeOK
  <2>4. TypeOK'
    BY <1>0, <2>1, <2>2, <2>3 DEF TypeOK
  <2>5. Disjoint'
    <3> SUFFICES ASSUME NEW i \in Kinds, NEW j \in Kinds, i # j,
                        NEW x \in Range(listeners'[i]) \cap Range(listeners'[j])
                 PROVE  FALSE
      BY DEF Disjoint
    <3>1. Range(listeners[i]) \cap Range(listeners[j]) = {}
      BY <1>0 DEF Disjoint
    <3>2. i \notin {k} \/ j \notin {k}
      OBVIOUS
    <3> QED BY <2>1, <3>1, <3>2
  <2>6. \A j \in Kinds : IsInjective(listeners'[j])
    BY <1>0, <2>1 DEF IsList
  <2>7. \A j \in Kinds : Range(listeners[j]) \ {s} \subseteq Range(listeners'[j])
    BY <2>1
  <2>8. CallsValid'
    BY <1>0, <2>1, <2>2, <2>7 DEF CallsValid
  <2> QED BY <1>0, <1>1, <2>2, <2>4, <2>5, <2>6, <2>8
<1>4. ASSUME NEW n \in Notices, Notify(n) PROVE StackInv'
  <2>1. /\ First(listeners[n.kind]) \in Range(listeners[n.kind]) \cup {End}
        /\ calls' \in Seq(Frames) /\ Len(calls') = Len(calls) + 1
        /\ DOMAIN calls' = 1 .. Len(calls) + 1 /\ calls'[Len(calls) + 1] = Started(n)
        /\ \A i \in 1 .. Len(calls) : calls'[i] = calls[i]
    BY <1>0, <1>4, NotifyFacts
  <2>2. listeners' = listeners /\ mirror' = mirror /\ Len(calls) < MaxDepth /\ MayCall
    BY <1>4 DEF Notify
  <2>3. registered' \in [SourceKinds -> SUBSET Sources]
    BY <1>0, <1>4, NoticeType DEF Notify, RegisteredAfter, TypeOK
  <2>4. missed' \in [Subscriptions -> SUBSET Sources]
    BY <1>0, <1>4 DEF Notify, MissedAfter, TypeOK
  <2>5. overlapped' \subseteq SourceKinds \X Sources
    BY <1>0, <1>4, NoticeType DEF Notify, Overlaps, TypeOK
  <2>6. TypeOK'
    BY <1>0, <2>1, <2>2, <2>3, <2>4, <2>5, MaxDepthAssumption DEF TypeOK
  <2>7. \A i \in 1 .. Len(calls) : i = Len(calls) => calls[i].inCallback
    BY <1>0, <2>2, CallsFacts DEF MayCall
  <2>8. CallsValid'
    <3> SUFFICES ASSUME NEW i \in 1 .. Len(calls) + 1
                 PROVE  /\ calls'[i].cursor \in Range(listeners[calls'[i].notice.kind]) \cup {End}
                        /\ calls'[i].inCallback => calls'[i].cursor # End
                        /\ i < Len(calls) + 1 => calls'[i].inCallback
      BY <2>1, <2>2 DEF CallsValid
    <3>1. CASE i = Len(calls) + 1
      BY <2>1, <3>1 DEF Started
    <3>2. CASE i # Len(calls) + 1
      <4>1. i \in 1 .. Len(calls) /\ (i < Len(calls) \/ i = Len(calls))
        <5>1. Len(calls) \in Nat
          BY <1>0
        <5> QED BY <3>2, <5>1
      <4> QED BY <1>0, <2>1, <2>7, <4>1 DEF CallsValid
    <3> QED BY <3>1, <3>2
  <2> QED BY <1>0, <1>1, <2>1, <2>2, <2>6, <2>8 DEF Disjoint, IsList
<1>5. ASSUME Invoke PROVE StackInv'
  <2> DEFINE top == calls[Len(calls)]
  <2>1. /\ calls # <<>> /\ Len(calls) \in 1 .. Len(calls)
        /\ top \in Frames /\ top.cursor # End
        /\ UNCHANGED <<listeners, registered, missed, overlapped>>
        /\ mirror' = Heard(top.cursor, top.notice)
    BY <1>0, <1>5, CallsFacts DEF Invoke
  <2>2. /\ calls' \in Seq(Frames) /\ Len(calls') = Len(calls)
        /\ DOMAIN calls' = 1 .. Len(calls) /\ calls'[Len(calls)] = Called(top)
        /\ \A i \in 1 .. Len(calls) : i # Len(calls) => calls'[i] = calls[i]
    BY <1>0, <1>5, InvokeFacts, TopFacts
  <2>3. mirror' \in [Subscriptions -> SUBSET Sources]
    <3>1. top.notice \in Notices
      BY <2>1 DEF Frames
    <3> QED BY <1>0, <2>1, <3>1, NoticeType DEF Heard, TypeOK
  <2>4. TypeOK'
    BY <1>0, <2>1, <2>2, <2>3 DEF TypeOK
  <2>5. /\ Called(top).cursor = top.cursor /\ Called(top).notice = top.notice
        /\ Called(top).inCallback = TRUE
    BY <2>1 DEF Called, Frames
  <2>6. CallsValid'
    BY <1>0, <2>1, <2>2, <2>5 DEF CallsValid
  <2> QED BY <1>0, <1>1, <2>1, <2>2, <2>4, <2>6 DEF Disjoint, IsList
<1>6. ASSUME Return PROVE StackInv'
  <2> DEFINE top == calls[Len(calls)]
  <2>1. /\ calls # <<>> /\ calls' = [calls EXCEPT ![Len(calls)] = Moved(top)]
        /\ Moved(top) \in Frames /\ Moved(top).notice = top.notice
        /\ Moved(top).cursor \in Range(listeners[top.notice.kind]) \cup {End}
        /\ Moved(top).inCallback = FALSE
    BY <1>0, <1>6, ReturnFacts
  <2>2. /\ calls' \in Seq(Frames) /\ Len(calls') = Len(calls)
        /\ DOMAIN calls' = 1 .. Len(calls) /\ calls'[Len(calls)] = Moved(top)
        /\ \A i \in 1 .. Len(calls) : i # Len(calls) => calls'[i] = calls[i]
    BY <1>0, <2>1, TopFacts
  <2>3. UNCHANGED <<listeners, registered, mirror, missed, overlapped>>
    BY <1>6 DEF Return
  <2>4. TypeOK'
    BY <1>0, <2>2, <2>3 DEF TypeOK
  <2>5. CallsValid'
    <3> SUFFICES ASSUME NEW i \in 1 .. Len(calls)
                 PROVE  /\ calls'[i].cursor \in Range(listeners[calls'[i].notice.kind]) \cup {End}
                        /\ calls'[i].inCallback => calls'[i].cursor # End
                        /\ i < Len(calls) => calls'[i].inCallback
      BY <2>2, <2>3 DEF CallsValid
    <3>1. CASE i = Len(calls)
      <4>1. calls'[i] = Moved(top) /\ ~(i < Len(calls))
        <5>1. Len(calls) \in Nat
          BY <1>0
        <5>2. ~(i < Len(calls))
          BY <3>1, <5>1
        <5> QED BY <2>2, <3>1, <5>2
      <4> HIDE DEF top
      <4> QED BY <2>1, <4>1
    <3>2. CASE i # Len(calls)
      BY <1>0, <2>2, <3>2 DEF CallsValid
    <3> QED BY <3>1, <3>2
  <2> QED BY <1>0, <1>1, <2>2, <2>3, <2>4, <2>5 DEF Disjoint, IsList
<1>7. ASSUME EndNotification PROVE StackInv'
  <2>1. /\ calls' \in Seq(Frames) /\ Len(calls') = Len(calls) - 1
        /\ DOMAIN calls' = 1 .. Len(calls) - 1
        /\ \A i \in 1 .. Len(calls) - 1 : calls'[i] = calls[i]
    BY <1>0, <1>7, EndFacts
  <2>2. UNCHANGED <<listeners, registered, mirror, missed, overlapped>>
    BY <1>7 DEF EndNotification
  <2>3. TypeOK'
    BY <1>0, <2>1, <2>2, MaxDepthAssumption DEF TypeOK
  <2>4. \A i \in 1 .. Len(calls) - 1 : i \in 1 .. Len(calls) /\ i < Len(calls)
    BY <1>0
  <2>5. CallsValid'
    BY <1>0, <2>1, <2>2, <2>4 DEF CallsValid
  <2> QED BY <1>0, <1>1, <2>1, <2>2, <2>3, <2>5 DEF Disjoint, IsList
<1>8. CASE UNCHANGED vars
  BY <1>0, <1>8 DEF vars, StackInv, IteratorsValid, TypeOK, Disjoint
<1> QED BY <1>2, <1>3, <1>4, <1>5, <1>6, <1>7, <1>8 DEF Next

\* However notifications nest and callbacks subscribe and unsubscribe others, every
\* iterator that is in use stays on a node of its list, or at its end.
THEOREM IteratorsStayValid == Spec => []IteratorsValid
<1>1. StackInv => IteratorsValid
  BY DEF StackInv
<1> QED BY <1>1, InitStack, NextStack, PTL DEF Spec

-----------------------------------------------------------------------------
(***************************************************************************)
(* Refinement: what a notification has yet to call, before and after a     *)
(* step.  ls and cs stand for the lists and the calls, unprimed or primed. *)
(***************************************************************************)
OwedOf(ls, f) ==
    IF f.cursor = End THEN {}
    ELSE Range(Behind(ls[f.notice.kind], f.cursor)) \cup (IF f.inCallback THEN {} ELSE {f.cursor})

OwingOf(ls, cs) == [i \in DOMAIN cs |-> [kind |-> cs[i].notice.kind, owed |-> OwedOf(ls, cs[i])]]

ListsAndCalls(ls, cs) ==
    /\ ls \in [Kinds -> Seq(Subscriptions)] /\ \A k \in Kinds : IsList(ls[k])
    /\ cs \in Seq(Frames)
    /\ \A i \in 1 .. Len(cs) : cs[i].cursor \in Range(ls[cs[i].notice.kind]) \cup {End}

LEMMA OwingFacts ==
    ASSUME NEW ls, NEW cs, ListsAndCalls(ls, cs)
    PROVE  LET owing == OwingOf(ls, cs)
           IN  /\ owing \in Seq(Promise!Notifications) /\ Len(owing) = Len(cs)
               /\ DOMAIN owing = 1 .. Len(cs) /\ Len(cs) \in Nat
               /\ \A i \in 1 .. Len(cs) :
                     owing[i] = [kind |-> cs[i].notice.kind, owed |-> OwedOf(ls, cs[i])]
<1> DEFINE owing == OwingOf(ls, cs)
           n == Len(cs)
<1>1. n \in Nat /\ DOMAIN cs = 1 .. n /\ \A i \in 1 .. n : cs[i] \in Frames
  BY LenProperties, ElementOfSeq DEF ListsAndCalls
<1>2. /\ DOMAIN owing = 1 .. n /\ owing = [i \in 1 .. n |-> owing[i]]
      /\ \A i \in 1 .. n :
            owing[i] = [kind |-> cs[i].notice.kind, owed |-> OwedOf(ls, cs[i])]
  BY <1>1 DEF OwingOf
<1>3. ASSUME NEW i \in 1 .. n PROVE owing[i] \in Promise!Notifications
  <2>1. cs[i].notice \in Notices /\ cs[i].notice.kind \in Kinds
    BY <1>1, NoticeType DEF Frames
  <2>2. OwedOf(ls, cs[i]) \subseteq Range(ls[cs[i].notice.kind])
    BY <2>1, BehindNode DEF OwedOf, ListsAndCalls
  <2>3. Range(ls[cs[i].notice.kind]) \subseteq Subscriptions
    BY <2>1, ListFacts DEF ListsAndCalls
  <2> QED BY <1>2, <2>1, <2>2, <2>3 DEF Promise!Notifications
<1> HIDE DEF owing, n
<1>4. owing \in [1 .. n -> Promise!Notifications]
  BY <1>2, <1>3
<1>5. owing \in Seq(Promise!Notifications)
  BY <1>1, <1>4, SeqDef
<1>6. Len(owing) = n
  BY <1>1, <1>2, <1>5, LenProperties
<1> QED BY <1>1, <1>2, <1>5, <1>6 DEF owing, n

LEMMA Mapped ==
    ASSUME StackInv, StackInv'
    PROVE  /\ Owing = OwingOf(listeners, calls) /\ Owing' = OwingOf(listeners', calls')
           /\ Live = [k \in Kinds |-> Range(listeners[k])]
           /\ Live' = [k \in Kinds |-> Range(listeners'[k])]
           /\ ListsAndCalls(listeners, calls) /\ ListsAndCalls(listeners', calls')
<1>1. Owing = OwingOf(listeners, calls) /\ Owing' = OwingOf(listeners', calls')
  BY DEF Owing, OwingOf, Owed, OwedOf
<1>2. ListsAndCalls(listeners, calls)
  BY LenProperties DEF StackInv, IteratorsValid, TypeOK, ListsAndCalls, IsList
<1>3. ListsAndCalls(listeners', calls')
  BY LenProperties DEF StackInv, IteratorsValid, TypeOK, ListsAndCalls, IsList
<1> QED BY <1>1, <1>2, <1>3 DEF Live

\* Calls that owe the same are the same abstract notifications.
LEMMA SameOwing ==
    ASSUME NEW ls, NEW cs, NEW ms, NEW ds, ListsAndCalls(ls, cs), ListsAndCalls(ms, ds),
           Len(ds) = Len(cs),
           \A i \in 1 .. Len(cs) : ds[i].notice = cs[i].notice
                                   /\ OwedOf(ms, ds[i]) = OwedOf(ls, cs[i])
    PROVE  OwingOf(ms, ds) = OwingOf(ls, cs)
<1>1. DOMAIN cs = 1 .. Len(cs) /\ DOMAIN ds = 1 .. Len(cs)
  BY LenProperties DEF ListsAndCalls
<1> QED BY <1>1 DEF OwingOf

LEMMA OwedFacts ==
    ASSUME StackInv
    PROVE  /\ TypeOK /\ Len(calls) \in Nat
           /\ calls # <<>> => Len(calls) \in 1 .. Len(calls)
           /\ \A k \in Kinds : IsList(listeners[k])
           /\ \A i \in 1 .. Len(calls) :
                 /\ calls[i] \in Frames /\ calls[i].notice \in Notices
                 /\ calls[i].notice.kind \in Kinds
                 /\ calls[i].cursor \in Range(listeners[calls[i].notice.kind]) \cup {End}
                 /\ OwedOf(listeners, calls[i]) \subseteq Range(listeners[calls[i].notice.kind])
<1>1. /\ TypeOK /\ DOMAIN calls = 1 .. Len(calls)
      /\ \A k \in Kinds : IsList(listeners[k])
  BY CallsFacts DEF StackInv, IteratorsValid, TypeOK, IsList
<1>2. \A i \in 1 .. Len(calls) :
          /\ calls[i] \in Frames /\ calls[i].notice \in Notices
          /\ calls[i].notice.kind \in Kinds
          /\ calls[i].cursor \in Range(listeners[calls[i].notice.kind]) \cup {End}
  BY <1>1, CallsFacts DEF StackInv, IteratorsValid
<1>3. \A i \in 1 .. Len(calls) :
          OwedOf(listeners, calls[i]) \subseteq Range(listeners[calls[i].notice.kind])
  BY <1>1, <1>2, BehindNode DEF OwedOf
<1> QED BY <1>1, <1>2, <1>3, CallsFacts

\* What the running notifications owe after each step.
LEMMA SubscribeOwed ==
    ASSUME StackInv, NEW k \in Kinds, NEW s \in Subscriptions, Subscribe(k, s)
    PROVE  /\ calls' = calls
           /\ \A i \in 1 .. Len(calls) :
                 OwedOf(listeners', calls[i]) = OwedOf(listeners, calls[i])
<1>1. /\ \A c \in Range(listeners[k]) :
            Range(Behind(listeners'[k], c)) = Range(Behind(listeners[k], c))
      /\ \A j \in Kinds \ {k} : listeners'[j] = listeners[j]
  BY SubscribeFacts
<1>2. calls' = calls
  BY DEF Subscribe
<1> QED BY <1>1, <1>2, OwedFacts DEF OwedOf

LEMMA UnsubscribeOwed ==
    ASSUME StackInv, NEW k \in Kinds, NEW s \in Subscriptions, Unsubscribe(k, s)
    PROVE  /\ calls' = calls
           /\ \A i \in 1 .. Len(calls) :
                 OwedOf(listeners', calls[i]) = OwedOf(listeners, calls[i]) \ {s}
<1>1. /\ \A c \in Range(listeners[k]) \ {s} :
            Range(Behind(listeners'[k], c)) = Range(Behind(listeners[k], c)) \ {s}
      /\ \A j \in Kinds \ {k} : listeners'[j] = listeners[j] /\ s \notin Range(listeners[j])
      /\ \A i \in 1 .. Len(calls) : calls[i].cursor # s
  BY UnsubscribeFacts
<1>2. calls' = calls
  BY DEF Unsubscribe
<1>3. ASSUME NEW i \in 1 .. Len(calls)
      PROVE  OwedOf(listeners', calls[i]) = OwedOf(listeners, calls[i]) \ {s}
  <2> DEFINE c == calls[i].cursor
             j == calls[i].notice.kind
  <2>1. c # s /\ j \in Kinds /\ c \in Range(listeners[j]) \cup {End} /\ IsList(listeners[j])
    BY <1>1, OwedFacts
  <2>2. CASE c = End
    BY <2>2 DEF OwedOf
  <2>3. CASE c # End /\ j = k
    <3>1. Range(Behind(listeners'[j], c)) = Range(Behind(listeners[j], c)) \ {s}
      BY <1>1, <2>1, <2>3
    <3> QED BY <2>1, <2>3, <3>1 DEF OwedOf
  <2>4. CASE c # End /\ j # k
    <3>1. listeners'[j] = listeners[j] /\ s \notin Range(listeners[j])
      BY <1>1, <2>1, <2>4
    <3>2. Range(Behind(listeners[j], c)) \subseteq Range(listeners[j])
      BY <2>1, <2>4, BehindNode
    <3> QED BY <2>1, <2>4, <3>1, <3>2 DEF OwedOf
  <2> QED BY <2>2, <2>3, <2>4
<1> QED BY <1>2, <1>3

LEMMA StartedOwed ==
    ASSUME StackInv, NEW n \in Notices, Notify(n)
    PROVE  OwedOf(listeners, Started(n)) = Range(listeners[n.kind])
<1>1. IsList(listeners[n.kind])
  BY NotifyFacts DEF StackInv
<1> QED BY <1>1, FirstFacts DEF OwedOf, Started

LEMMA InvokeOwed ==
    ASSUME StackInv, Invoke
    PROVE  LET n == Len(calls)
               top == calls[n]
               rest == OwedOf(listeners', calls'[n])
           IN  /\ calls # <<>> /\ listeners' = listeners /\ Len(calls') = n
               /\ top.cursor \in Subscriptions /\ top.cursor \in Range(listeners[top.notice.kind])
               /\ top.cursor \notin rest
               /\ OwedOf(listeners, top) = rest \cup {top.cursor}
               /\ calls'[n].notice = top.notice
               /\ \A i \in 1 .. n : i # n => calls'[i] = calls[i]
<1> DEFINE n == Len(calls)
           top == calls[n]
<1>1. /\ calls # <<>> /\ top.cursor # End /\ ~top.inCallback /\ n \in 1 .. n
      /\ listeners' = listeners /\ TypeOK
  BY OwedFacts, CallsFacts DEF Invoke
<1>2. top \in Frames /\ top.notice.kind \in Kinds /\ IsList(listeners[top.notice.kind])
      /\ top.cursor \in Range(listeners[top.notice.kind])
  BY <1>1, OwedFacts
<1>3. /\ Len(calls') = n /\ calls'[n] = Called(top)
      /\ \A i \in 1 .. n : i # n => calls'[i] = calls[i]
  BY <1>1, InvokeFacts, TopFacts
<1>4. /\ Called(top).cursor = top.cursor /\ Called(top).notice = top.notice
      /\ Called(top).inCallback = TRUE
  BY <1>2 DEF Called, Frames
<1> DEFINE rest == Range(Behind(listeners[top.notice.kind], top.cursor))
<1>5. top.cursor \in Subscriptions /\ top.cursor \notin rest
  BY <1>2, BehindNode, ListFacts
<1>6. OwedOf(listeners, top) = rest \cup {top.cursor} /\ OwedOf(listeners, Called(top)) = rest
  BY <1>1, <1>4 DEF OwedOf
<1> HIDE DEF top, rest
<1> QED BY <1>1, <1>2, <1>3, <1>4, <1>5, <1>6 DEF top

LEMMA ReturnOwed ==
    ASSUME StackInv, Return
    PROVE  /\ listeners' = listeners /\ Len(calls') = Len(calls)
           /\ \A i \in 1 .. Len(calls) :
                 /\ calls'[i].notice = calls[i].notice
                 /\ OwedOf(listeners', calls'[i]) = OwedOf(listeners, calls[i])
<1> DEFINE n == Len(calls)
           top == calls[n]
           k == top.notice.kind
           next == Successor(k, top.cursor)
<1>1. /\ calls # <<>> /\ calls' = [calls EXCEPT ![n] = Moved(top)] /\ TypeOK
      /\ k \in Kinds /\ top.cursor \in Range(listeners[k]) /\ IsList(listeners[k])
      /\ Moved(top) \in Frames /\ Moved(top).notice = top.notice
      /\ Moved(top).cursor = next /\ Moved(top).inCallback = FALSE
  <2> HIDE DEF next
  <2>1. IteratorsValid /\ TypeOK
    BY OwedFacts DEF StackInv
  <2> QED BY <2>1, ReturnFacts DEF next
<1>2. /\ Len(calls') = n /\ calls'[n] = Moved(top)
      /\ \A i \in 1 .. n : i # n => calls'[i] = calls[i]
  BY <1>1, TopFacts
<1>3. listeners' = listeners /\ top.inCallback
  BY <1>1, CallsFacts DEF Return
<1>4. top.cursor # End
  BY <1>1, EndAssumption, ListFacts
<1>5. OwedOf(listeners, top) = Range(Behind(listeners[k], top.cursor))
  BY <1>3, <1>4 DEF OwedOf
<1>6. OwedOf(listeners, Moved(top)) = Range(Behind(listeners[k], top.cursor))
  <2>1. OwedOf(listeners, Moved(top)) =
          IF next = End THEN {} ELSE Range(Behind(listeners[k], next)) \cup {next}
    <3> HIDE DEF next
    <3> QED BY <1>1 DEF OwedOf
  <2>2. /\ next = End => Range(Behind(listeners[k], top.cursor)) = {}
        /\ next # End => Range(Behind(listeners[k], top.cursor))
                          = Range(Behind(listeners[k], next)) \cup {next}
    BY <1>1, BehindNode DEF Successor
  <2> QED BY <2>1, <2>2
<1> HIDE DEF next
<1> QED BY <1>1, <1>2, <1>3, <1>5, <1>6

LEMMA StepRefines ==
    ASSUME StackInv, StackInv', [Next]_vars
    PROVE  [Promise!Next]_<<Live, Owing>>
<1> DEFINE n == Len(calls)
           top == calls[n]
<1>0. /\ Owing = OwingOf(listeners, calls) /\ Owing' = OwingOf(listeners', calls')
      /\ Live = [k \in Kinds |-> Range(listeners[k])]
      /\ Live' = [k \in Kinds |-> Range(listeners'[k])]
      /\ ListsAndCalls(listeners, calls) /\ ListsAndCalls(listeners', calls')
  BY Mapped
<1>1. /\ n \in Nat /\ DOMAIN calls = 1 .. n
      /\ \A i \in 1 .. n : calls[i] \in Frames /\ calls[i].notice.kind \in Kinds
      /\ calls # <<>> => n \in 1 .. n /\ Innermost = top
      /\ IteratorsValid /\ TypeOK
      /\ \A k \in Kinds : IsList(listeners[k])
  BY <1>0, CallsFacts DEF StackInv, IteratorsValid, ListsAndCalls
<1>2. /\ Owing \in Seq(Promise!Notifications) /\ Len(Owing) = n /\ DOMAIN Owing = 1 .. n
      /\ \A i \in 1 .. n :
            Owing[i] = [kind |-> calls[i].notice.kind, owed |-> OwedOf(listeners, calls[i])]
  BY <1>0, OwingFacts
<1>3. /\ Owing' \in Seq(Promise!Notifications) /\ Len(Owing') = Len(calls')
      /\ DOMAIN Owing' = 1 .. Len(calls')
      /\ \A i \in 1 .. Len(calls') : Owing'[i] =
            [kind |-> calls'[i].notice.kind, owed |-> OwedOf(listeners', calls'[i])]
  BY <1>0, OwingFacts
<1>4. \A i \in 1 .. n : calls[i].cursor \in Range(listeners[calls[i].notice.kind]) \cup {End}
  BY <1>0 DEF ListsAndCalls
<1>5. Promise!Innermost = Owing[Len(Owing)]
  BY DEF Promise!Innermost
<1> HIDE DEF n, top
<1>6. ASSUME NEW k \in Kinds, NEW s \in Subscriptions, Subscribe(k, s)
      PROVE  Promise!Subscribe(k, s)
  <2>1. /\ Range(listeners'[k]) = Range(listeners[k]) \cup {s} /\ s \notin Range(listeners[k])
        /\ \A j \in Kinds \ {k} : listeners'[j] = listeners[j] /\ s \notin Range(listeners[j])
    BY <1>6, SubscribeFacts
  <2>2. calls' = calls
        /\ \A i \in 1 .. n : OwedOf(listeners', calls[i]) = OwedOf(listeners, calls[i])
    BY <1>6, SubscribeOwed DEF n
  <2>4. Owing' = Owing
    BY <1>0, <2>2, SameOwing DEF n
  <2>5. Live' = [Live EXCEPT ![k] = @ \cup {s}] /\ \A j \in Kinds : s \notin Live[j]
    <3>1. \A j \in Kinds : s \notin Live[j]
      BY <1>0, <2>1
    <3>2. /\ \A j \in Kinds : Range(listeners'[j]) =
                IF j = k THEN Range(listeners[j]) \cup {s} ELSE Range(listeners[j])
      BY <2>1
    <3>3. Live' = [j \in Kinds |-> IF j = k THEN Live[j] \cup {s} ELSE Live[j]]
      BY <1>0, <3>2
    <3>4. Live = [j \in Kinds |-> Live[j]]
      BY <1>0
    <3> QED BY <3>1, <3>3, <3>4
  <2> QED BY <2>4, <2>5 DEF Promise!Subscribe
<1>7. ASSUME NEW k \in Kinds, NEW s \in Subscriptions, Unsubscribe(k, s)
      PROVE  Promise!Unsubscribe(k, s)
  <2>1. /\ Range(listeners'[k]) = Range(listeners[k]) \ {s} /\ s \in Range(listeners[k])
        /\ \A j \in Kinds \ {k} : listeners'[j] = listeners[j] /\ s \notin Range(listeners[j])
    BY <1>7, UnsubscribeFacts
  <2>2. calls' = calls
    BY <1>7, UnsubscribeOwed
  <2>3. \A i \in 1 .. n : OwedOf(listeners', calls[i]) = OwedOf(listeners, calls[i]) \ {s}
    BY <1>7, UnsubscribeOwed DEF n
  <2>4. Owing' = [i \in DOMAIN Owing |-> [Owing[i] EXCEPT !.owed = @ \ {s}]]
    <3>1. DOMAIN Owing' = DOMAIN Owing
      BY <1>2, <1>3, <2>2 DEF n
    <3>2. ASSUME NEW i \in DOMAIN Owing
          PROVE  Owing'[i] = [Owing[i] EXCEPT !.owed = @ \ {s}]
      <4>1. i \in 1 .. n /\ i \in 1 .. Len(calls')
        BY <1>2, <2>2 DEF n
      <4>2. Owing[i] = [kind |-> calls[i].notice.kind, owed |-> OwedOf(listeners, calls[i])]
        BY <1>2, <4>1
      <4>3. Owing'[i] = [kind |-> calls[i].notice.kind, owed |-> OwedOf(listeners', calls[i])]
        BY <1>3, <2>2, <4>1
      <4>4. OwedOf(listeners', calls[i]) = OwedOf(listeners, calls[i]) \ {s}
        BY <2>3, <4>1
      <4>5. [Owing[i] EXCEPT !.owed = @ \ {s}]
            = [kind |-> calls[i].notice.kind, owed |-> OwedOf(listeners, calls[i]) \ {s}]
        BY <4>2
      <4> QED BY <4>3, <4>4, <4>5
    <3>3. Owing' = [i \in DOMAIN Owing' |-> Owing'[i]]
      BY <1>0 DEF OwingOf
    <3> QED BY <3>1, <3>2, <3>3
  <2>5. Live' = [Live EXCEPT ![k] = @ \ {s}] /\ s \in Live[k]
    BY <1>0, <2>1
  <2> QED BY <2>4, <2>5 DEF Promise!Unsubscribe
<1>8. ASSUME NEW m \in Notices, Notify(m) PROVE Promise!Begin(m.kind)
  <2> DEFINE k == m.kind
             new == [kind |-> k, owed |-> Range(listeners[k])]
  <2>1. /\ k \in Kinds /\ IsList(listeners[k])
        /\ Len(calls') = n + 1 /\ calls'[n + 1] = Started(m)
        /\ \A i \in 1 .. n : calls'[i] = calls[i]
    BY <1>1, <1>8, NotifyFacts DEF n
  <2>2. listeners' = listeners
    BY <1>8 DEF Notify
  <2>3. OwedOf(listeners, Started(m)) = Range(listeners[k])
    BY <1>8, StartedOwed
  <2>4. /\ Owing'[n + 1] = new
        /\ \A i \in 1 .. n : Owing'[i] = Owing[i]
    <3>1. n + 1 \in 1 .. n + 1 /\ \A i \in 1 .. n : i \in 1 .. n + 1
      BY <1>1
    <3>2. Started(m).notice = m
      BY DEF Started
    <3>3. Owing'[n + 1] = new
      <4>1. Owing'[n + 1] = [kind |-> Started(m).notice.kind,
                             owed |-> OwedOf(listeners, Started(m))]
        BY <1>3, <2>1, <2>2, <3>1
      <4> QED BY <2>3, <3>2, <4>1
    <3>4. ASSUME NEW i \in 1 .. n PROVE Owing'[i] = Owing[i]
      <4>1. i \in 1 .. Len(calls') /\ calls'[i] = calls[i]
        BY <2>1, <3>1
      <4> QED BY <1>2, <1>3, <2>2, <4>1
    <3> QED BY <3>3, <3>4
  <2>5. new \in Promise!Notifications
    <3>1. n + 1 \in 1 .. n + 1
      BY <1>1
    <3> QED BY <1>3, <2>1, <2>4, <3>1, ElementOfSeq
  <2> HIDE DEF new
  <2>6. /\ Append(Owing, new) \in Seq(Promise!Notifications) /\ Len(Append(Owing, new)) = n + 1
        /\ \A i \in 1 .. n : Append(Owing, new)[i] = Owing[i]
        /\ Append(Owing, new)[n + 1] = new
    BY <1>2, <2>5, AppendProperties
  <2>7. \A i \in 1 .. n + 1 : Owing'[i] = Append(Owing, new)[i]
    <3>1. \A i \in 1 .. n + 1 : i \in 1 .. n \/ i = n + 1
      BY <1>1
    <3> QED BY <2>4, <2>6, <3>1
  <2>8. Owing' = Append(Owing, new)
    BY <1>3, <2>1, <2>6, <2>7, SeqEqual
  <2>9. Live' = Live /\ Live[k] = Range(listeners[k])
    BY <1>0, <2>1, <2>2
  <2> QED BY <2>8, <2>9 DEF Promise!Begin, new
<1>9. ASSUME Invoke PROVE \E s \in Subscriptions : Promise!Deliver(s)
  <2> DEFINE s == top.cursor
             rest == OwedOf(listeners', calls'[n])
  <2>1. /\ calls # <<>> /\ n \in 1 .. n /\ listeners' = listeners /\ Len(calls') = n
        /\ s \in Subscriptions /\ s \notin rest /\ OwedOf(listeners, top) = rest \cup {s}
        /\ calls'[n].notice = top.notice /\ \A i \in 1 .. n : i # n => calls'[i] = calls[i]
    BY <1>1, <1>9, InvokeOwed DEF n, top
  <2> HIDE DEF s, rest
  <2>7. /\ Owing[n] = [kind |-> top.notice.kind, owed |-> rest \cup {s}]
        /\ Owing'[n] = [kind |-> top.notice.kind, owed |-> rest]
        /\ \A i \in 1 .. n : i # n => Owing'[i] = Owing[i]
    BY <1>2, <1>3, <2>1 DEF top, rest
  <2>8. Owing' = [Owing EXCEPT ![n].owed = @ \ {s}]
    <3>1. (rest \cup {s}) \ {s} = rest
      BY <2>1
    <3>2. Owing'[n] = [Owing[n] EXCEPT !.owed = @ \ {s}]
      BY <2>7, <3>1
    <3>3. Owing' = [i \in 1 .. n |-> Owing'[i]] /\ Owing = [i \in 1 .. n |-> Owing[i]]
      BY <1>2, <1>3, <2>1, LenProperties
    <3> QED BY <2>1, <2>7, <3>2, <3>3
  <2>9. Owing # <<>> /\ Len(Owing) = n
    BY <1>1, <1>2, <2>1, EmptySeq
  <2>10. s \in Promise!Innermost.owed
    BY <1>5, <2>7, <2>9
  <2>11. Live' = Live
    BY <1>0, <2>1
  <2> QED BY <2>1, <2>8, <2>9, <2>10, <2>11 DEF Promise!Deliver
<1>10. ASSUME Return PROVE UNCHANGED <<Live, Owing>>
  <2>1. /\ listeners' = listeners /\ Len(calls') = n
        /\ \A i \in 1 .. n : calls'[i].notice = calls[i].notice
                              /\ OwedOf(listeners', calls'[i]) = OwedOf(listeners, calls[i])
    BY <1>10, ReturnOwed DEF n
  <2> QED BY <1>0, <2>1, SameOwing DEF n
<1>11. ASSUME EndNotification PROVE Promise!Finish
  <2>1. /\ calls # <<>> /\ top.cursor = End /\ n \in 1 .. n /\ listeners' = listeners
    BY <1>1, <1>11 DEF EndNotification
  <2>2. Len(calls') = n - 1 /\ \A i \in 1 .. n - 1 : calls'[i] = calls[i]
    BY <1>1, <1>11, EndFacts DEF n
  <2>3. Owing # <<>> /\ Len(Owing) = n
    BY <1>1, <1>2, <2>1, EmptySeq
  <2>4. Promise!Innermost.owed = {}
    <3>1. OwedOf(listeners, top) = {}
      BY <2>1 DEF OwedOf
    <3> QED BY <1>2, <1>5, <2>1, <2>3, <3>1 DEF top
  <2>5. \A i \in 1 .. n - 1 : Owing'[i] = Owing[i]
    <3>1. \A i \in 1 .. n - 1 : i \in 1 .. n
      BY <1>1
    <3> QED BY <1>2, <1>3, <2>1, <2>2, <3>1
  <2>6. /\ SubSeq(Owing, 1, n - 1) \in Seq(Promise!Notifications)
        /\ Len(SubSeq(Owing, 1, n - 1)) = n - 1
        /\ \A i \in 1 .. n - 1 : SubSeq(Owing, 1, n - 1)[i] = Owing[i]
    <3> DEFINE m == n - 1
    <3>1. /\ 1 \in Int /\ m \in Int /\ m \in Nat /\ m - 1 + 1 = m
          /\ \A i \in 1 .. m : Owing[i] \in Promise!Notifications
      <4>1. \A i \in 1 .. m : i \in 1 .. Len(Owing)
        BY <1>1, <2>3
      <4> QED BY <1>1, <1>2, <2>1, <4>1, ElementOfSeq
    <3> HIDE DEF m
    <3>2. /\ SubSeq(Owing, 1, m) \in Seq(Promise!Notifications)
          /\ Len(SubSeq(Owing, 1, m)) = IF 1 <= m THEN m - 1 + 1 ELSE 0
          /\ \A i \in 1 .. m - 1 + 1 : SubSeq(Owing, 1, m)[i] = Owing[1 + i - 1]
      BY <3>1, SubSeqProperties
    <3>3. \A i \in 1 .. m : 1 + i - 1 = i
      OBVIOUS
    <3>4. Len(SubSeq(Owing, 1, m)) = m /\ \A i \in 1 .. m : SubSeq(Owing, 1, m)[i] = Owing[i]
      BY <3>1, <3>2, <3>3
    <3> QED BY <3>2, <3>4 DEF m
  <2>7. Owing' = SubSeq(Owing, 1, n - 1)
    BY <1>3, <2>2, <2>5, <2>6, SeqEqual
  <2>8. Live' = Live
    BY <1>0, <2>1
  <2> QED BY <2>3, <2>4, <2>7, <2>8 DEF Promise!Finish
<1>12. CASE UNCHANGED vars
  <2>1. listeners' = listeners /\ calls' = calls
    BY <1>12 DEF vars
  <2>2. Live' = Live /\ Owing' = Owing
    BY <1>0, <2>1
  <2> QED BY <2>2
<1> QED BY <1>6, <1>7, <1>8, <1>9, <1>10, <1>11, <1>12, NoticeType DEF Next, Promise!Next

\* Every notification calls exactly once each listener that was subscribed when it
\* started and still is, and never one that subscribed since.
THEOREM BroadcastsAsPromised == Spec => ImplementsBroadcast
<1>1. Init => Promise!Init
  <2> SUFFICES ASSUME Init PROVE Promise!Init
    OBVIOUS
  <2>1. Range(<<>>) = {}
    BY DEF Range
  <2>2. Live = [k \in Kinds |-> {}]
    BY <2>1 DEF Init, Live
  <2>3. Owing = <<>>
    BY DEF Init, Owing
  <2> QED BY <2>2, <2>3 DEF Promise!Init
<1>2. StackInv /\ StackInv' /\ [Next]_vars => [Promise!Next]_Promise!vars
  BY StepRefines DEF Promise!vars
<1> QED BY <1>1, <1>2, InitStack, NextStack, PTL DEF Spec, ImplementsBroadcast, Promise!Spec
-----------------------------------------------------------------------------
(***************************************************************************)
(* Mirrors: what running notifications about the source x of kind k have   *)
(* yet to tell the listener s, and what it follows from that it knows.     *)
(* mir, reg and mis are mirror[s], registered[k] and missed[s].            *)
(***************************************************************************)
PendingAt(ls, f, k, x, s) ==
    f.notice.kind = k /\ f.notice.source = x /\ s \in OwedOf(ls, f)

Pending(ls, cs, k, x, s) ==
    {op \in {"added", "removed"} :
        \E i \in 1 .. Len(cs) : PendingAt(ls, cs[i], k, x, s) /\ cs[i].notice.op = op}

Told(pending, reg, mir, mis, x) ==
    /\ pending = {} => (x \in mir <=> x \in reg \ mis)
    /\ "added" \in pending => x \in reg \ mis
    /\ "removed" \in pending => x \notin reg

PendingNow(k, x, s) == Pending(listeners, calls, k, x, s)

\* A listener missed only sources that are registered, and it either knows what it
\* should or will be told.
MirrorInv ==
    \A k \in SourceKinds : \A s \in Range(listeners[k]) :
        /\ missed[s] \subseteq registered[k]
        /\ \A x \in Sources : <<k, x>> \notin overlapped =>
              Told(PendingNow(k, x, s), registered[k], mirror[s], missed[s], x)

\* What MirrorInv says of one listener, for the primed state.
MirrorOf(k, s, reg, mir, mis, ov, ls, cs) ==
    /\ mis \subseteq reg
    /\ \A x \in Sources : <<k, x>> \notin ov => Told(Pending(ls, cs, k, x, s), reg, mir, mis, x)

\* Calls that owe a listener the same have the same to tell it.
LEMMA SamePending ==
    ASSUME NEW ls, NEW cs, NEW ms, NEW ds, NEW s, Len(ds) = Len(cs),
           \A i \in 1 .. Len(cs) : ds[i].notice = cs[i].notice
                                   /\ (s \in OwedOf(ms, ds[i]) <=> s \in OwedOf(ls, cs[i]))
    PROVE  \A k, x : Pending(ms, ds, k, x, s) = Pending(ls, cs, k, x, s)
BY DEF Pending, PendingAt

LEMMA InitMirrors == Init => MirrorInv
<1> SUFFICES ASSUME Init PROVE MirrorInv
  OBVIOUS
<1>1. \A k \in SourceKinds : Range(listeners[k]) = {}
  BY DEF Init, Range, SourceKinds
<1> QED BY <1>1 DEF MirrorInv

LEMMA SubscribeMirrors ==
    ASSUME StackInv, MirrorInv, NEW j \in Kinds, NEW r \in Subscriptions, Subscribe(j, r),
           NEW k \in SourceKinds, NEW s \in Range(listeners'[k])
    PROVE  MirrorOf(k, s, registered'[k], mirror'[s], missed'[s], overlapped',
                    listeners', calls')
<1>1. /\ r \notin Range(listeners[j]) /\ Range(listeners'[j]) = Range(listeners[j]) \cup {r}
      /\ \A i \in Kinds \ {j} : listeners'[i] = listeners[i] /\ r \notin Range(listeners[i])
  BY SubscribeFacts
<1>2. /\ calls' = calls
      /\ \A i \in 1 .. Len(calls) : OwedOf(listeners', calls[i]) = OwedOf(listeners, calls[i])
  BY SubscribeOwed
<1>3. \A x : Pending(listeners', calls', k, x, s) = PendingNow(k, x, s)
  BY <1>2, SamePending DEF PendingNow
<1>4. k \in Kinds /\ k # WakeupKind /\ registered' = registered /\ overlapped' = overlapped
  BY DEF SourceKinds, Subscribe
<1>5. TypeOK
  BY OwedFacts
<1>6. CASE s = r
  <2>1. k = j
    BY <1>1, <1>4, <1>6
  <2>2. mirror'[s] = {} /\ missed'[s] = registered[k]
    BY <1>4, <1>5, <1>6, <2>1 DEF Subscribe, TypeOK
  <2>3. \A x : PendingNow(k, x, s) = {}
    <3>1. \A i \in 1 .. Len(calls) :
              calls[i].notice.kind = k => s \notin OwedOf(listeners, calls[i])
      BY <1>1, <1>6, <2>1, OwedFacts
    <3> QED BY <3>1 DEF PendingNow, Pending, PendingAt
  <2> QED BY <1>3, <1>4, <2>2, <2>3 DEF MirrorOf, Told
<1>7. CASE s # r
  <2>1. s \in Range(listeners[k])
    BY <1>1, <1>4, <1>7
  <2>2. mirror'[s] = mirror[s] /\ missed'[s] = missed[s]
    <3>1. s \in Subscriptions
      BY <1>4, <2>1, OwedFacts, ListFacts
    <3> QED BY <1>5, <1>7, <3>1 DEF Subscribe, TypeOK
  <2> QED BY <1>3, <1>4, <2>1, <2>2 DEF MirrorOf, MirrorInv
<1> QED BY <1>6, <1>7

LEMMA UnsubscribeMirrors ==
    ASSUME StackInv, MirrorInv, NEW j \in Kinds, NEW r \in Subscriptions, Unsubscribe(j, r),
           NEW k \in SourceKinds, NEW s \in Range(listeners'[k])
    PROVE  MirrorOf(k, s, registered'[k], mirror'[s], missed'[s], overlapped',
                    listeners', calls')
<1>1. /\ Range(listeners'[j]) = Range(listeners[j]) \ {r}
      /\ \A i \in Kinds \ {j} : listeners'[i] = listeners[i] /\ r \notin Range(listeners[i])
  BY UnsubscribeFacts
<1>2. k \in Kinds /\ registered' = registered /\ overlapped' = overlapped /\ TypeOK
  BY OwedFacts DEF SourceKinds, Unsubscribe
<1>3. s # r /\ s \in Range(listeners[k])
  BY <1>1, <1>2
<1>4. \A x : Pending(listeners', calls', k, x, s) = PendingNow(k, x, s)
  <2>1. /\ calls' = calls
        /\ \A i \in 1 .. Len(calls) :
              OwedOf(listeners', calls[i]) = OwedOf(listeners, calls[i]) \ {r}
    BY UnsubscribeOwed
  <2> QED BY <1>3, <2>1, SamePending DEF PendingNow
<1>5. mirror'[s] = mirror[s] /\ missed'[s] = missed[s]
  <2>1. s \in Subscriptions
    BY <1>2, <1>3, OwedFacts, ListFacts
  <2> QED BY <1>2, <1>3, <2>1 DEF Unsubscribe, TypeOK
<1> QED BY <1>2, <1>3, <1>4, <1>5 DEF MirrorOf, MirrorInv

LEMMA NotifyMirrors ==
    ASSUME StackInv, MirrorInv, NEW m \in Notices, Notify(m),
           NEW k \in SourceKinds, NEW s \in Range(listeners'[k])
    PROVE  MirrorOf(k, s, registered'[k], mirror'[s], missed'[s], overlapped',
                    listeners', calls')
<1> DEFINE n == Len(calls)
<1>1. /\ listeners' = listeners /\ mirror' = mirror /\ k \in Kinds /\ k # WakeupKind
      /\ TypeOK /\ n \in Nat /\ IsDue(m)
      /\ registered' = RegisteredAfter(m) /\ missed' = MissedAfter(m)
  BY OwedFacts DEF Notify, SourceKinds
<1>2. s \in Range(listeners[k]) /\ s \in Subscriptions
  BY <1>1, OwedFacts, ListFacts
<1>3. missed[s] \subseteq registered[k] /\ k \in DOMAIN registered
  BY <1>1, <1>2 DEF MirrorInv, TypeOK
<1>4. ASSUME NEW x \in Sources, ~(m.kind = k /\ m.source = x)
      PROVE  /\ x \in registered'[k] <=> x \in registered[k]
             /\ x \in missed'[s] <=> x \in missed[s]
  <2>1. x \in registered'[k] <=> x \in registered[k]
    BY <1>1, <1>3, <1>4 DEF RegisteredAfter, TypeOK
  <2>2. s \in Range(listeners[m.kind]) => m.kind = k
    BY <1>1, <1>2, NoticeType DEF StackInv, Disjoint
  <2>3. x \in missed'[s] <=> x \in missed[s]
    BY <1>1, <1>2, <1>4, <2>2 DEF MissedAfter
  <2> QED BY <2>1, <2>3
<1>5. ASSUME NEW x \in Sources, m.kind = k, m.source = x
      PROVE  /\ m.op = "added" => x \in registered'[k] /\ x \notin missed'[s]
             /\ m.op = "removed" => x \notin registered'[k] /\ x \notin missed'[s]
             /\ m.op \in {"added", "removed"}
  <2>1. m.op \in {"added", "removed"}
    BY <1>1, <1>5, KindsAssumption DEF Notices
  <2>2. CASE m.op = "added"
    <3>1. x \notin registered[k]
      BY <1>1, <1>5, <2>2 DEF IsDue
    <3>2. x \in registered'[k] /\ missed' = missed
      BY <1>1, <1>3, <1>5, <2>2 DEF RegisteredAfter, MissedAfter, TypeOK
    <3> QED BY <1>3, <2>2, <3>1, <3>2
  <2>3. CASE m.op = "removed"
    <3>1. x \notin registered'[k]
      BY <1>1, <1>3, <1>5, <2>3 DEF RegisteredAfter, TypeOK
    <3>2. x \notin missed'[s]
      BY <1>1, <1>2, <1>5, <2>3 DEF MissedAfter
    <3> QED BY <2>3, <3>1, <3>2
  <2> QED BY <2>1, <2>2, <2>3
<1>6. /\ Len(calls') = n + 1 /\ calls'[n + 1] = Started(m) /\ Started(m).notice = m
      /\ \A i \in 1 .. n : calls'[i] = calls[i]
  BY NotifyFacts DEF StackInv, Started
<1>7. \A i \in 1 .. n + 1 : i \in 1 .. n \/ i = n + 1
  BY <1>1
<1>8. n + 1 \in 1 .. n + 1 /\ \A i \in 1 .. n : i \in 1 .. n + 1
  BY <1>1
<1> HIDE DEF n
<1>9. ASSUME NEW x \in Sources, ~(m.kind = k /\ m.source = x)
      PROVE  Pending(listeners', calls', k, x, s) = PendingNow(k, x, s)
  BY <1>1, <1>6, <1>7, <1>8, <1>9 DEF PendingNow, Pending, PendingAt, n
<1>10. missed'[s] \subseteq registered'[k]
  <2>1. TypeOK'
    BY NextStack DEF StackInv, IteratorsValid, Next
  <2>2. missed'[s] \subseteq Sources
    BY <1>2, <2>1 DEF TypeOK
  <2> QED BY <1>3, <1>4, <1>5, <2>2
<1>11. ASSUME NEW x \in Sources, <<k, x>> \notin overlapped'
       PROVE  Told(Pending(listeners', calls', k, x, s), registered'[k], mirror'[s],
                   missed'[s], x)
  <2>1. CASE m.kind = k /\ m.source = x
    <3>1. m.op \in {"added", "removed"}
      BY <1>5, <2>1
    <3>2. ~Overlaps(m)
      BY <1>11, <2>1 DEF Notify
    <3>3. \A i \in 1 .. n : ~(calls[i].notice.kind = k /\ calls[i].notice.source = x)
      <4>1. DOMAIN calls = 1 .. n
        BY <1>1, CallsFacts DEF n
      <4> QED BY <2>1, <3>1, <3>2, <4>1 DEF Overlaps
    <3>4. Pending(listeners', calls', k, x, s) \subseteq {m.op}
      BY <1>6, <1>7, <3>3 DEF Pending, PendingAt
    <3>5. m.op \in Pending(listeners', calls', k, x, s)
      <4>1. s \in OwedOf(listeners, Started(m))
        BY <1>2, <2>1, StartedOwed
      <4> QED BY <1>1, <1>6, <1>8, <2>1, <3>1, <4>1 DEF Pending, PendingAt
    <3> QED BY <1>5, <2>1, <3>4, <3>5 DEF Told
  <2>2. CASE ~(m.kind = k /\ m.source = x)
    <3>1. <<k, x>> \notin overlapped
      BY <1>11 DEF Notify
    <3>2. Told(PendingNow(k, x, s), registered[k], mirror[s], missed[s], x)
      BY <1>2, <3>1 DEF MirrorInv
    <3> QED BY <1>1, <1>4, <1>9, <2>2, <3>2 DEF Told
  <2> QED BY <2>1, <2>2
<1> QED BY <1>10, <1>11 DEF MirrorOf

LEMMA InvokeMirrors ==
    ASSUME StackInv, MirrorInv, Invoke,
           NEW k \in SourceKinds, NEW s \in Range(listeners'[k])
    PROVE  MirrorOf(k, s, registered'[k], mirror'[s], missed'[s], overlapped',
                    listeners', calls')
<1> DEFINE n == Len(calls)
           top == calls[n]
           c == top.cursor
           m == top.notice
<1>1. /\ calls # <<>> /\ listeners' = listeners /\ registered' = registered
      /\ missed' = missed /\ overlapped' = overlapped
      /\ k \in Kinds /\ k # WakeupKind /\ TypeOK /\ n \in 1 .. n /\ m \in Notices
      /\ mirror' = Heard(c, m)
  BY OwedFacts, CallsFacts DEF Invoke, SourceKinds
<1>2. s \in Range(listeners[k]) /\ s \in Subscriptions
  BY <1>1, OwedFacts, ListFacts
<1>3. /\ Len(calls') = n /\ c \in Range(listeners[m.kind]) /\ m.kind \in Kinds
      /\ c \notin OwedOf(listeners', calls'[n])
      /\ OwedOf(listeners, top) = OwedOf(listeners', calls'[n]) \cup {c}
      /\ calls'[n].notice = m
      /\ \A i \in 1 .. n : i # n => calls'[i] = calls[i]
  BY <1>1, InvokeOwed, NoticeType
<1>4. s = c => m.kind = k
  BY <1>1, <1>2, <1>3 DEF StackInv, Disjoint
<1> HIDE DEF n, top, c, m
<1>5. ASSUME NEW x \in Sources
      PROVE  Pending(listeners', calls', k, x, s) \subseteq PendingNow(k, x, s)
  BY <1>1, <1>3 DEF PendingNow, Pending, PendingAt, n, top, m
<1>6. ASSUME NEW x \in Sources, ~(s = c /\ m.source = x)
      PROVE  PendingNow(k, x, s) \subseteq Pending(listeners', calls', k, x, s)
  BY <1>1, <1>3, <1>6 DEF PendingNow, Pending, PendingAt, n, top, m
<1>7. missed'[s] \subseteq registered'[k]
  BY <1>1, <1>2 DEF MirrorInv
<1>8. ASSUME NEW x \in Sources, <<k, x>> \notin overlapped'
      PROVE  Told(Pending(listeners', calls', k, x, s), registered'[k], mirror'[s],
                  missed'[s], x)
  <2>1. Told(PendingNow(k, x, s), registered[k], mirror[s], missed[s], x)
    BY <1>1, <1>2, <1>8 DEF MirrorInv
  <2>2. CASE s = c /\ m.source = x
    <3>1. m.kind = k /\ m.op \in {"added", "removed"}
      BY <1>1, <1>4, <2>2, KindsAssumption DEF Notices
    <3>2. m.op \in PendingNow(k, x, s)
      BY <1>1, <1>3, <2>2, <3>1 DEF PendingNow, Pending, PendingAt, n, top, m
    <3>3. CASE m.op = "added"
      <4>1. x \in mirror'[s] /\ x \in registered[k] \ missed[s]
        BY <1>1, <1>2, <2>1, <2>2, <3>2, <3>3 DEF Heard, TypeOK, Told
      <4> QED BY <1>1, <1>5, <2>1, <4>1 DEF Told
    <3>4. CASE m.op = "removed"
      <4>1. x \notin mirror'[s] /\ x \notin registered[k]
        BY <1>1, <1>2, <2>1, <2>2, <3>2, <3>4 DEF Heard, TypeOK, Told
      <4> QED BY <1>1, <1>5, <2>1, <4>1 DEF Told
    <3> QED BY <3>1, <3>3, <3>4
  <2>3. CASE ~(s = c /\ m.source = x)
    <3>1. x \in mirror'[s] <=> x \in mirror[s]
      BY <1>1, <1>2, <2>3 DEF Heard, TypeOK
    <3>2. Pending(listeners', calls', k, x, s) = PendingNow(k, x, s)
      BY <1>5, <1>6, <2>3
    <3> QED BY <1>1, <2>1, <3>1, <3>2 DEF Told
  <2> QED BY <2>2, <2>3
<1> QED BY <1>7, <1>8 DEF MirrorOf

LEMMA EndMirrors ==
    ASSUME StackInv, MirrorInv, EndNotification,
           NEW k \in SourceKinds, NEW s \in Range(listeners'[k])
    PROVE  MirrorOf(k, s, registered'[k], mirror'[s], missed'[s], overlapped',
                    listeners', calls')
<1> DEFINE n == Len(calls)
           top == calls[n]
<1>1. /\ listeners' = listeners /\ registered' = registered /\ mirror' = mirror
      /\ missed' = missed /\ overlapped' = overlapped
      /\ TypeOK /\ n \in 1 .. n /\ top.cursor = End
  BY OwedFacts, CallsFacts DEF EndNotification
<1>2. Len(calls') = n - 1 /\ \A i \in 1 .. n - 1 : calls'[i] = calls[i]
  BY <1>1, EndFacts
<1>3. /\ \A i \in 1 .. n : i \in 1 .. n - 1 \/ i = n
      /\ \A i \in 1 .. n - 1 : i \in 1 .. n
  BY <1>1
<1>4. OwedOf(listeners, calls[n]) = {}
  BY <1>1 DEF OwedOf
<1> HIDE DEF n, top
<1>5. \A x : Pending(listeners', calls', k, x, s) = PendingNow(k, x, s)
  BY <1>1, <1>2, <1>3, <1>4 DEF PendingNow, Pending, PendingAt, n
<1> QED BY <1>1, <1>5 DEF MirrorOf, MirrorInv

LEMMA NextMirrors == StackInv /\ MirrorInv /\ [Next]_vars => MirrorInv'
<1> SUFFICES ASSUME StackInv, MirrorInv, [Next]_vars,
                    NEW k \in SourceKinds, NEW s \in Range(listeners'[k])
             PROVE  MirrorOf(k, s, registered'[k], mirror'[s], missed'[s], overlapped',
                             listeners', calls')
  BY DEF MirrorInv, MirrorOf, PendingNow
<1>1. CASE \E j \in Kinds, r \in Subscriptions : Subscribe(j, r)
  BY <1>1, SubscribeMirrors
<1>2. CASE \E j \in Kinds, r \in Subscriptions : Unsubscribe(j, r)
  BY <1>2, UnsubscribeMirrors
<1>3. CASE \E m \in Notices : Notify(m)
  BY <1>3, NotifyMirrors
<1>4. CASE Invoke
  BY <1>4, InvokeMirrors
<1>5. CASE Return
  <2>1. \A x : Pending(listeners', calls', k, x, s) = PendingNow(k, x, s)
    BY <1>5, ReturnOwed, SamePending DEF PendingNow
  <2> QED BY <1>5, <2>1 DEF Return, MirrorOf, MirrorInv
<1>6. CASE EndNotification
  BY <1>6, EndMirrors
<1>7. CASE UNCHANGED vars
  BY <1>7 DEF vars, MirrorOf, MirrorInv, PendingNow
<1> QED BY <1>1, <1>2, <1>3, <1>4, <1>5, <1>6, <1>7 DEF Next

\* When no notification runs, every main loop knows exactly the sources that were
\* registered since it subscribed and are registered still, but for those that were
\* registered or deregistered from within a callback about them.
THEOREM MirrorsStayTrue == Spec => []MirrorsAgree
<1>1. MirrorInv => MirrorsAgree
  <2> SUFFICES ASSUME MirrorInv, calls = <<>>, NEW k \in SourceKinds,
                      NEW s \in Range(listeners[k]), NEW x \in Sources,
                      <<k, x>> \notin overlapped
               PROVE  x \in mirror[s] <=> x \in registered[k] \ missed[s]
    BY DEF MirrorsAgree
  <2>1. PendingNow(k, x, s) = {}
    <3>1. 1 .. Len(calls) = {}
      OBVIOUS
    <3> QED BY <3>1 DEF PendingNow, Pending
  <2> QED BY <2>1 DEF MirrorInv, Told
<1> QED BY <1>1, InitStack, NextStack, InitMirrors, NextMirrors, PTL DEF Spec
==============================================================================
