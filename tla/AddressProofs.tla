---------------------------- MODULE AddressProofs ----------------------------
(***************************************************************************)
(* Theorems about Address, for any objects, and for all texts and parts    *)
(* that addresses are set from.                                            *)
(***************************************************************************)
EXTENDS Address, SequenceTheorems, WellFoundedInduction, TLAPS

-----------------------------------------------------------------------------
(***************************************************************************)
(* What is read of the text of an address                                  *)
(***************************************************************************)
LEMMA DefaultIsVersion == IsVersion(DefaultVersion) /\ DefaultVersion \in Seq(Characters)
<1>1. /\ DOMAIN DefaultVersion = 1 .. 4 /\ Len(DefaultVersion) = 4
      /\ DefaultVersion \in Seq({LetterV, 49, Underscore, 48})
  BY DEF DefaultVersion
<1>2. /\ DefaultVersion[1] = LetterV /\ DefaultVersion[2] = 49
      /\ DefaultVersion[3] = Underscore /\ DefaultVersion[4] = 48
  BY DEF DefaultVersion
<1>3. Underscore \in Range(DefaultVersion)
  <2>1. 3 \in 1 .. 4
    OBVIOUS
  <2>2. 3 \in DOMAIN DefaultVersion
    BY <1>1, <2>1
  <2> QED BY <1>2, <2>2 DEF Range
<1>4. ASSUME NEW i \in 2 .. 4 PROVE DefaultVersion[i] \in Digits \cup {Underscore}
  <2>1. i = 2 \/ i = 3 \/ i = 4
    OBVIOUS
  <2> QED BY <1>2, <2>1 DEF Digits
<1>5. {LetterV, 49, Underscore, 48} \subseteq Characters
  BY DEF LetterV, Underscore, Characters, Colon
<1> QED BY <1>1, <1>2, <1>3, <1>4, <1>5 DEF IsVersion

\* The version that is read is one, also if the text has none.
LEMMA ReadVersion ==
    ASSUME NEW text, IsAddress(text)
    PROVE  IsVersion(VersionIn(text)) /\ VersionIn(text) # <<>>
<1>1. IsVersion(VersionIn(text))
  BY DefaultIsVersion DEF IsAddress, VersionIn
<1>2. ~IsVersion(<<>>)
  <2>1. Range(<<>>) = {}
    BY DEF Range
  <2> QED BY <2>1 DEF IsVersion
<1> QED BY <1>1, <1>2

\* A domain, an interface with its version and an instance make a text of four parts.
LEMMA FourParts ==
    ASSUME NEW a, NEW b, NEW c, NEW d
    PROVE  <<a>> \o <<b, c>> \o <<d>> = <<a, b, c, d>>
<1> DEFINE S == {a, b, c, d}
           front == <<a>> \o <<b, c>>
<1>1. <<a>> \in Seq(S) /\ <<b, c>> \in Seq(S) /\ <<d>> \in Seq(S)
  OBVIOUS
<1>2. /\ front \in Seq(S) /\ Len(front) = 3
      /\ front[1] = a /\ front[2] = b /\ front[3] = c
  BY <1>1, ConcatProperties
<1> HIDE DEF front
<1>3. /\ front \o <<d>> \in Seq(S) /\ Len(front \o <<d>>) = 4
      /\ \A i \in 1 .. 4 : (front \o <<d>>)[i] = IF i <= 3 THEN front[i] ELSE d
  <2> HIDE DEF S
  <2>1. Len(<<d>>) = 1 /\ <<d>>[1] = d
    OBVIOUS
  <2>2. /\ front \o <<d>> \in Seq(S) /\ Len(front \o <<d>>) = Len(front) + Len(<<d>>)
        /\ \A i \in 1 .. Len(front) + Len(<<d>>) : (front \o <<d>>)[i] =
                IF i <= Len(front) THEN front[i] ELSE <<d>>[i - Len(front)]
    BY <1>1, <1>2, ConcatProperties
  <2>3. \A i \in 1 .. 4 : ~(i <= 3) => i - 3 = 1
    OBVIOUS
  <2> QED BY <1>2, <2>1, <2>2, <2>3
<1>4. front \o <<d>> = <<a, b, c, d>>
  <2> DEFINE all == <<a, b, c, d>>
  <2>1. /\ all \in Seq(S) /\ Len(all) = 4
        /\ all[1] = a /\ all[2] = b /\ all[3] = c /\ all[4] = d
    OBVIOUS
  <2>2. \A i \in 1 .. 4 : i = 1 \/ i = 2 \/ i = 3 \/ i = 4
    OBVIOUS
  <2> HIDE DEF S, all
  <2>3. \A i \in 1 .. 4 : (front \o <<d>>)[i] = all[i]
    BY <1>2, <1>3, <2>1, <2>2
  <2>4. front \o <<d>> = all
    BY <1>3, <2>1, <2>3, SeqEqual
  <2> QED BY <2>4 DEF all
<1> QED BY <1>4 DEF front

\* The text of what was read of a text.
LEMMA TextOfParsed ==
    ASSUME NEW text
    PROVE  GetAddress(Parsed(text)) = <<text[1], text[2], VersionIn(text), Last(text)>>
<1> DEFINE p == Parsed(text)
<1>1. /\ p.domain = <<text[1]>> /\ p.interface = <<text[2], VersionIn(text)>>
      /\ p.instance = <<Last(text)>>
  BY DEF Parsed
<1> HIDE DEF p
<1> QED BY <1>1, FourParts DEF GetAddress, p

\* A text of four parts with a version reads back as it is.
LEMMA ParsedAgain ==
    ASSUME NEW text, IsAddress(text), NEW x
    PROVE  Set(x, GetAddress(Parsed(text))) = Parsed(text)
<1> DEFINE again == <<text[1], text[2], VersionIn(text), Last(text)>>
<1>1. GetAddress(Parsed(text)) = again
  BY TextOfParsed
<1>2. /\ Len(again) = 4 /\ again[1] = text[1] /\ again[2] = text[2]
      /\ again[3] = VersionIn(text) /\ again[4] = Last(text)
  OBVIOUS
<1>3. IsVersion(VersionIn(text)) /\ VersionIn(text) # <<>>
  BY ReadVersion
<1> HIDE DEF again
<1>4. IsAddress(again) /\ VersionIn(again) = VersionIn(text) /\ Last(again) = Last(text)
  BY <1>2, <1>3 DEF IsAddress, VersionIn, Last
<1>5. Parsed(again) = Parsed(text)
  BY <1>2, <1>4 DEF Parsed
<1> QED BY <1>1, <1>4, <1>5 DEF Set

\* Whatever an address was set to, it reads back from the second time on.
LEMMA SetTwice ==
    ASSUME NEW x
    PROVE  LET again == Set(x, GetAddress(x)) IN Set(again, GetAddress(again)) = again
<1> DEFINE text == GetAddress(x)
<1>1. CASE IsAddress(text)
  <2>1. Set(x, text) = Parsed(text)
    BY <1>1 DEF Set
  <2> QED BY <1>1, <2>1, ParsedAgain
<1>2. CASE ~IsAddress(text)
  BY <1>2 DEF Set
<1> QED BY <1>1, <1>2

-----------------------------------------------------------------------------
(***************************************************************************)
(* The inductive invariant: an object that took a text is what was read of *)
(* that text, or of the text of the object it was copied from.             *)
(***************************************************************************)
IsRead(x) == \E text : IsAddress(text) /\ x = Parsed(text)

WholeInv ==
    /\ DOMAIN address = Objects
    /\ \A a \in Objects \cap whole : IsRead(address[a])

LEMMA SetFacts ==
    ASSUME NEW x, NEW text
    PROVE  IF IsAddress(text) THEN IsRead(Set(x, text)) ELSE Set(x, text) = x
BY DEF Set, IsRead

LEMMA NextWhole == WholeInv /\ [Next]_vars => WholeInv'
<1> SUFFICES ASSUME WholeInv, [Next]_vars PROVE WholeInv'
  OBVIOUS
<1>1. ASSUME NEW a \in Objects, NEW x, Assign(a, x)
      PROVE  /\ DOMAIN address' = Objects /\ address'[a] = x
             /\ \A b \in Objects \ {a} : address'[b] = address[b]
  BY <1>1 DEF Assign, WholeInv
<1>2. ASSUME NEW a \in Objects, NEW text, SetAddress(a, text) PROVE WholeInv'
  <2>1. /\ DOMAIN address' = Objects /\ address'[a] = Set(address[a], text)
        /\ \A b \in Objects \ {a} : address'[b] = address[b]
    BY <1>1, <1>2 DEF SetAddress
  <2>2. IF IsAddress(text) THEN IsRead(address'[a]) ELSE address'[a] = address[a]
    BY <2>1, SetFacts
  <2> QED BY <1>2, <2>1, <2>2 DEF SetAddress, WholeInv
<1>3. ASSUME NEW a \in Objects, NEW text, ConstructFromText(a, text) PROVE WholeInv'
  <2>1. /\ DOMAIN address' = Objects /\ address'[a] = Set(NewAddress, text)
        /\ \A b \in Objects \ {a} : address'[b] = address[b]
    BY <1>1, <1>3 DEF ConstructFromText
  <2>2. IsAddress(text) => IsRead(address'[a])
    BY <2>1, SetFacts
  <2> QED BY <1>3, <2>1, <2>2 DEF ConstructFromText, WholeInv
<1>4. ASSUME NEW a \in Objects, NEW b \in Objects, Copy(a, b) PROVE WholeInv'
  <2>1. /\ DOMAIN address' = Objects /\ address'[a] = address[b]
        /\ \A c \in Objects \ {a} : address'[c] = address[c]
    BY <1>1, <1>4 DEF Copy
  <2> QED BY <1>4, <2>1 DEF Copy, WholeInv
<1>5. ASSUME NEW a \in Objects, NEW field, NEW part, SetPart(a, field, part) PROVE WholeInv'
  <2>1. DOMAIN address' = Objects /\ \A b \in Objects \ {a} : address'[b] = address[b]
    BY <1>1, <1>5 DEF SetPart
  <2> QED BY <1>5, <2>1 DEF SetPart, WholeInv
<1>6. CASE UNCHANGED vars
  BY <1>6 DEF vars, WholeInv
<1> QED BY <1>2, <1>3, <1>4, <1>5, <1>6 DEF Next, ConstructFrom

-----------------------------------------------------------------------------
\* An address that took a text is rebuilt from its own text exactly, with a version at
\* the end of its interface, and any other address from the second time on: for all
\* texts, not only those of the run.
THEOREM AddressReadsBack == Spec => []ReadsBack
<1>1. Init => WholeInv
  BY DEF Init, WholeInv
<1>2. WholeInv => ReadsBack
  <2> SUFFICES ASSUME WholeInv, NEW a \in Objects
               PROVE  /\ a \in whole =>
                            /\ Set(NewAddress, GetAddress(address[a])) = address[a]
                            /\ IsVersion(Last(address[a].interface))
                      /\ LET again == Set(address[a], GetAddress(address[a]))
                         IN  Set(again, GetAddress(again)) = again
    BY DEF ReadsBack
  <2>1. ASSUME a \in whole
        PROVE  /\ Set(NewAddress, GetAddress(address[a])) = address[a]
               /\ IsVersion(Last(address[a].interface))
    <3>1. PICK text : IsAddress(text) /\ address[a] = Parsed(text)
      BY <2>1 DEF WholeInv, IsRead
    <3>2. Last(address[a].interface) = VersionIn(text)
      BY <3>1 DEF Parsed, Last
    <3> QED BY <3>1, <3>2, ParsedAgain, ReadVersion
  <2>2. LET again == Set(address[a], GetAddress(address[a]))
        IN  Set(again, GetAddress(again)) = again
    BY SetTwice
  <2> QED BY <2>1, <2>2
<1> QED BY <1>1, <1>2, NextWhole, PTL DEF Spec

-----------------------------------------------------------------------------
(***************************************************************************)
(* The order of the texts.  Two of them agree before the k-th character of *)
(* the i-th part; the first character in which they do not decides.        *)
(***************************************************************************)
LEMMA Least ==
    ASSUME NEW T, T \subseteq Nat, T # {}
    PROVE  \E x \in T : \A y \in T : x <= y
<1> DEFINE R == OpToRel(<, Nat)
<1>1. IsWellFoundedOn(R, Nat)
  BY NatLessThanWellFounded
<1>2. \A x, y \in Nat : <<x, y>> \in R <=> x < y
  BY DEF OpToRel
<1> HIDE DEF R
<1>3. PICK x \in T : \A y \in T : ~(<<y, x>> \in R)
  BY <1>1, WFMin
<1>4. ASSUME NEW y \in T PROVE x <= y
  <2>1. ~(y < x) /\ x \in Nat /\ y \in Nat
    BY <1>2, <1>3
  <2> QED BY <2>1
<1> QED BY <1>4

LEMMA StringFacts ==
    ASSUME NEW t \in Strings
    PROVE  /\ Len(t) \in Nat /\ Len(t) >= 1 /\ DOMAIN t = 1 .. Len(t)
           /\ \A i \in 1 .. Len(t) :
                 /\ t[i] \in Seq(Characters) /\ Len(t[i]) \in Nat
                 /\ \A k \in 1 .. Len(t[i]) : t[i][k] \in Characters
<1>1. t \in Seq(Seq(Characters)) /\ t # <<>>
  BY DEF Strings
<1>2. Len(t) \in Nat /\ DOMAIN t = 1 .. Len(t) /\ \A i \in 1 .. Len(t) : t[i] \in Seq(Characters)
  BY <1>1, LenProperties, ElementOfSeq
<1>3. Len(t) # 0
  BY <1>1, EmptySeq
<1>4. ASSUME NEW i \in 1 .. Len(t)
      PROVE  Len(t[i]) \in Nat /\ \A k \in 1 .. Len(t[i]) : t[i][k] \in Characters
  BY <1>2, LenProperties, ElementOfSeq
<1> QED BY <1>2, <1>3, <1>4

LEMMA CodeFacts ==
    ASSUME NEW t \in Strings, NEW i \in 1 .. Len(t), NEW k \in 1 .. Len(t[i]) + 1
    PROVE  /\ CodeAt(t, i, k) \in Int
           /\ k <= Len(t[i]) => CodeAt(t, i, k) = t[i][k] /\ t[i][k] \in Characters
           /\ k = Len(t[i]) + 1 => CodeAt(t, i, k) = IF i < Len(t) THEN Colon ELSE -1
           /\ k = Len(t[i]) + 1 => CodeAt(t, i, k) \notin Characters
<1>1. Len(t) \in Nat /\ Len(t[i]) \in Nat /\ \A l \in 1 .. Len(t[i]) : t[i][l] \in Characters
  BY StringFacts
<1>2. CASE k <= Len(t[i])
  <2>1. k \in 1 .. Len(t[i]) /\ k # Len(t[i]) + 1
    BY <1>1, <1>2
  <2>2. CodeAt(t, i, k) = t[i][k]
    BY <1>2 DEF CodeAt
  <2>3. t[i][k] \in Characters
    BY <1>1, <2>1
  <2>4. \A c \in Characters : c \in Int
    BY DEF Characters
  <2> QED BY <2>1, <2>2, <2>3, <2>4
<1>3. CASE ~(k <= Len(t[i]))
  <2>1. k = Len(t[i]) + 1 /\ k > Len(t[i])
    BY <1>1, <1>3
  <2>2. CodeAt(t, i, k) = IF i < Len(t) THEN Colon ELSE -1
    BY <1>3, <2>1 DEF CodeAt
  <2>3. Colon \in Int /\ -1 \in Int /\ Colon \notin Characters /\ -1 \notin Characters
    BY DEF Colon, Characters
  <2> QED BY <1>3, <2>2, <2>3
<1> QED BY <1>2, <1>3

Agree(s, t, i, k) ==
    /\ i \in 1 .. Len(s) /\ i \in 1 .. Len(t)
    /\ \A j \in 1 .. i - 1 : s[j] = t[j]
    /\ k \in 1 .. Len(s[i]) + 1 /\ k \in 1 .. Len(t[i]) + 1
    /\ \A j \in 1 .. k - 1 : s[i][j] = t[i][j]

Before(i, k, j, l) == i < j \/ (i = j /\ k < l)

LEMMA LessFacts ==
    ASSUME NEW s \in Strings, NEW t \in Strings
    PROVE  StringLess(s, t) <=>
              \E i, k \in Nat : Agree(s, t, i, k) /\ CodeAt(s, i, k) < CodeAt(t, i, k)
<1>1. /\ Len(s) \in Nat /\ DOMAIN s = 1 .. Len(s)
      /\ Len(t) \in Nat /\ DOMAIN t = 1 .. Len(t)
      /\ \A i \in 1 .. Len(s) : Len(s[i]) \in Nat
      /\ \A i \in 1 .. Len(t) : Len(t[i]) \in Nat
  BY StringFacts
<1>2. ASSUME StringLess(s, t)
      PROVE  \E i, k \in Nat : Agree(s, t, i, k) /\ CodeAt(s, i, k) < CodeAt(t, i, k)
  <2>1. PICK i \in DOMAIN s \cap DOMAIN t :
            /\ \A j \in 1 .. i - 1 : s[j] = t[j]
            /\ \E k \in 1 .. Len(s[i]) + 1 :
                  /\ k <= Len(t[i]) + 1
                  /\ \A j \in 1 .. k - 1 : s[i][j] = t[i][j]
                  /\ CodeAt(s, i, k) < CodeAt(t, i, k)
    BY <1>2 DEF StringLess
  <2>2. PICK k \in 1 .. Len(s[i]) + 1 :
            /\ k <= Len(t[i]) + 1
            /\ \A j \in 1 .. k - 1 : s[i][j] = t[i][j]
            /\ CodeAt(s, i, k) < CodeAt(t, i, k)
    BY <2>1
  <2>3. i \in 1 .. Len(s) /\ i \in 1 .. Len(t) /\ k \in 1 .. Len(t[i]) + 1
    BY <1>1, <2>1, <2>2
  <2>4. i \in Nat /\ k \in Nat
    BY <2>3
  <2> QED BY <2>1, <2>2, <2>3, <2>4 DEF Agree
<1>3. ASSUME NEW i \in Nat, NEW k \in Nat, Agree(s, t, i, k),
             CodeAt(s, i, k) < CodeAt(t, i, k)
      PROVE  StringLess(s, t)
  <2>1. k <= Len(t[i]) + 1
    BY <1>1, <1>3 DEF Agree
  <2>2. i \in DOMAIN s \cap DOMAIN t
    BY <1>1, <1>3 DEF Agree
  <2> QED BY <1>3, <2>1, <2>2 DEF Agree, StringLess
<1> QED BY <1>2, <1>3

LEMMA AgreeFacts ==
    ASSUME NEW s, NEW t, NEW i, NEW k, Agree(s, t, i, k)
    PROVE  /\ Agree(t, s, i, k)
           /\ i \in 1 .. Len(s) /\ k \in 1 .. Len(s[i]) + 1
           /\ i \in 1 .. Len(t) /\ k \in 1 .. Len(t[i]) + 1
BY DEF Agree

\* Where texts agree, their characters are the same.
LEMMA SameBefore ==
    ASSUME NEW s \in Strings, NEW t \in Strings, NEW i \in Nat, NEW k \in Nat,
           NEW j \in Nat, NEW l \in Nat, Agree(s, t, i, k), Before(j, l, i, k),
           j \in 1 .. Len(s), l \in 1 .. Len(s[j]) + 1
    PROVE  CodeAt(s, j, l) = CodeAt(t, j, l)
<1>1. /\ Len(s) \in Nat /\ Len(t) \in Nat
      /\ \A m \in 1 .. Len(s) : Len(s[m]) \in Nat
      /\ \A m \in 1 .. Len(t) : Len(t[m]) \in Nat
  BY StringFacts
<1>2. CASE j < i
  <2>1. j \in 1 .. i - 1 /\ j < Len(s) /\ j < Len(t)
    BY <1>1, <1>2 DEF Agree
  <2>2. s[j] = t[j]
    BY <2>1 DEF Agree
  <2> QED BY <2>1, <2>2 DEF CodeAt
<1>3. CASE j = i /\ l < k
  <2>1. l \in 1 .. k - 1 /\ l <= Len(s[j]) /\ l <= Len(t[j])
    BY <1>1, <1>3 DEF Agree
  <2>2. s[j][l] = t[j][l]
    BY <1>3, <2>1 DEF Agree
  <2> QED BY <2>1, <2>2 DEF CodeAt
<1> QED BY <1>2, <1>3 DEF Before

LEMMA AgreeChain ==
    ASSUME NEW s \in Strings, NEW t \in Strings, NEW u \in Strings,
           NEW i \in Nat, NEW k \in Nat, NEW j \in Nat, NEW l \in Nat,
           Agree(s, t, i, k), Agree(t, u, j, l), ~Before(j, l, i, k)
    PROVE  Agree(s, u, i, k)
<1>1. /\ Len(s) \in Nat /\ Len(t) \in Nat /\ Len(u) \in Nat
      /\ \A m \in 1 .. Len(s) : Len(s[m]) \in Nat
      /\ \A m \in 1 .. Len(u) : Len(u[m]) \in Nat
  BY StringFacts
<1>2. i <= j /\ (i = j => k <= l)
  BY DEF Before
<1>3. i \in 1 .. Len(s) /\ i \in 1 .. Len(u) /\ k \in 1 .. Len(s[i]) + 1
  BY <1>1, <1>2 DEF Agree
<1>4. \A m \in 1 .. i - 1 : m \in 1 .. j - 1
  BY <1>2
<1>5. \A m \in 1 .. i - 1 : s[m] = u[m]
  BY <1>4 DEF Agree
<1>6. k \in 1 .. Len(u[i]) + 1 /\ \A m \in 1 .. k - 1 : s[i][m] = u[i][m]
  <2>1. CASE i < j
    <3>1. i \in 1 .. j - 1
      BY <1>3, <2>1
    <3>2. t[i] = u[i]
      BY <3>1 DEF Agree
    <3> QED BY <3>2 DEF Agree
  <2>2. CASE i = j
    <3>1. k \in 1 .. Len(u[i]) + 1
      BY <1>1, <1>2, <1>3, <2>2 DEF Agree
    <3>2. \A m \in 1 .. k - 1 : m \in 1 .. l - 1
      BY <1>2, <2>2
    <3> QED BY <2>2, <3>1, <3>2 DEF Agree
  <2> QED BY <1>2, <2>1, <2>2
<1> QED BY <1>3, <1>5, <1>6 DEF Agree

LEMMA LessAsymmetric ==
    ASSUME NEW s \in Strings, NEW t \in Strings, StringLess(s, t)
    PROVE  ~StringLess(t, s)
<1> SUFFICES ASSUME StringLess(t, s) PROVE FALSE
  OBVIOUS
<1>1. PICK i, k \in Nat : Agree(s, t, i, k) /\ CodeAt(s, i, k) < CodeAt(t, i, k)
  BY LessFacts
<1>2. PICK j, l \in Nat : Agree(t, s, j, l) /\ CodeAt(t, j, l) < CodeAt(s, j, l)
  BY LessFacts
<1>3. /\ CodeAt(s, i, k) \in Int /\ CodeAt(t, i, k) \in Int
      /\ CodeAt(s, j, l) \in Int /\ CodeAt(t, j, l) \in Int
  BY <1>1, <1>2, CodeFacts DEF Agree
<1>4. CASE Before(i, k, j, l)
  <2>1. CodeAt(t, i, k) = CodeAt(s, i, k)
    BY <1>1, <1>2, <1>4, AgreeFacts, SameBefore
  <2> QED BY <1>1, <1>3, <2>1
<1>5. CASE Before(j, l, i, k)
  <2>1. CodeAt(s, j, l) = CodeAt(t, j, l)
    BY <1>1, <1>2, <1>5, AgreeFacts, SameBefore
  <2> QED BY <1>2, <1>3, <2>1
<1>6. CASE i = j /\ k = l
  BY <1>1, <1>2, <1>3, <1>6
<1> QED BY <1>4, <1>5, <1>6 DEF Before

LEMMA LessTransitive ==
    ASSUME NEW s \in Strings, NEW t \in Strings, NEW u \in Strings,
           StringLess(s, t), StringLess(t, u)
    PROVE  StringLess(s, u)
<1>1. PICK i, k \in Nat : Agree(s, t, i, k) /\ CodeAt(s, i, k) < CodeAt(t, i, k)
  BY LessFacts
<1>2. PICK j, l \in Nat : Agree(t, u, j, l) /\ CodeAt(t, j, l) < CodeAt(u, j, l)
  BY LessFacts
<1>3. CASE ~Before(j, l, i, k)
  <2>1. Agree(s, u, i, k)
    BY <1>1, <1>2, <1>3, AgreeChain
  <2>2. /\ CodeAt(s, i, k) \in Int /\ CodeAt(t, i, k) \in Int /\ CodeAt(u, i, k) \in Int
        /\ CodeAt(t, j, l) \in Int /\ CodeAt(u, j, l) \in Int
    BY <1>1, <1>2, <2>1, CodeFacts DEF Agree
  <2>3. CodeAt(t, i, k) <= CodeAt(u, i, k)
    <3>1. CASE Before(i, k, j, l)
      <4>1. CodeAt(t, i, k) = CodeAt(u, i, k)
        BY <1>1, <1>2, <3>1, AgreeFacts, SameBefore
      <4> QED BY <2>2, <4>1
    <3>2. CASE i = j /\ k = l
      BY <1>2, <2>2, <3>2
    <3> QED BY <1>3, <3>1, <3>2 DEF Before
  <2>4. CodeAt(s, i, k) < CodeAt(u, i, k)
    BY <1>1, <2>2, <2>3
  <2> QED BY <2>1, <2>4, LessFacts
<1>4. CASE Before(j, l, i, k)
  <2>1. Agree(s, u, j, l)
    <3>1. Agree(u, t, j, l) /\ Agree(t, s, i, k) /\ ~Before(i, k, j, l)
      BY <1>1, <1>2, <1>4, AgreeFacts DEF Before
    <3>2. Agree(u, s, j, l)
      BY <3>1, AgreeChain
    <3> QED BY <3>2, AgreeFacts
  <2>2. CodeAt(s, j, l) = CodeAt(t, j, l)
    BY <1>1, <1>4, <2>1, AgreeFacts, SameBefore
  <2> QED BY <1>2, <2>1, <2>2, LessFacts
<1> QED BY <1>3, <1>4

\* A text without the last parts of another is less.
LEMMA ShorterIsLess ==
    ASSUME NEW s \in Strings, NEW t \in Strings, Len(s) < Len(t),
           \A i \in 1 .. Len(s) : s[i] = t[i]
    PROVE  StringLess(s, t)
<1> DEFINE i == Len(s)
           k == Len(s[i]) + 1
<1>1. /\ i \in 1 .. Len(s) /\ i \in 1 .. Len(t) /\ i \in Nat /\ k \in Nat
      /\ k \in 1 .. Len(s[i]) + 1 /\ i < Len(t) /\ ~(i < Len(s))
      /\ \A j \in 1 .. i - 1 : j \in 1 .. Len(s)
  BY StringFacts
<1>2. s[i] = t[i]
  BY <1>1
<1>3. Agree(s, t, i, k)
  BY <1>1, <1>2 DEF Agree
<1>4. CodeAt(s, i, k) = -1 /\ CodeAt(t, i, k) = Colon
  BY <1>1, <1>2, CodeFacts
<1>5. -1 < Colon
  BY DEF Colon
<1> QED BY <1>1, <1>3, <1>4, <1>5, LessFacts

LEMMA LessTotal ==
    ASSUME NEW s \in Strings, NEW t \in Strings, s # t
    PROVE  StringLess(s, t) \/ StringLess(t, s)
<1> DEFINE Common == 1 .. Len(s) \cap 1 .. Len(t)
           Differ == {i \in Common : s[i] # t[i]}
<1>1. /\ Len(s) \in Nat /\ Len(t) \in Nat /\ s \in Seq(Seq(Characters))
      /\ t \in Seq(Seq(Characters))
  BY StringFacts DEF Strings
<1>2. CASE Differ = {}
  <2>1. CASE Len(s) < Len(t)
    <3>1. \A i \in 1 .. Len(s) : i \in Common
      BY <1>1, <2>1
    <3> QED BY <1>2, <2>1, <3>1, ShorterIsLess
  <2>2. CASE Len(t) < Len(s)
    <3>1. \A i \in 1 .. Len(t) : i \in Common
      BY <1>1, <2>2
    <3> QED BY <1>2, <2>2, <3>1, ShorterIsLess
  <2>3. CASE Len(s) = Len(t)
    <3>1. \A i \in 1 .. Len(s) : s[i] = t[i]
      BY <1>2, <2>3
    <3> QED BY <1>1, <2>3, <3>1, SeqEqual
  <2> QED BY <1>1, <2>1, <2>2, <2>3
<1>3. CASE Differ # {}
  <2>1. PICK i \in Differ : \A j \in Differ : i <= j
    <3>1. Differ \subseteq Nat
      BY <1>1
    <3> HIDE DEF Differ
    <3> QED BY <1>3, <3>1, Least
  <2>2. /\ i \in 1 .. Len(s) /\ i \in 1 .. Len(t) /\ i \in Nat /\ s[i] # t[i]
        /\ s[i] \in Seq(Characters) /\ t[i] \in Seq(Characters)
        /\ Len(s[i]) \in Nat /\ Len(t[i]) \in Nat
    BY <2>1, StringFacts
  <2>3. \A j \in 1 .. i - 1 : s[j] = t[j]
    <3>1. \A j \in 1 .. i - 1 : j \in Common /\ ~(i <= j)
      BY <1>1, <2>2
    <3> QED BY <2>1, <3>1
  <2> DEFINE a == s[i]
             b == t[i]
             Ks == {k \in 1 .. Len(a) + 1 \cap 1 .. Len(b) + 1 :
                       k = Len(a) + 1 \/ k = Len(b) + 1 \/ a[k] # b[k]}
  <2> HIDE DEF Differ, Common, a, b
  <2>4. PICK k \in Ks : \A l \in Ks : k <= l
    <3>1. Len(a) + 1 \in Ks \/ Len(b) + 1 \in Ks
      BY <2>2 DEF a, b
    <3>2. Ks \subseteq Nat
      OBVIOUS
    <3> HIDE DEF Ks
    <3> QED BY <3>1, <3>2, Least
  <2>5. /\ k \in Nat /\ k \in 1 .. Len(a) + 1 /\ k \in 1 .. Len(b) + 1
        /\ k = Len(a) + 1 \/ k = Len(b) + 1 \/ a[k] # b[k]
    BY <2>4
  <2>6. \A j \in 1 .. k - 1 : a[j] = b[j]
    <3>1. \A j \in 1 .. k - 1 : ~(k <= j) /\ j \in 1 .. Len(a) + 1 /\ j \in 1 .. Len(b) + 1
      BY <2>2, <2>5 DEF a, b
    <3> QED BY <2>4, <3>1
  <2> HIDE DEF Ks
  <2>7. Agree(s, t, i, k) /\ Agree(t, s, i, k)
    BY <2>2, <2>3, <2>5, <2>6 DEF Agree, a, b
  <2>8. /\ CodeAt(s, i, k) \in Int /\ CodeAt(t, i, k) \in Int
        /\ k <= Len(a) => CodeAt(s, i, k) = a[k] /\ a[k] \in Characters
        /\ k = Len(a) + 1 => CodeAt(s, i, k) \notin Characters
        /\ k <= Len(b) => CodeAt(t, i, k) = b[k] /\ b[k] \in Characters
        /\ k = Len(b) + 1 => CodeAt(t, i, k) \notin Characters
    BY <2>2, <2>5, CodeFacts DEF a, b
  <2>9. CodeAt(s, i, k) # CodeAt(t, i, k)
    <3>1. (k = Len(a) + 1 \/ k <= Len(a)) /\ (k = Len(b) + 1 \/ k <= Len(b))
      BY <2>2, <2>5 DEF a, b
    <3>2. CASE k = Len(a) + 1 /\ k = Len(b) + 1
      <4>1. Len(a) = Len(b) /\ \A j \in 1 .. Len(a) : a[j] = b[j]
        BY <2>2, <2>6, <3>2 DEF a, b
      <4>2. a = b
        BY <2>2, <4>1, SeqEqual DEF a, b
      <4> QED BY <2>2, <4>2 DEF a, b
    <3>3. CASE k = Len(a) + 1 /\ k <= Len(b)
      BY <2>8, <3>3
    <3>4. CASE k <= Len(a) /\ k = Len(b) + 1
      BY <2>8, <3>4
    <3>5. CASE k <= Len(a) /\ k <= Len(b)
      <4>1. k # Len(a) + 1 /\ k # Len(b) + 1
        BY <2>2, <2>5, <3>5 DEF a, b
      <4> QED BY <2>5, <2>8, <3>5, <4>1
    <3> QED BY <3>1, <3>2, <3>3, <3>4, <3>5
  <2>10. CodeAt(s, i, k) < CodeAt(t, i, k) \/ CodeAt(t, i, k) < CodeAt(s, i, k)
    BY <2>8, <2>9
  <2> QED BY <2>2, <2>5, <2>7, <2>10, LessFacts
<1> QED BY <1>2, <1>3

-----------------------------------------------------------------------------
(***************************************************************************)
(* The order of the addresses, and that all of them are of strings.        *)
(***************************************************************************)
Addresses == [domain : Strings, interface : Strings, instance : Strings]

AddressType == address \in [Objects -> Addresses]

LEMMA LessOrder ==
    ASSUME NEW x \in Addresses, NEW y \in Addresses
    PROVE  /\ Unequal(x, y) <=> ~Equal(x, y)
           /\ Equal(x, y) <=> (~Less(x, y) /\ ~Less(y, x))
           /\ ~(Less(x, y) /\ Less(y, x))
<1>1. /\ x.domain \in Strings /\ x.interface \in Strings /\ x.instance \in Strings
      /\ y.domain \in Strings /\ y.interface \in Strings /\ y.instance \in Strings
  BY DEF Addresses
<1>2. \A s \in Strings : ~StringLess(s, s)
  BY LessAsymmetric
<1>3. \A s, t \in Strings : ~(StringLess(s, t) /\ StringLess(t, s))
  BY LessAsymmetric
<1>4. \A s, t \in Strings : s = t \/ StringLess(s, t) \/ StringLess(t, s)
  BY LessTotal
<1>5. Unequal(x, y) <=> ~Equal(x, y)
  BY DEF Unequal, Equal
<1>6. Equal(x, y) => ~Less(x, y) /\ ~Less(y, x)
  BY <1>1, <1>2 DEF Equal, Less
<1>7. ~Equal(x, y) => Less(x, y) \/ Less(y, x)
  BY <1>1, <1>4 DEF Equal, Less
<1>8. ~(Less(x, y) /\ Less(y, x))
  BY <1>1, <1>2, <1>3 DEF Less
<1> QED BY <1>5, <1>6, <1>7, <1>8

LEMMA LessChain ==
    ASSUME NEW x \in Addresses, NEW y \in Addresses, NEW z \in Addresses,
           Less(x, y), Less(y, z)
    PROVE  Less(x, z)
<1>1. /\ x.domain \in Strings /\ x.interface \in Strings /\ x.instance \in Strings
      /\ y.domain \in Strings /\ y.interface \in Strings /\ y.instance \in Strings
      /\ z.domain \in Strings /\ z.interface \in Strings /\ z.instance \in Strings
  BY DEF Addresses
<1>2. \A s, t, u \in Strings : StringLess(s, t) /\ StringLess(t, u) => StringLess(s, u)
  BY LessTransitive
<1> QED BY <1>1, <1>2 DEF Less

LEMMA NewIsTyped == NewAddress \in Addresses
<1>1. <<>> \in Seq(Characters)
  OBVIOUS
<1>2. EmptyText \in Seq(Seq(Characters)) /\ EmptyText # <<>>
  BY <1>1 DEF EmptyText
<1> QED BY <1>2 DEF NewAddress, Addresses, Strings

LEMMA SetIsTyped ==
    ASSUME NEW x \in Addresses, NEW text \in Strings
    PROVE  Set(x, text) \in Addresses
<1>1. ASSUME IsAddress(text) PROVE Parsed(text) \in Addresses
  <2>1. /\ Len(text) \in {3, 4} /\ text[1] \in Seq(Characters) /\ text[2] \in Seq(Characters)
        /\ Last(text) \in Seq(Characters) /\ text[3] \in Seq(Characters)
    <3>1. Len(text) \in {3, 4} /\ \A i \in 1 .. Len(text) : text[i] \in Seq(Characters)
      BY <1>1, StringFacts DEF IsAddress
    <3>2. /\ 1 \in 1 .. Len(text) /\ 2 \in 1 .. Len(text) /\ 3 \in 1 .. Len(text)
          /\ Len(text) \in 1 .. Len(text)
      BY <3>1
    <3> QED BY <3>1, <3>2 DEF Last
  <2>2. VersionIn(text) \in Seq(Characters)
    BY <2>1, DefaultIsVersion DEF VersionIn
  <2>3. ASSUME NEW p \in Seq(Characters) PROVE <<p>> \in Strings
    BY DEF Strings
  <2>4. <<text[2], VersionIn(text)>> \in Strings
    BY <2>1, <2>2 DEF Strings
  <2>5. <<text[1]>> \in Strings /\ <<Last(text)>> \in Strings
    BY <2>1, <2>3
  <2> QED BY <2>4, <2>5 DEF Parsed, Addresses
<1> QED BY <1>1 DEF Set

LEMMA JoinedIsTyped ==
    ASSUME NEW s \in Strings, NEW t \in Strings
    PROVE  s \o t \in Strings
<1>1. s \in Seq(Seq(Characters)) /\ t \in Seq(Seq(Characters))
  BY DEF Strings
<1>2. s \o t \in Seq(Seq(Characters)) /\ Len(s \o t) = Len(s) + Len(t)
  BY <1>1, ConcatProperties
<1>3. Len(s \o t) # 0
  BY <1>2, StringFacts
<1> QED BY <1>2, <1>3, EmptySeq DEF Strings

LEMMA NextTyped == AddressType /\ [Next]_vars => AddressType'
<1> SUFFICES ASSUME AddressType, [Next]_vars PROVE AddressType'
  OBVIOUS
<1>1. ASSUME NEW a \in Objects, NEW x \in Addresses, Assign(a, x) PROVE AddressType'
  BY <1>1 DEF AddressType, Assign
<1>2. ASSUME NEW a \in Objects, NEW text \in Strings, ConstructFromText(a, text)
      PROVE  AddressType'
  BY <1>1, <1>2, NewIsTyped, SetIsTyped DEF ConstructFromText
<1>3. ASSUME NEW a \in Objects, NEW text \in Texts, SetAddress(a, text) PROVE AddressType'
  <2>1. address[a] \in Addresses /\ text \in Strings
    BY TextsAssumption DEF AddressType
  <2> QED BY <1>1, <1>3, <2>1, SetIsTyped DEF SetAddress
<1>4. ASSUME NEW a \in Objects, NEW d \in Parts, NEW i \in Parts, NEW n \in Parts,
             ConstructFrom(a, d, i, n)
      PROVE  AddressType'
  <2>1. d \o i \o n \in Strings
    BY TextsAssumption, JoinedIsTyped
  <2> QED BY <1>2, <1>4, <2>1 DEF ConstructFrom
<1>5. ASSUME NEW a \in Objects, NEW b \in Objects, Copy(a, b) PROVE AddressType'
  <2>1. address[b] \in Addresses
    BY DEF AddressType
  <2> QED BY <1>1, <1>5, <2>1 DEF Copy
<1>6. ASSUME NEW a \in Objects, NEW field \in DOMAIN NewAddress, NEW part \in Parts,
             SetPart(a, field, part)
      PROVE  AddressType'
  <2>1. address[a] \in Addresses /\ part \in Strings
        /\ field \in {"domain", "interface", "instance"}
    BY TextsAssumption DEF AddressType, NewAddress
  <2>2. [address[a] EXCEPT ![field] = part] \in Addresses
    BY <2>1 DEF Addresses
  <2> QED BY <1>1, <1>6, <2>2 DEF SetPart
<1>7. CASE UNCHANGED vars
  BY <1>7 DEF vars, AddressType
<1> QED BY <1>2, <1>3, <1>4, <1>5, <1>6, <1>7, TextsAssumption DEF Next

\* operator<() is a strict total order of addresses that agrees with operator==(), on all
\* strings of characters: a sorted map has every address once.
THEOREM AddressesOrdered == Spec => []StrictOrder
<1>1. Init => AddressType
  BY NewIsTyped DEF Init, AddressType
<1>2. AddressType => StrictOrder
  <2> SUFFICES ASSUME AddressType, NEW a \in Objects, NEW b \in Objects
               PROVE  LET x == address[a]  y == address[b]
                      IN  /\ Unequal(x, y) = ~Equal(x, y)
                          /\ Equal(x, y) = (~Less(x, y) /\ ~Less(y, x))
                          /\ ~(Less(x, y) /\ Less(y, x))
                          /\ \A text \in Texts :
                                LET z == Set(NewAddress, text)
                                IN  Less(x, y) /\ Less(y, z) => Less(x, z)
    BY DEF StrictOrder
  <2> DEFINE x == address[a]
             y == address[b]
  <2>1. x \in Addresses /\ y \in Addresses
    BY DEF AddressType
  <2> HIDE DEF x, y
  <2>2. Unequal(x, y) \in BOOLEAN /\ Equal(x, y) \in BOOLEAN /\ Less(x, y) \in BOOLEAN
    BY DEF Unequal, Equal, Less
  <2>3. /\ Unequal(x, y) = ~Equal(x, y)
        /\ Equal(x, y) = (~Less(x, y) /\ ~Less(y, x))
        /\ ~(Less(x, y) /\ Less(y, x))
    BY <2>1, <2>2, LessOrder
  <2>4. ASSUME NEW text \in Texts, Less(x, y), Less(y, Set(NewAddress, text))
        PROVE  Less(x, Set(NewAddress, text))
    <3>1. Set(NewAddress, text) \in Addresses
      BY TextsAssumption, NewIsTyped, SetIsTyped
    <3> QED BY <2>1, <2>4, <3>1, LessChain
  <2> QED BY <2>3, <2>4 DEF x, y
<1> QED BY <1>1, <1>2, NextTyped, PTL DEF Spec
==============================================================================
