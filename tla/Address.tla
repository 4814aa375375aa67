------------------------------- MODULE Address -------------------------------
(***************************************************************************)
(* CommonAPI::Address (src/CommonAPI/Address.cpp).  A text is the sequence *)
(* of its parts between colons, and a part a sequence of characters, so    *)
(* that joining two texts by a colon appends one to the other.  A          *)
(* character is its code, by which std::string compares.  The              *)
(* interface of an address ends in its version, which is a part of its     *)
(* own: "domain:interface:v1_0:instance".                                  *)
(*                                                                         *)
(* setAddress() returns nothing: the caller does not hear of a text that   *)
(* is no address.                                                          *)
(***************************************************************************)
EXTENDS Integers, SequencesExt

CONSTANTS
    Objects,  \* the Address objects of the program
    Texts,    \* the texts it sets addresses from
    Parts     \* the texts it sets a domain, an interface or an instance to

Colon == 58
Underscore == 95
LetterV == 118
Digits == 48 .. 57

Characters == (0 .. 255) \ {Colon}

Strings == Seq(Seq(Characters)) \ {<<>>}

ASSUME TextsAssumption == Texts \cup Parts \subseteq Strings

VARIABLES
    address,  \* address[a]: domain_, interface_ and instance_ of a
    whole     \* ghost: the objects that were last set as a whole, and that took it

vars == <<address, whole>>

EmptyText == << <<>> >>

NewAddress == [domain |-> EmptyText, interface |-> EmptyText, instance |-> EmptyText]

\* v1_0
DefaultVersion == <<LetterV, 49, Underscore, 48>>

\* v, then digits and underscores, with at least one underscore
IsVersion(part) ==
    /\ Underscore \in Range(part)
    /\ part[1] = LetterV
    /\ \A i \in 2 .. Len(part) : part[i] \in Digits \cup {Underscore}

------------------------------------------------------------------------------
\* Three parts, or four of which the third one is a version or empty.
IsAddress(text) ==
    \/ Len(text) = 3
    \/ Len(text) = 4 /\ (text[3] = <<>> \/ IsVersion(text[3]))

VersionIn(text) == IF Len(text) = 3 \/ text[3] = <<>> THEN DefaultVersion ELSE text[3]

\* Mutant: the default version is not added to the interface.
ParsedWithoutDefault(text) ==
    [domain |-> <<text[1]>>,
     interface |-> IF Len(text) = 3 THEN <<text[2]>> ELSE <<text[2], text[3]>>,
     instance |-> <<Last(text)>>]

Parsed(text) ==
    [domain |-> <<text[1]>>, interface |-> <<text[2], VersionIn(text)>>,
     instance |-> <<Last(text)>>]

\* setAddress(): all of the address or nothing of it.
Set(x, text) == IF IsAddress(text) THEN Parsed(text) ELSE x

\* getAddress(), and what operator<<() writes
GetAddress(x) == x.domain \o x.interface \o x.instance

\* The code of the k-th character of the i-th part.  Behind the part comes the colon, and
\* behind the last part the end, which is less than all characters.
CodeAt(text, i, k) ==
    CASE k <= Len(text[i]) -> text[i][k]
      [] k > Len(text[i]) /\ i < Len(text) -> Colon
      [] OTHER -> -1

\* operator<() on strings: s and t differ first at the k-th character of the i-th part.
StringLess(s, t) ==
    \E i \in DOMAIN s \cap DOMAIN t :
        /\ \A j \in 1 .. i - 1 : s[j] = t[j]
        /\ \E k \in 1 .. Len(s[i]) + 1 :
              /\ k <= Len(t[i]) + 1
              /\ \A j \in 1 .. k - 1 : s[i][j] = t[i][j]
              /\ CodeAt(s, i, k) < CodeAt(t, i, k)

Equal(x, y) == x.domain = y.domain /\ x.interface = y.interface /\ x.instance = y.instance

Unequal(x, y) == x.domain # y.domain \/ x.interface # y.interface \/ x.instance # y.instance

\* Mutant: the instances count whatever the interfaces are.
LessByAny(x, y) ==
    \/ StringLess(x.domain, y.domain)
    \/ /\ x.domain = y.domain
       /\ StringLess(x.interface, y.interface) \/ StringLess(x.instance, y.instance)

Less(x, y) ==
    \/ StringLess(x.domain, y.domain)
    \/ /\ x.domain = y.domain
       /\ \/ StringLess(x.interface, y.interface)
          \/ x.interface = y.interface /\ StringLess(x.instance, y.instance)

------------------------------------------------------------------------------
Init ==
    /\ address = [a \in Objects |-> NewAddress]
    /\ whole = {}

Assign(a, x) == address' = [address EXCEPT ![a] = x]

SetAddress(a, text) ==
    /\ Assign(a, Set(address[a], text))
    /\ whole' = IF IsAddress(text) THEN whole \cup {a} ELSE whole

\* The constructor from a text leaves the address empty if the text is none.
ConstructFromText(a, text) ==
    /\ Assign(a, Set(NewAddress, text))
    /\ whole' = IF IsAddress(text) THEN whole \cup {a} ELSE whole \ {a}

\* The constructor from a domain, an interface and an instance joins them by colons.
ConstructFrom(a, domain, interface, instance) ==
    ConstructFromText(a, domain \o interface \o instance)

\* The copy constructor and operator=()
Copy(a, b) ==
    /\ Assign(a, address[b])
    /\ whole' = IF b \in whole THEN whole \cup {a} ELSE whole \ {a}

\* setDomain(), setInterface() and setInstance() check nothing.
SetPart(a, field, part) ==
    /\ Assign(a, [address[a] EXCEPT ![field] = part])
    /\ whole' = whole \ {a}

Next ==
    \E a \in Objects :
        \/ \E text \in Texts : SetAddress(a, text) \/ ConstructFromText(a, text)
        \/ \E d, i, n \in Parts : ConstructFrom(a, d, i, n)
        \/ \E b \in Objects : Copy(a, b)
        \/ \E field \in DOMAIN NewAddress, part \in Parts : SetPart(a, field, part)

Spec == Init /\ [][Next]_vars

------------------------------------------------------------------------------
(***************************************************************************)
(* Properties                                                              *)
(***************************************************************************)
\* An address that was last set as a whole is rebuilt from its text, exactly, and its
\* interface ends in a version, whether or not the text had one.  Any other address is
\* rebuilt exactly from the second time on, whatever its parts were set to (a setter may
\* put colons into them, or leave out the version, Address.cpp:175).
ReadsBack ==
    \A a \in Objects :
        LET again == Set(address[a], GetAddress(address[a]))
        IN  /\ a \in whole => /\ Set(NewAddress, GetAddress(address[a])) = address[a]
                              /\ IsVersion(Last(address[a].interface))
            /\ Set(again, GetAddress(again)) = again

\* Maps that are sorted by addresses keep each one once: operator<() is a strict total
\* order that agrees with operator==(), and operator!=() is its opposite.
StrictOrder ==
    \A a, b \in Objects :
        LET x == address[a]  y == address[b]
        IN  /\ Unequal(x, y) = ~Equal(x, y)
            /\ Equal(x, y) = (~Less(x, y) /\ ~Less(y, x))
            /\ ~(Less(x, y) /\ Less(y, x))
            /\ \A text \in Texts :
                  LET z == Set(NewAddress, text)
                  IN  Less(x, y) /\ Less(y, z) => Less(x, z)
==============================================================================
