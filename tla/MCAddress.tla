------------------------------ MODULE MCAddress ------------------------------
(***************************************************************************)
(* An instance of Address for TLC.                                         *)
(***************************************************************************)
EXTENDS Address

CONSTANTS a1, a2

LetterA == 97

A == <<LetterA>>
None == <<>>
Version1 == <<LetterV, 49, Underscore, 48>>
Version2 == <<LetterV, 50, Underscore>>
NoUnderscore == <<LetterV, 49>>
NoLetterV == <<LetterA, Underscore>>
NoDigit == <<LetterV, Underscore, LetterA>>

MCObjects == {a1, a2}

Symmetry == Permutations(MCObjects)

\* Texts of two to five parts, with every kind of version.
MCTexts == {
    <<A, A>>, <<A, A, A>>, <<A, None, Version1>>, <<A, A, Version1, None>>, <<A, A, Version2, A>>,
    <<A, A, None, A>>, <<A, A, NoUnderscore, A>>, <<A, A, NoLetterV, A>>, <<A, A, NoDigit, A>>,
    <<A, A, Version1, A, A>>}

MCParts == {<<None>>, <<A, Version2>>, <<Version1, A>>}
==============================================================================
