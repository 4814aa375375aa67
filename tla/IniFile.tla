------------------------------- MODULE IniFile -------------------------------
(***************************************************************************)
(* IniFileReader (src/CommonAPI/IniFileReader.cpp), which reads the        *)
(* configuration of the Runtime.  A file is a sequence of lines, as the    *)
(* reader takes them after trimming:                                       *)
(*                                                                         *)
(*    section    [name]                                                    *)
(*    unclosed   begins with [ and has no ]                                *)
(*    entry      key = value                                               *)
(*    other      a comment, an empty line, or one without =                *)
(***************************************************************************)
EXTENDS Integers, SequencesExt

CONSTANTS
    NoSection,  \* currentSection is null
    Empty       \* the empty string

NoMappings == [k \in {} |-> Empty]

NewReader == [sections |-> NoMappings, current |-> NoSection]

\* A map with the key, which keeps the value it may have.
Added(mappings, key, value) ==
    [k \in DOMAIN mappings \cup {key} |-> IF k \in DOMAIN mappings THEN mappings[k] ELSE value]

\* Mutant: a repeated section goes on with the first one.
Continues(reader, name) ==
    [sections |-> Added(reader.sections, name, NoMappings), current |-> name]

\* A repeated section is ignored, with the lines behind it.
ReadSection(reader, name) ==
    IF name \in DOMAIN reader.sections
    THEN [reader EXCEPT !.current = NoSection]
    ELSE [sections |-> Added(reader.sections, name, NoMappings), current |-> name]

ReadEntry(reader, key, value) ==
    IF reader.current = NoSection
    THEN reader
    ELSE [reader EXCEPT !.sections[reader.current] = Added(@, key, value)]

\* An unclosed section leaves the current one as it is.
ReadLine(reader, line) ==
    CASE line.kind = "section" -> ReadSection(reader, line.name)
      [] line.kind = "entry" -> ReadEntry(reader, line.key, line.value)
      [] OTHER -> reader

\* The reader after each number of lines.
Readers(text) ==
    LET reader[n \in 0 .. Len(text)] ==
            IF n = 0 THEN NewReader ELSE ReadLine(reader[n - 1], text[n])
    IN  reader

\* load(): what is read of a file that could be opened.
Load(text) == Readers(text)[Len(text)].sections

\* getSection(name)->getValue(key)
GetValue(sections, name, key) ==
    IF name \in DOMAIN sections /\ key \in DOMAIN sections[name]
    THEN sections[name][key] ELSE Empty

\* The lines are numbered, and a section has a name, be it empty.
IsText(text) ==
    /\ Len(text) \in Nat /\ DOMAIN text = 1 .. Len(text)
    /\ \A i \in DOMAIN text : text[i].kind = "section" => text[i].name # NoSection

------------------------------------------------------------------------------
(***************************************************************************)
(* What a file says, without reading it line by line: each section is the  *)
(* first of its name, up to the next section, and each value the first of  *)
(* its key in there.                                                       *)
(***************************************************************************)
Headers(text, name) == {i \in DOMAIN text : text[i].kind = "section" /\ text[i].name = name}

IsWithin(text, h, i) ==
    h < i /\ \A j \in h + 1 .. i : text[j].kind # "section"

Entries(text, name, key) ==
    {i \in DOMAIN text :
        /\ text[i].kind = "entry" /\ text[i].key = key
        /\ Headers(text, name) # {} /\ IsWithin(text, Min(Headers(text, name)), i)}

ValueSaid(text, name, key) ==
    IF Entries(text, name, key) = {} THEN Empty ELSE text[Min(Entries(text, name, key))].value
==============================================================================
