--------------------------- MODULE MCSerialization ---------------------------
(***************************************************************************)
(* An instance of Serialization for TLC: calls of up to two arguments with *)
(* structs in structs, structs in variants and variants in structs, with   *)
(* and without deployments, and with values over two numbers.              *)
(***************************************************************************)
EXTENDS Serialization, SequencesExt

CONSTANTS
    Numbers,      \* the values of elements
    Seconds       \* the numbers of the deployed types that second arguments have

\* A node with trees below it, each a function of the paths in it.
Tree(node, trees) ==
    LET paths == {<<>>} \cup UNION {{<<i>> \o p : p \in DOMAIN trees[i]} : i \in DOMAIN trees}
    IN  [p \in paths |-> IF p = <<>> THEN node ELSE trees[p[1]][Tail(p)]]

TypeOf(kind, types_) == Tree([kind |-> kind, size |-> Len(types_)], types_)

Number == TypeOf("int", <<>>)
Text == TypeOf("str", <<>>)
Enum == TypeOf("enum", <<>>)
Pair == TypeOf("struct", <<Number, Text>>)
Nested == TypeOf("struct", <<TypeOf("struct", <<Number, Enum>>), Text>>)
Choice == TypeOf("variant", <<Number, Text>>)
Mixed == TypeOf("struct", <<TypeOf("variant", <<Pair, Text>>), Number>>)

None == Tree("null", <<>>)
EmptyOne == Tree("empty", <<>>)
Fixed == Tree("fixed", <<>>)
Utf16 == Tree("utf16", <<>>)
Values(depls) == Tree("values", depls)

Deployed == <<
    <<Text, Utf16>>, <<Enum, None>>, <<Pair, EmptyOne>>, <<Pair, Values(<<Fixed, None>>)>>,
    <<Choice, None>>, <<Choice, Values(<<Fixed, Utf16>>)>>,
    <<Nested, Values(<<Values(<<Fixed, Fixed>>), Utf16>>)>>, <<Nested, Values(<<None, Utf16>>)>>,
    <<Mixed, Values(<<Values(<<Values(<<Fixed, Utf16>>), None>>), Fixed>>)>>>>

\* What is in a type that a variant does not hold is 0.
ValuesOf(type) ==
    LET isHeld(value, p) ==
            \A q \in DOMAIN type : Above(q, p) /\ type[q].kind = "variant" =>
                p[Len(q) + 1] + value[q] = type[q].size + 1
        fits(value, p) ==
            CASE type[p].kind = "struct" \/ ~isHeld(value, p) -> value[p] = 0
              [] type[p].kind = "variant" -> value[p] \in 1 .. type[p].size
              [] OTHER -> value[p] \in Numbers
    IN  {value \in [DOMAIN type -> Numbers \cup 0 .. 2] : \A p \in DOMAIN type : fits(value, p)}

Arguments(deployed) ==
    LET type == deployed[1]
        depl == [p \in DOMAIN type |-> IF p \in DOMAIN deployed[2] THEN deployed[2][p] ELSE "null"]
    IN  [type : {type}, value : ValuesOf(type), depl : {depl}]

CallOf(arguments) ==
    LET sub(part) == [i \in DOMAIN arguments |-> arguments[i][part]]
    IN  [type |-> TypeOf("call", sub("type")), value |-> Tree(0, sub("value")),
         depl |-> Values(sub("depl"))]

MCCalls ==
    LET first == UNION {Arguments(Deployed[n]) : n \in DOMAIN Deployed}
        second == UNION {Arguments(Deployed[n]) : n \in Seconds}
    IN  {CallOf(<<>>)} \cup {CallOf(<<a>>) : a \in first}
        \cup {CallOf(<<a, b>>) : a \in first, b \in second}
==============================================================================
