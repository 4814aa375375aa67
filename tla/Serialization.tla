---------------------------- MODULE Serialization ----------------------------
(***************************************************************************)
(* The arguments of a call on their way through the streams of a binding:  *)
(* SerializableArguments, InputStream, OutputStream, TypeOutputStream,     *)
(* Struct, Deployable, Deployment and the stream visitors of Variant       *)
(* (src/include/CommonAPI).                                                *)
(*                                                                         *)
(* A call is a tree.  A node is the path that leads to it: <<>> is the     *)
(* call, <<i>> its i-th argument, and Append(p, i) the i-th member of a    *)
(* struct p, or what a variant p holds if it holds its i-th type.  The     *)
(* call has for each node                                                  *)
(*                                                                         *)
(*   type    its kind, "call", "struct", "variant" or that of an element,  *)
(*           such as "int" or "enum", and its size, the number of          *)
(*           arguments, members or types                                   *)
(*   value   a number, or the index of a variant, which counts from the    *)
(*           end                                                           *)
(*   depl    the deployment that is declared for it: "values", a tuple     *)
(*           with one for each member or type, "null", "empty", the        *)
(*           EmptyDeployment, which has nothing to say, or another         *)
(*                                                                         *)
(* The readers and writers of structs and variants are recursive.  Here    *)
(* todo is the stack of the calls that they still have to make.            *)
(*                                                                         *)
(* The streams are the binding's.  A stream is a sequence of elements, of  *)
(* which it may fail to write, or to read, the one of its number failAt;   *)
(* it then has an error for good, and works on as if nothing had happened. *)
(***************************************************************************)
EXTENDS Integers, Sequences, FiniteSets

CONSTANTS
    Calls,        \* the calls, [type, value, depl]
    FailurePoints \* the numbers of the elements that a stream may fail at; 0: none

\* p is above q in a tree.
Above(p, q) == Len(p) < Len(q) /\ \A k \in 1 .. Len(p) : p[k] = q[k]

\* A tree of any shape, whose members and types are numbered from 1.
IsCall(c) ==
    LET nodes == DOMAIN c.type
    IN  /\ IsFiniteSet(nodes) /\ nodes \subseteq Seq(Nat) /\ <<>> \in nodes
        /\ DOMAIN c.value = nodes /\ DOMAIN c.depl = nodes
        /\ \A p \in nodes :
              /\ p = <<>> <=> c.type[p].kind = "call"
              /\ c.type[p].size \in Nat
              /\ c.type[p].kind \notin {"call", "struct", "variant"} => c.type[p].size = 0
              /\ c.type[p].kind = "variant" => c.value[p] \in 1 .. c.type[p].size
              /\ \A i \in 1 .. c.type[p].size : Append(p, i) \in nodes
              /\ \A q \in nodes : Above(p, q) => q[Len(p) + 1] \in 1 .. c.type[p].size

ASSUME FailuresAssumption == FailurePoints \subseteq Nat
ASSUME CallsAssumption == \A c \in Calls : IsCall(c)

VARIABLES
    call,     \* the arguments as they are sent
    types,    \* what the TypeOutputStream has taken
    out, in,  \* the OutputStream of the sender and the InputStream of the receiver
    targets,  \* the values of the arguments as they are received
    at,       \* where the call is
    next,     \* the argument that is next
    todo      \* the calls on the stream that are still to be made for the one before

vars == <<call, types, out, in, targets, at, next, todo>>

Nodes == DOMAIN call.type
Kind(p) == call.type[p].kind
Size(p) == call.type[p].size

\* Value initialisation; a variant holds its first type.
DefaultValue(p) == IF Kind(p) = "variant" THEN Size(p) ELSE 0

\* A pointer to a deployment is the node that it is declared for.
NullDepl == <<0>>
Depl(pointer) == IF pointer = NullDepl THEN "null" ELSE call.depl[pointer]

\* What the readers and writers of a struct give its members.
MemberDepl(depls, i) == IF Depl(depls) = "values" THEN Append(depls, i) ELSE NullDepl

\* Mutant: the index counts the deployments from the front.
ContentDeplFromFront(depls, index) ==
    IF Depl(depls) = "values" THEN Append(depls, index) ELSE NullDepl

\* What ApplyStreamVisitor gives the object in a variant.
ContentDepl(depls, index) ==
    IF Depl(depls) = "values" THEN Append(depls, Size(depls) + 1 - index) ELSE NullDepl

Content(p, index) == Append(p, Size(p) + 1 - index)

------------------------------------------------------------------------------
(***************************************************************************)
(* The streams of the binding                                              *)
(***************************************************************************)
NewStream(failAt) ==
    [elements |-> <<>>, position |-> 0, tried |-> 0, failAt |-> failAt, error |-> FALSE]

HasError(stream) == stream.error

Fails(stream) == stream.tried + 1 = stream.failAt

Tried(stream) == [stream EXCEPT !.tried = @ + 1, !.error = @ \/ Fails(stream)]

\* An enumeration is written as its base type, and of a variant its index.
Base(kind) ==
    CASE kind = "enum" -> "int"
      [] kind = "variant" -> "index"
      [] OTHER -> kind

Plain(depl) == IF depl = "empty" THEN "null" ELSE depl

TypeElement(kind, depl) == [type |-> Base(kind), depl |-> Plain(depl)]

Element(kind, depl, value) == [type |-> Base(kind), depl |-> Plain(depl), value |-> value]

WriteElement(output, kind, depl, value) ==
    IF Fails(output) THEN Tried(output)
    ELSE [Tried(output) EXCEPT !.elements = Append(@, Element(kind, depl, value))]

\* What is read as something else than it was written as.
Garbage == -1

ReadElement(input, kind, depl, value) ==
    IF Fails(input) \/ input.position = Len(input.elements)
    THEN [input |-> [Tried(input) EXCEPT !.error = TRUE], value |-> value]
    ELSE LET element == input.elements[input.position + 1]
             isRead == element.type = Base(kind) /\ element.depl = Plain(depl)
         IN  [input |-> [Tried(input) EXCEPT !.position = @ + 1],
              value |-> IF isRead THEN element.value ELSE Garbage]

------------------------------------------------------------------------------
(***************************************************************************)
(* The stack                                                               *)
(***************************************************************************)
Frame(does, path, depl, index) ==
    [does |-> does, path |-> path, depl |-> depl, index |-> index]

Visit(path, depl) == Frame("visit", path, depl, 0)

\* Unless the stream has an error.
VisitChecked(path, depl) == Frame("visit checked", path, depl, 0)

SetIndex(path, index) == Frame("set", path, NullDepl, index)

Top == Head(todo)

\* A call for the top of the stack calls others, and returns after them.
Calling(frames) == todo' = frames \o Tail(todo)

IsElement(p) == Kind(p) \notin {"call", "struct", "variant"}

\* The operators << and >> of the argument that is next.
Stream(stage) ==
    /\ at = stage /\ todo = <<>> /\ next <= Size(<<>>)
    /\ todo' = <<Visit(<<next>>, <<next>>)>>
    /\ next' = next + 1

------------------------------------------------------------------------------
(***************************************************************************)
(* TypeOutputStream: the types of the elements that the arguments will be  *)
(* written as, with their deployments.                                     *)
(***************************************************************************)
\* Mutant: the members have no deployment.
StructTypeWriterUndeployed(p, depls) == [i \in 1 .. Size(p) |-> Visit(Append(p, i), NullDepl)]

\* An EmptyDeployment is handed on to the members.
StructTypeWriter(p, depls) ==
    [i \in 1 .. Size(p) |->
        Visit(Append(p, i), IF Depl(depls) = "empty" THEN depls ELSE MemberDepl(depls, i))]

TypeOutputStreamWriteVisitor(p, depls, index) ==
    <<Visit(Content(p, index), ContentDepl(depls, index))>>

WriteTypeOfStruct ==
    /\ at = "announce" /\ todo # <<>> /\ Kind(Top.path) = "struct"
    /\ Calling(StructTypeWriter(Top.path, Top.depl))
    /\ UNCHANGED types

WriteTypeOfVariant ==
    /\ at = "announce" /\ todo # <<>> /\ Kind(Top.path) = "variant"
    /\ types' = Append(types, TypeElement("variant", "null"))
    /\ Calling(TypeOutputStreamWriteVisitor(Top.path, Top.depl, call.value[Top.path]))

WriteTypeOfElement ==
    /\ at = "announce" /\ todo # <<>> /\ IsElement(Top.path)
    /\ types' = Append(types, TypeElement(Kind(Top.path), Depl(Top.depl)))
    /\ Calling(<<>>)

writeType ==
    /\ WriteTypeOfStruct \/ WriteTypeOfVariant \/ WriteTypeOfElement
    /\ UNCHANGED <<call, out, in, targets, at, next>>

\* operator<<
Announce == Stream("announce") /\ UNCHANGED <<call, types, out, in, targets, at>>

\* The message is begun.
Begin ==
    /\ at = "announce" /\ todo = <<>> /\ next > Size(<<>>)
    /\ out' \in {NewStream(n) : n \in FailurePoints}
    /\ at' = "serialize"
    /\ next' = 1
    /\ UNCHANGED <<call, types, in, targets, todo>>

------------------------------------------------------------------------------
(***************************************************************************)
(* OutputStream: writeValue() is the binding's, which calls StructWriter   *)
(* for structs and ApplyStreamVisitor for variants.                        *)
(***************************************************************************)
\* An error does not stop it.
StructWriter(p, depls) == [i \in 1 .. Size(p) |-> Visit(Append(p, i), MemberDepl(depls, i))]

OutputStreamWriteVisitor(p, depls, index) ==
    <<Visit(Content(p, index), ContentDepl(depls, index))>>

WriteStruct ==
    /\ at = "serialize" /\ todo # <<>> /\ Kind(Top.path) = "struct"
    /\ Calling(StructWriter(Top.path, Top.depl))
    /\ UNCHANGED out

\* Bindings write the index of a variant before its content.
WriteVariant ==
    /\ at = "serialize" /\ todo # <<>> /\ Kind(Top.path) = "variant"
    /\ out' = WriteElement(out, "variant", "null", call.value[Top.path])
    /\ Calling(OutputStreamWriteVisitor(Top.path, Top.depl, call.value[Top.path]))

WriteOther ==
    /\ at = "serialize" /\ todo # <<>> /\ IsElement(Top.path)
    /\ out' = WriteElement(out, Kind(Top.path), Depl(Top.depl), call.value[Top.path])
    /\ Calling(<<>>)

writeValue ==
    /\ WriteStruct \/ WriteVariant \/ WriteOther
    /\ UNCHANGED <<call, types, in, targets, at, next>>

------------------------------------------------------------------------------
(***************************************************************************)
(* InputStream: readValue() is the binding's, which calls StructReader for *)
(* structs and ApplyStreamVisitor for variants.                            *)
(***************************************************************************)
\* Mutant: the members behind a failed one are read, too.
StructReaderOnwards(p, depls) == [i \in 1 .. Size(p) |-> Visit(Append(p, i), MemberDepl(depls, i))]

\* The members behind the first one are read unless there was an error.
StructReader(p, depls) ==
    [i \in 1 .. Size(p) |->
        IF i = 1 THEN Visit(Append(p, i), MemberDepl(depls, i))
        ELSE VisitChecked(Append(p, i), MemberDepl(depls, i))]

\* Mutant: the content is read without its deployment.
ReadVisitorUndeployed(p, depls, index) ==
    <<Visit(Content(p, index), NullDepl), SetIndex(p, index)>>

\* The content is read into an object of its own, to which the variant is set then, also
\* if that failed.
InputStreamReadVisitor(p, depls, index) ==
    <<Visit(Content(p, index), ContentDepl(depls, index)), SetIndex(p, index)>>

\* ApplyStreamVisitor does nothing for an index of no type.
ReadContent(p, depls, index) ==
    IF index \in 1 .. Size(p) THEN InputStreamReadVisitor(p, depls, index) ELSE <<>>

IsVisited(frame) ==
    frame.does = "visit" \/ (frame.does = "visit checked" /\ ~HasError(in))

ReadStruct ==
    /\ at = "deserialize" /\ todo # <<>> /\ IsVisited(Top) /\ Kind(Top.path) = "struct"
    /\ Calling(StructReader(Top.path, Top.depl))
    /\ UNCHANGED <<in, targets>>

\* The binding does not go on to the content when the index could not be read.
ReadVariant ==
    /\ at = "deserialize" /\ todo # <<>> /\ IsVisited(Top) /\ Kind(Top.path) = "variant"
    /\ LET read == ReadElement(in, "variant", "null", targets[Top.path])
       IN  /\ in' = read.input
           /\ IF HasError(read.input) THEN Calling(<<>>)
              ELSE Calling(ReadContent(Top.path, Top.depl, read.value))
    /\ UNCHANGED targets

ReadOther ==
    /\ at = "deserialize" /\ todo # <<>> /\ IsVisited(Top) /\ IsElement(Top.path)
    /\ LET read == ReadElement(in, Kind(Top.path), Depl(Top.depl), targets[Top.path])
       IN  /\ in' = read.input
           /\ targets' = [targets EXCEPT ![Top.path] = read.value]
    /\ Calling(<<>>)

SetVariant ==
    /\ at = "deserialize" /\ todo # <<>> /\ Top.does = "set"
    /\ targets' = [targets EXCEPT ![Top.path] = Top.index]
    /\ Calling(<<>>)
    /\ UNCHANGED in

\* StructReader looks at the error of the stream.
SkipMember ==
    /\ at = "deserialize" /\ todo # <<>> /\ Top.does = "visit checked" /\ HasError(in)
    /\ Calling(<<>>)
    /\ UNCHANGED <<in, targets>>

readValue ==
    /\ ReadStruct \/ ReadVariant \/ ReadOther \/ SetVariant \/ SkipMember
    /\ UNCHANGED <<call, types, out, at, next>>

------------------------------------------------------------------------------
(***************************************************************************)
(* SerializableArguments                                                   *)
(***************************************************************************)
Init ==
    /\ call \in Calls
    /\ types = <<>>
    /\ out = NewStream(0)
    /\ in = NewStream(0)
    /\ targets = [p \in Nodes |-> DefaultValue(p)]
    /\ at = "announce"
    /\ next = 1
    /\ todo = <<>>

\* Mutant: behind the last argument the error is not looked at.
AcceptedUntilLast(stream) == HasError(stream) => next > Size(<<>>)

\* serialize() and deserialize() return false at once when an argument failed.
Accepted(stream) == ~HasError(stream)

Serialize ==
    /\ Accepted(out) /\ Stream("serialize")
    /\ UNCHANGED <<call, types, out, in, targets, at>>

NotSerialized ==
    /\ at = "serialize" /\ todo = <<>> /\ ~Accepted(out)
    /\ at' = "not serialized"
    /\ UNCHANGED <<call, types, out, in, targets, next, todo>>

\* serialize() returned true; the binding carries the message to the receiver.
Deliver ==
    /\ at = "serialize" /\ todo = <<>> /\ Accepted(out) /\ next > Size(<<>>)
    /\ in' \in {[NewStream(n) EXCEPT !.elements = out.elements] : n \in FailurePoints}
    /\ at' = "deserialize"
    /\ next' = 1
    /\ UNCHANGED <<call, types, out, targets, todo>>

Deserialize ==
    /\ Accepted(in) /\ Stream("deserialize")
    /\ UNCHANGED <<call, types, out, in, targets, at>>

NotDeserialized ==
    /\ at = "deserialize" /\ todo = <<>> /\ ~Accepted(in)
    /\ at' = "not deserialized"
    /\ UNCHANGED <<call, types, out, in, targets, next, todo>>

\* deserialize() returns true behind the last argument.
Deserialized ==
    /\ at = "deserialize" /\ todo = <<>> /\ Accepted(in) /\ next > Size(<<>>)
    /\ at' = "deserialized"
    /\ UNCHANGED <<call, types, out, in, targets, next, todo>>

Next ==
    \/ Announce \/ writeType \/ Begin
    \/ Serialize \/ writeValue \/ NotSerialized \/ Deliver
    \/ Deserialize \/ readValue \/ NotDeserialized \/ Deserialized

Spec == Init /\ [][Next]_vars

------------------------------------------------------------------------------
(***************************************************************************)
(* What a call is to be written as: its elements from left to right, each  *)
(* with the deployment that was declared for the member or for the type    *)
(* that it belongs to, and a variant as its index, before its content.     *)
(***************************************************************************)
\* The nodes above are structs, or variants that hold what the node is in.
IsHeld(p) ==
    \A q \in Nodes : Above(q, p) /\ Kind(q) = "variant" =>
        Cardinality(p[Len(q) + 1] .. Size(q)) = call.value[q]

Elements == {p \in Nodes : IsHeld(p) /\ Kind(p) \notin {"call", "struct"}}

LeftOf(p, q) ==
    \E k \in 1 .. Len(p) :
        k <= Len(q) /\ p[k] < q[k] /\ \A j \in 1 .. k - 1 : p[j] = q[j]

Before(p, q) == Above(p, q) \/ LeftOf(p, q)

Place(p) == Cardinality({q \in Elements : Before(q, p)}) + 1

\* The deployment of an element, if everything that it is in has one.
Declared(p) ==
    IF Kind(p) # "variant" /\ \A q \in Nodes \ {<<>>} : Above(q, p) => call.depl[q] = "values"
    THEN call.depl[p] ELSE "null"

ElementOf(p) == Element(Kind(p), Declared(p), call.value[p])

------------------------------------------------------------------------------
(***************************************************************************)
(* Properties                                                              *)
(***************************************************************************)
\* As long as the OutputStream has no error, it holds the arguments serialized so far,
\* every element with the deployment that is declared for its place, through structs,
\* variants and missing deployments (Struct.hpp:112, Variant.hpp:364).
WrittenAsDeployed ==
    at = "serialize" /\ todo = <<>> /\ ~HasError(out) =>
        LET written == {p \in Elements : p[1] < next}
        IN  /\ DOMAIN out.elements = {Place(p) : p \in written}
            /\ \A p \in written : out.elements[Place(p)] = ElementOf(p)

\* The types that TypeOutputStream announces are those of the elements which OutputStream
\* then writes (StructTypeWriter and StructWriter choose the deployments of the members
\* separately, Struct.hpp:159).
SignatureAgrees ==
    at # "announce" /\ ~HasError(out) =>
        /\ \A k \in DOMAIN out.elements :
              /\ k \in DOMAIN types
              /\ types[k] = [type |-> out.elements[k].type, depl |-> out.elements[k].depl]
        /\ at # "serialize" => Len(types) = Len(out.elements)

\* What serialize() and deserialize() accepted has arrived: each argument as it was
\* sent, and the message is used up.
RoundTrip ==
    at = "deserialized" =>
        /\ \A p \in Elements : targets[p] = call.value[p]
        /\ in.position = Len(in.elements)

\* serialize() and deserialize() return false exactly if an element failed, at any depth
\* and in any argument, although StructWriter and the visitors do not look for errors.
FailureReported ==
    LET fails(stream) == stream.failAt \in 1 .. Cardinality(Elements)
    IN  /\ at = "not serialized" => fails(out)
        /\ at \in {"deserialize", "deserialized", "not deserialized"} => ~fails(out)
        /\ at = "not deserialized" => fails(in)
        /\ at = "deserialized" => ~fails(in)

\* Behind the element that could not be read nothing is taken from the stream, by no
\* reader at any depth: the elements before it are as sent, and all others, those of the
\* arguments behind it and the types that a variant does not hold, as initialised.
NothingReadAfterFailure ==
    at = "not deserialized" =>
        /\ in.tried = in.failAt
        /\ \A p \in Nodes :
              targets[p] = IF p \in Elements /\ Place(p) < in.failAt
                           THEN call.value[p] ELSE DefaultValue(p)
==============================================================================
