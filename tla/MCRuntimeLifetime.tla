-------------------------- MODULE MCRuntimeLifetime --------------------------
(***************************************************************************)
(* An instance of RuntimeLifetime for TLC.  The file in the working        *)
(* directory is any of up to two lines, or one of those that show a longer *)
(* story; the other files are there when that one is not.                  *)
(***************************************************************************)
EXTENDS RuntimeLifetime

CONSTANTS main, other, b1, b2, f1, l1, l2, local, remote

Section(n) == [kind |-> "section", name |-> n]
Entry(k, v) == [kind |-> "entry", key |-> k, value |-> v]
Unclosed == [kind |-> "unclosed"]
Other == [kind |-> "other"]

Lines == {Section("default"), Section("proxy"), Unclosed, Entry("binding", b1),
          Entry("callTimeout", NoNumber), Entry("callTimeout", -1), Entry(local, l1)}

Stories == {
    <<Section("default"), Entry("binding", b1), Entry("binding", b2), Entry("folder", f1)>>,
    <<Section("default"), Entry("binding", Empty), Entry("callTimeout", 0)>>,
    <<Section("default"), Other, Entry("callTimeout", -1)>>,
    <<Section("default"), Unclosed, Entry("binding", b1), Section("default"),
      Entry("callTimeout", 7)>>,
    <<Section("default"), Entry("binding", b1), Entry("callTimeout", NoNumber),
      Section("proxy"), Entry(local, l1)>>,
    <<Section("proxy"), Entry(local, l1), Section("stub"), Entry(local, l2), Entry(remote, l1)>>,
    <<Section("stub"), Entry(local, l1), Section("stub"), Entry(local, l2), Entry(remote, l2)>>}

\* The Logger is set up before the timeout is read.
LoggingStories ==
    {<<Section("logging")>> \o s :
        s \in BoundedSeq({Entry("console", True), Entry("file", l1), Entry("level", "none"),
                          Entry("level", "debug"), Unclosed}, 2)}
    \cup {<<Entry("level", "debug"), Section("logging"), Entry("level", l1), Section("default"),
            Entry("file", l1), Entry("callTimeout", NoNumber)>>}

Texts == BoundedSeq(Lines, 2) \cup Stories \cup LoggingStories

MCFileSystems ==
    [directory : Texts \cup {Unreadable, NoDirectory}, configured : {Missing}, etc : {Missing}]
    \cup [directory : {Missing}, configured : {Missing, Unreadable, <<>>},
          etc : {Missing, <<Section("default"), Entry("binding", b2)>>}]

MCEnvironments == {
    [hasConfig |-> FALSE, binding |-> Unset, folder |-> Unset, timeout |-> Unset],
    [hasConfig |-> TRUE, binding |-> b2, folder |-> f1, timeout |-> -1],
    [hasConfig |-> FALSE, binding |-> Empty, folder |-> Unset, timeout |-> -7]}

MCTimeouts == {-7, -1, 0, 3, 5000}

MCFlattened == [a \in {local, remote} |-> local]
==============================================================================
