--------------------------- MODULE MCAccessPolicy ---------------------------
(***************************************************************************)
(* Instances of AccessPolicy for TLC.                                      *)
(***************************************************************************)
EXTENDS AccessPolicy, TLC

\* A name, a name below it, and another one.
MCNames == {<<"example">>, <<"panel", "example">>, <<"other">>}

Entry(form, name) == [form |-> form, name |-> name]

\* No host, a blank line, one host, a wildcard next to a host, a blank line
\* next to an invalid name, and one entry too many.
MCLists == {
    <<>>,
    <<Entry("blank", <<"other">>)>>,
    <<Entry("exact", <<"example">>)>>,
    <<Entry("wildcard", <<"example">>), Entry("exact", <<"other">>)>>,
    <<Entry("blank", <<"other">>), Entry("invalid", <<"other">>)>>,
    <<Entry("exact", <<"example">>), Entry("exact", <<"example">>), Entry("exact", <<"other">>)>>}

Symmetry == Permutations(Requests)
=============================================================================
