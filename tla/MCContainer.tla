----------------------------- MODULE MCContainer -----------------------------
(***************************************************************************)
(* An instance of Container: applications of three registrations under two *)
(* names and one more name that nothing is registered under.               *)
(***************************************************************************)
EXTENDS Container

Reg(all, name, makes, single, params) ==
    [all |-> all, name |-> name, makes |-> makes, singleton |-> single, params |-> params]

Req(shape, name, used) == [shape |-> shape, name |-> name, used |-> used]

Asking(shapes, names) == {<<>>} \cup {<<Req(s[1], n, s[2])>> : s \in shapes, n \in names}

AskedByA == Asking({<<"one", TRUE>>, <<"optional", TRUE>>, <<"lazy", TRUE>>, <<"lazy", FALSE>>},
                   {"A", "B", "C"})
AskedByB == Asking({<<"one", TRUE>>, <<"lazy", TRUE>>, <<"all", TRUE>>, <<"each", FALSE>>},
                   {"A", "B"})

\* Something under A which asks for up to two things, something under B, and one more: under
\* A again, in a collection, or of an odd kind.
SomeWirings ==
    {<<Reg(FALSE, "A", "object", how[1], p \o q), Reg(FALSE, "B", how[2], how[3], r), e>> :
        how \in {<<TRUE, "object", TRUE>>, <<FALSE, "object", TRUE>>,
                 <<TRUE, "none", FALSE>>, <<TRUE, "alien", TRUE>>},
        p \in AskedByA, q \in {<<>>, <<Req("one", "B", TRUE)>>}, r \in AskedByB,
        e \in {Reg(TRUE, "B", "object", TRUE, <<Req("default", "A", TRUE)>>),
               Reg(FALSE, "A", "object", FALSE, <<>>),
               Reg(FALSE, "C", "object", TRUE,
                   <<Req("opaque", "", FALSE), Req("callable", "A", TRUE)>>),
               Reg(TRUE, "A", "none", FALSE, <<Req("opaque", "", TRUE)>>)}}

OneWiring == CHOOSE w \in SomeWirings : TRUE

SomeRequests == {Req("one", "A", TRUE), Req("config", "C", TRUE), Req("all", "B", TRUE)}
=============================================================================
