----------------------------- MODULE MCDownloads -----------------------------
(***************************************************************************)
(* An instance of Downloads: two names that are looked up in catalogs of   *)
(* up to five entries, and three jobs of two ranks that load one of them   *)
(* from a server.                                                          *)
(***************************************************************************)
EXTENDS Downloads

Entry(n, env, dir, fields) == <<[name |-> n, env |-> env, dir |-> dir, fields |-> fields]>>

None          == <<>>
Base(n)       == "base" :> n
Checkpoint(u) == "checkpoint" :> u
Conf(k, v)    == "config" :> (k :> v)

Site == [env |-> "",
         providers |-> <<Entry("a", "", "d1", Checkpoint(<<"http", "x">>)),
                         Entry("b", "", "d1", Checkpoint(<<"file", "y">>))>>]
OneSite == {Site}

\* The plain entries in one source, those of the environments in another.
OfA == {Entry("a", "", dir, b @@ u @@ k) :
          dir \in {"d1", ""}, b \in {None, Base("a"), Base("b")},
          u \in {None, Checkpoint(<<"http", "x">>), Checkpoint(<<"relative", "r">>)},
          k \in {None, Conf("k", 1)}}
OfB == {<<>>} \cup {Entry("b", "", "d1", b @@ u) :
          b \in {None, Base("a"), Base("c")}, u \in {None, Checkpoint(<<"http", "y">>)}}
UserOfA == {<<>>} \cup {Entry("a", "user", "d2", b @@ u) :
          b \in {None, Base("b"), Base("a")}, u \in {None, Checkpoint(<<"http", "z">>)}}
ClusterOfA == {<<>>, Entry("a", "cluster", "", Conf("m", 2)),
               Entry("a", "cluster", "d3", Checkpoint(<<"relative", "s">>) @@ Conf("k", 2))}
UserOfB == {<<>>, Entry("b", "user", "d2", Conf("m", 3))}

\* Two sources with the same name are not a store.
SomeCatalogs ==
    {Site} \cup
    {[env |-> "cluster", providers |-> <<a \o b, x \o y \o z>>] :
        a \in OfA, b \in OfB, x \in UserOfA, y \in ClusterOfA, z \in UserOfB}
    \cup {[env |-> "", providers |-> <<a, a>>] : a \in OfA}

TwoNames == {"a", "b"}
ThreeJobs == 1..3
SecondJob == {2}
PlainOnly == {"plain"}
TwoRanks == {0, 1}
AllFormats == {"plain", "zip", "tar", "tgz"}
=============================================================================
