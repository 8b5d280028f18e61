-------------------------------- MODULE Cards --------------------------------
(***************************************************************************)
(* Asset cards: what the metadata files of several sources say of a name,  *)
(* in an environment, through the cards it is based on.                    *)
(*                                                                         *)
(* A catalog is a sequence of providers, each a sequence of entries, and   *)
(* the environment that was detected.  An entry is one document of a       *)
(* metadata file: its name, its environment ("" is none), the directory of *)
(* the file ("" for assets registered in memory) and its fields.           *)
(***************************************************************************)
EXTENDS Integers, Sequences, FiniteSets, SequencesExt

CONSTANTS
    Catalogs,  \* the catalogs to look assets up in
    Names      \* the names to look up

VARIABLES
    catalog,   \* what the asset store was constructed of
    lookup     \* the last call of load_model: its name, environment and result

cardVars == <<catalog, lookup>>

-----------------------------------------------------------------------------
\* The asset store: two entries of the same name are an error at construction.
Entries(c) == UNION {ToSet(c.providers[i]) : i \in DOMAIN c.providers}
Key(e)     == <<e.name, e.env>>

Constructible(c) ==
    LET all == FlattenSeq(c.providers)
    IN  \A i, j \in DOMAIN all : i # j => Key(all[i]) # Key(all[j])

HasMetadata(c, n, env) == \E e \in Entries(c) : Key(e) = <<n, env>>
Metadata(c, n, env)    == CHOOSE e \in Entries(c) : Key(e) = <<n, env>>

\* The environments that are tried: the one that was asked for, or user first.
Environments(c, asked) ==
    CASE asked = "default" -> <<"user">> \o (IF c.env = "" THEN <<>> ELSE <<c.env>>)
      [] asked = ""        -> <<>>
      [] OTHER             -> <<asked>>

\* Mutant of Layered: the plain entry goes over that of the environment.
LayeredUnder(c, n, envs) ==
    LET plain == Metadata(c, n, "")
        known == SelectSeq(envs, LAMBDA env : HasMetadata(c, n, env))
        under == Metadata(c, n, Head(known))
    IN  IF known = <<>> THEN plain
        ELSE [plain EXCEPT
                !.fields = [f \in DOMAIN under.fields \cup DOMAIN @ |->
                              IF f \in DOMAIN @ THEN @[f] ELSE under.fields[f]]]

\* dict.update(): the fields of the first environment with an entry go over the
\* plain ones, and the directory of its file with them.
Layered(c, n, envs) ==
    LET plain == Metadata(c, n, "")
        known == SelectSeq(envs, LAMBDA env : HasMetadata(c, n, env))
        over  == Metadata(c, n, Head(known))
    IN  IF known = <<>> THEN plain
        ELSE [plain EXCEPT
                !.fields = [f \in DOMAIN over.fields \cup DOMAIN plain.fields |->
                              IF f \in DOMAIN over.fields THEN over.fields[f]
                              ELSE plain.fields[f]],
                !.dir    = IF over.dir = "" THEN plain.dir ELSE over.dir]

\* The card and those it is based on, nearest first.  A lineage longer than the
\* catalog goes on until the interpreter's stack is exhausted.
Extend(c, envs, line) ==
    LET last == Last(line.cards) IN
    IF line.tag # "more" THEN line
    ELSE IF "base" \notin DOMAIN last.fields THEN [line EXCEPT !.tag = "card"]
    ELSE IF ~HasMetadata(c, last.fields["base"], "") THEN [line EXCEPT !.tag = "no_base"]
    ELSE [line EXCEPT !.cards = Append(@, Layered(c, last.fields["base"], envs))]

DoRetrieve(c, n, envs) ==
    LET first == [tag |-> "more", cards |-> <<Layered(c, n, envs)>>]
        line  == FoldLeft(LAMBDA l, i : Extend(c, envs, l), first,
                          [i \in 1..(Cardinality(Entries(c)) + 1) |-> i])
    IN  IF line.tag = "more" THEN [line EXCEPT !.tag = "endless"] ELSE line

NotFound == [tag |-> "not_found", cards |-> <<>>]

Retrieve(c, n, asked) ==
    IF HasMetadata(c, n, "") THEN DoRetrieve(c, n, Environments(c, asked)) ELSE NotFound

-----------------------------------------------------------------------------
\* A field is that of the nearest card that has it.
Having(cards, f)   == {i \in DOMAIN cards : f \in DOMAIN cards[i].fields}
HasField(cards, f) == Having(cards, f) # {}
FieldOf(cards, f)  == cards[Min(Having(cards, f))].fields[f]

\* A relative path is one of the directory of the card that was asked for, of
\* whichever card of the lineage it comes.
NoUri == <<"none", "">>
Uri(cards, f) ==
    LET value == FieldOf(cards, f)
        dir   == cards[1].dir
    IN  CASE value[1] # "relative" -> value
          [] dir # ""              -> <<"file", dir>>
          [] OTHER                 -> NoUri

\* The configuration: that of the farthest card, under those of the nearer ones.
Merge(under, over) ==
    [k \in DOMAIN under \cup DOMAIN over |-> IF k \in DOMAIN over THEN over[k] ELSE under[k]]

Config(cards) ==
    FoldLeft(Merge, [k \in {} |-> 0],
             [i \in DOMAIN cards |->
                LET own == cards[Len(cards) + 1 - i].fields
                IN  IF "config" \in DOMAIN own THEN own["config"] ELSE [k \in {} |-> 0]])

\* What load_model makes of a card, up to the address of the checkpoint.
Resolved(line) ==
    LET fails(tag) == [tag |-> tag, uri |-> NoUri, config |-> [k \in {} |-> 0]] IN
    IF line.tag # "card" THEN fails(line.tag)
    ELSE IF ~HasField(line.cards, "checkpoint") THEN fails("gated")
    ELSE IF Uri(line.cards, "checkpoint") = NoUri THEN fails("card_error")
    ELSE [tag    |-> "ok",
          uri    |-> Uri(line.cards, "checkpoint"),
          config |-> Config(line.cards)]

Nothing == [name |-> "", env |-> "", result |-> Resolved(NotFound)]

CardsInit == catalog \in {c \in Catalogs : Constructible(c)} /\ lookup = Nothing

\* retrieve_card() and load_model() of a name, with or without an environment.
LookUp(n, asked) ==
    lookup' = [name |-> n, env |-> asked, result |-> Resolved(Retrieve(catalog, n, asked))]

Asked == {"default", "", "cluster"}

-----------------------------------------------------------------------------
\* Reference: the layers of a name, the nearest first: for the name and each name
\* it is based on, the entry of the first environment that has one, then the plain
\* entry.  Parent(n) is the base that the nearer of the two layers gives.
OwnLayers(n, envs) ==
    LET tried == {i \in DOMAIN envs : HasMetadata(catalog, n, envs[i])}
    IN  (IF tried = {} THEN <<>> ELSE <<Metadata(catalog, n, envs[Min(tried)])>>)
        \o <<Metadata(catalog, n, "")>>

Bases(n, envs) ==
    LET layers == OwnLayers(n, envs)
        based  == {i \in DOMAIN layers : "base" \in DOMAIN layers[i].fields}
    IN  IF based = {} THEN {} ELSE {layers[Min(based)].fields["base"]}

Known == {e.name : e \in {x \in Entries(catalog) : x.env = ""}}

\* The names at a distance of d.
Ancestors(n, envs, d) ==
    LET at[k \in 0..d] == IF k = 0 THEN {n}
                          ELSE UNION {Bases(m, envs) : m \in at[k - 1] \cap Known}
    IN  at[d]

Depths == 0..Cardinality(Known)

\* Two exceptions, which src/doc/source/basics/assets.rst shows as cards that work: a
\* name that has entries for environments only (its my_custom_model@user), which is not
\* found; and a line that leads back to one of its names, such as an entry of an
\* environment that names the plain entry it overrides as its base (its my_model@user),
\* which retrieve_card() follows without an end.
EnvironmentOnly(n) == n \notin Known /\ \E e \in Entries(catalog) : e.name = n
LeadsBack(n, envs) == Ancestors(n, envs, Cardinality(Known)) # {}

\* "Asset cards can inherit from other assets using the base field", user assets
\* before those of the environment before the others: with the two exceptions, a name
\* without an entry is not found, a lookup ends in a card exactly if its bases exist; the
\* checkpoint is then that of the nearest layer that names one; each entry of the
\* configuration is that of the nearest name whose configuration has it.
CardsResolve ==
    LET n      == lookup.name
        envs   == Environments(catalog, lookup.env)
        Line(d) == Ancestors(n, envs, d)
        whole  == UNION {Line(d) : d \in Depths} \subseteq Known
        layers == FlattenSeq([d \in 1..Cardinality(Known) |->
                     FlattenSeq(SetToSeq({OwnLayers(m, envs) : m \in Line(d - 1)}))])
        naming == {i \in DOMAIN layers : "checkpoint" \in DOMAIN layers[i].fields}
        said   == layers[Min(naming)].fields["checkpoint"]
        ConfigsOf(m) == {i \in DOMAIN OwnLayers(m, envs) :
                           "config" \in DOMAIN OwnLayers(m, envs)[i].fields}
        ConfigOf(m)  == OwnLayers(m, envs)[Min(ConfigsOf(m))].fields["config"]
        \* The names of the line that configure k, by their distance.
        Of(k)  == {d \in Depths : \E m \in Line(d) : ConfigsOf(m) # {} /\ k \in DOMAIN ConfigOf(m)}
    IN  lookup # Nothing /\ ~EnvironmentOnly(n) /\ ~(whole /\ LeadsBack(n, envs)) =>
          CASE n \notin Known -> lookup.result.tag = "not_found"
            [] n \in Known /\ ~whole -> lookup.result.tag = "no_base"
            [] OTHER ->
                 /\ lookup.result.tag \in {"ok", "card_error", "gated"}
                 /\ (lookup.result.tag = "gated") <=> (naming = {})
                 /\ lookup.result.tag = "ok" /\ said[1] # "relative" => lookup.result.uri = said
                 /\ lookup.result.tag = "ok" =>
                      \A k \in DOMAIN lookup.result.config \cup UNION {DOMAIN l.fields["config"] :
                                   l \in {x \in ToSet(layers) : "config" \in DOMAIN x.fields}} :
                         IF Of(k) = {} THEN k \notin DOMAIN lookup.result.config
                         ELSE \E m \in Line(Min(Of(k))) : lookup.result.config[k] = ConfigOf(m)[k]
=============================================================================
