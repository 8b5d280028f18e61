------------------------------- MODULE Sources -------------------------------
(***************************************************************************)
(* The sequential data sources of the native pipeline: what next() returns *)
(* and leaves behind, what reset() restores, and what record_position()    *)
(* and reload_position() carry over.  A pipeline is one operation over     *)
(* lists; a list stands for any inner pipeline, and the examples in `bad'  *)
(* for the ones at which it throws a recoverable error.                    *)
(*                                                                         *)
(* A reader reads, records, reloads and resets in any order.  `ideal' is   *)
(* what an uninterrupted reader of the same pipeline gets.                 *)
(***************************************************************************)
EXTENDS Integers, Sequences, FiniteSets, SequencesExt

CONSTANTS
    Pipelines,    \* the pipelines to read, records with the fields of Shape
    Draws,        \* the numbers a random generator draws from its seed on, in 0..5
    IdealLength,  \* bound on the reads of a pipeline
    PipeCalls     \* bound on calls other than next()

Flags == {"allow_uneven", "zip_to_shortest", "stop_at_shortest",
          "allow_repeats", "drop_remainder", "skip_outliers", "bucket_creation_fn",
          "truncate"}

\* Fields: op the operation; lists the inner pipelines, of which `pseudo' are
\* constants without end; n, m, min the numbers the operation takes; len the length
\* or cost of an example; sub the list an example yields; sizes of buckets.
Shape == {"op", "lists", "pseudo", "bad", "reject", "flags", "n", "m", "min", "len",
          "sub", "sizes"}

ASSUME PipeAssumption ==
    /\ \A p \in Pipelines : DOMAIN p = Shape /\ p.flags \subseteq Flags
    /\ Draws \in Seq(0..5) /\ Draws # <<>>
    /\ IdealLength \in Nat \ {0} /\ PipeCalls \in Nat

VARIABLES
    pipe,     \* the pipeline that is read
    src,      \* the state of its data source
    live,     \* the source was constructed: the pipeline was used before
    reads,    \* calls of next() since the beginning of the data
    got,      \* what the last one returned
    exact,    \* no buffers were dropped, no generator runs on after a reset
    floor,    \* else: the reads before the position that was reloaded last
    saved,    \* a recorded position
    pipeCalls,
    ideal     \* what an uninterrupted reader gets

pipeVars == <<pipe, src, live, reads, got, exact, floor, saved, pipeCalls, ideal>>

-----------------------------------------------------------------------------
Has(f) == f \in pipe.flags
Pipes  == DOMAIN pipe.lists
Singles(seq) == [i \in DOMAIN seq |-> <<seq[i]>>]

\* op(...op(op(base, 1), 2)..., k).
Iterate(op(_, _), base, k) ==
    LET run[i \in 0..k] == IF i = 0 THEN base ELSE op(run[i - 1], i)
    IN  IF k < 0 THEN base ELSE run[k]

\* What a call of next() comes to.
Got(s, items) == [src |-> s, tag |-> "data", items |-> items]
End(s)   == [src |-> s, tag |-> "end",   items |-> <<>>]
ErrorOf(s) == [src |-> s, tag |-> "error", items |-> <<>>]
Fatal(s) == [src |-> s, tag |-> "fatal", items |-> <<>>]        \* not recoverable
Undefined(s) == [src |-> s, tag |-> "undefined", items |-> <<>>] \* out of bounds
Dropping(r) == [r EXCEPT !.items = <<>>]

\* A source as constructed.  pos: positions of the inner pipelines.  num, last,
\* flag, buf, aside, done: the members of the operation's class, see each next().
\* rng: how many numbers generator_ has drawn.
Fresh == [pos |-> [i \in Pipes |-> 0], num |-> 0, last |-> 0, flag |-> FALSE,
          buf |-> <<>>, aside |-> [i \in DOMAIN pipe.sizes |-> <<>>],
          done |-> [i \in Pipes |-> FALSE], rng |-> 0]

Draw(s) == Draws[(s.rng % Len(Draws)) + 1]

-----------------------------------------------------------------------------
\* list_data_source, constant_data_source for the pseudo-infinite ones, and the
\* error a map above a list throws.
ReadAt(s, i) ==
    IF i \in pipe.pseudo THEN Got(s, <<0>>)
    ELSE IF s.pos[i] = Len(pipe.lists[i]) THEN End(s)
    ELSE LET e == pipe.lists[i][s.pos[i] + 1]
             t == [s EXCEPT !.pos[i] = @ + 1]
         IN  IF e \in pipe.bad THEN ErrorOf(t) ELSE Got(t, <<e>>)

\* k examples of the first inner pipeline; fewer when it ends or throws.
ReadMany(s, k) ==
    LET Read(r, i) == IF r.tag # "data" THEN r
                      ELSE LET q == ReadAt(r.src, 1)
                           IN  [q EXCEPT !.items = r.items \o @]
    IN  Iterate(Read, Got(s, <<>>), k)

\* count_data_source: counter_ is num.
CountNext(s) == Got([s EXCEPT !.num = @ + pipe.m], <<pipe.n + s.num>>)

\* skip_data_source: skip_ is flag.
SkipNext(s) ==
    LET r == ReadMany(s, pipe.n) IN
    IF s.flag THEN ReadAt(s, 1)
    ELSE IF r.tag = "error" THEN Dropping(r)
    ELSE ReadAt([r.src EXCEPT !.flag = TRUE], 1)

\* Mutant: the count starts over once the end was reported.
TakeNextAgain(s) ==
    LET r == ReadAt(s, 1) IN
    IF s.num = pipe.n THEN End([s EXCEPT !.num = 0])
    ELSE IF r.tag = "data" THEN [r EXCEPT !.src.num = @ + 1]
    ELSE r

\* take_data_source: num_examples_read_ is num.
TakeNext(s) ==
    LET r == ReadAt(s, 1) IN
    IF s.num = pipe.n THEN End(s)
    ELSE IF r.tag = "data" THEN [r EXCEPT !.src.num = @ + 1]
    ELSE r

FilterNext(s) ==
    LET Again(r, i) == IF r.tag = "data" /\ r.items[1] \in pipe.reject
                       THEN ReadAt(r.src, 1) ELSE r
    IN  Iterate(Again, ReadAt(s, 1), Len(pipe.lists[1]))

\* Mutant: one example too many is skipped after the own one.
ShardNextLong(s) ==
    LET before == ReadMany(s, pipe.n)
        own    == ReadAt(before.src, 1)
        after  == ReadMany(own.src, pipe.m - pipe.n)
    IN  IF before.tag # "data" THEN Dropping(before)
        ELSE IF own.tag # "data" THEN own
        ELSE IF after.tag = "data" \/ Has("allow_uneven") THEN Got(after.src, own.items)
        ELSE Dropping(after)

\* shard_data_source: shard n of m.
ShardNext(s) ==
    LET before == ReadMany(s, pipe.n)
        own    == ReadAt(before.src, 1)
        after  == ReadMany(own.src, pipe.m - pipe.n - 1)
    IN  CASE before.tag # "data" -> Dropping(before)
          [] before.tag = "data" /\ own.tag # "data" -> own
          [] before.tag = "data" /\ own.tag = "data" ->
               IF after.tag = "data" \/ (after.tag = "end" /\ Has("allow_uneven"))
               THEN Got(after.src, own.items)
               ELSE Dropping(after)

\* repeat_data_source: repeat_nr_ is num, has_data_ is flag; n < 0 is for ever.
RepeatNext(s) ==
    LET Seen(r) == IF r.tag = "data" THEN [r EXCEPT !.src.flag = TRUE] ELSE r
        r == ReadAt(s, 1)
    IN  IF pipe.n = 0 THEN End(s)
        ELSE IF r.tag # "end" THEN Seen(r)
        ELSE IF ~s.flag \/ s.num = pipe.n - 1 THEN r
        ELSE Seen(ReadAt([r.src EXCEPT !.num = @ + 1, !.pos[1] = 0], 1))

ConcatNext(s) ==
    LET going == {i \in Pipes : i \in pipe.pseudo \/ s.pos[i] < Len(pipe.lists[i])}
    IN  IF going = {} THEN End(s)
        ELSE ReadAt(s, CHOOSE i \in going : \A j \in going : i <= j)

\* zip_data_source with disable_parallelism: one pipeline after the other.
ZipNext(s) ==
    LET Fetch(r, i) == IF r.tag = "error" THEN r
                       ELSE LET q == ReadAt(r.src, i) IN
                            [src   |-> q.src,
                             tag   |-> IF q.tag = "error" THEN "error" ELSE "data",
                             items |-> Append(r.items, q.items)]
        r     == Iterate(Fetch, Got(s, <<>>), Cardinality(Pipes))
        ended == {i \in DOMAIN r.items : r.items[i] = <<>>}
        going == DOMAIN r.items \ (ended \cup pipe.pseudo)
    IN  IF Pipes = {} THEN End(s)
        ELSE IF r.tag = "error" THEN ErrorOf(r.src)
        ELSE IF ended # {} /\ going # {}
             THEN IF Has("zip_to_shortest") THEN End(r.src) ELSE Fatal(r.src)
        ELSE IF going = {} THEN End(r.src)
        ELSE Got(r.src, FlattenSeq(r.items))

-----------------------------------------------------------------------------
\* next_in_pipeline(): an inner pipeline i that has ended, where its next() came to
\* r, is begun again, or not.
Renewed(r, i) ==
    LET t == [r.src EXCEPT !.done[i] = TRUE] IN
    CASE r.tag = "end" ->
           IF Has("allow_repeats") THEN ReadAt([t EXCEPT !.pos[i] = 0], i) ELSE End(t)
      [] r.tag = "data" /\ i \in pipe.pseudo -> [r EXCEPT !.src = t]
      [] OTHER -> r

NextIn(s, i) == Renewed(ReadAt(s, i), i)

\* The first round of examples; an error leaves the ones before it in buffer_.
Kept(q) == IF q.tag = "error" THEN q
           ELSE IF q.tag = "end" /\ pipe.op = "sample" /\ Has("allow_repeats")
                THEN Fatal(q.src)
           ELSE Got([q.src EXCEPT !.buf = Append(@, q.items)], <<>>)

Gather(s) ==
    LET Fill(r, i) == IF r.tag = "data" THEN Kept(NextIn(r.src, i)) ELSE r
    IN  IF s.buf # <<>> THEN Got(s, <<>>)
        ELSE Iterate(Fill, Got(s, <<>>), Cardinality(Pipes))

\* The example of pipeline j, for which r is read ahead.
Turn(s, j, r) ==
    IF r.tag = "error" THEN ErrorOf([r.src EXCEPT !.num = j - 1])
    ELSE Got([r.src EXCEPT !.buf[j] = r.items,
                           !.num = IF j = Len(s.buf) THEN 0 ELSE j],
             s.buf[j])

\* The next pipeline from buffer_idx_ on that has an example.
NextTurn(s) ==
    LET on == {j \in DOMAIN s.buf : j > s.num /\ s.buf[j] # <<>>} IN
    IF on = {} THEN End([s EXCEPT !.num = 0])
    ELSE LET j == Min(on) IN Turn(s, j, NextIn(s, j))

\* round_robin_data_source: buffer_ is buf, buffer_idx_ is num, is_eod_ is flag.
RoundRobinNext(s) ==
    LET eod == \/ s.flag
               \/ s.num = 0 /\ Has("stop_at_shortest") /\ \E i \in Pipes : s.done[i]
               \/ s.num = 0 /\ ~Has("stop_at_shortest") /\ \A i \in Pipes : s.done[i]
        Go(g) == IF g.tag = "error" THEN g ELSE NextTurn(g.src)
    IN  IF Pipes = {} THEN End(s)
        ELSE IF eod THEN End([s EXCEPT !.flag = TRUE])
        ELSE Go(Gather(s))

\* random_pipeline_index() for equal weights; block() takes the weight of a list
\* that has ended.  Where no pipeline is left the index runs out of bounds.
Sampled(s) ==
    LET open == {i \in Pipes : Has("allow_repeats") \/ ~s.done[i] \/ i \in pipe.pseudo}
        kth  == CHOOSE i \in open : Cardinality({j \in open : j < i})
                                    = (Draw(s) * Cardinality(open)) \div 6
        left == {i \in Pipes : i >= kth /\ (Has("allow_repeats") \/ ~s.done[i])}
    IN  IF open = {} THEN {}
        ELSE {i \in left : \A j \in left : i <= j}

\* sample_data_source.
SampleNext(s) ==
    LET Ahead(t, j, r) == IF r.tag = "error" THEN r
                          ELSE Got([r.src EXCEPT !.buf[j] = r.items], t.buf[j])
        Pick(t, picks) ==
          IF picks \cap DOMAIN t.buf = {} THEN Undefined(t)
          ELSE LET j == CHOOSE i \in picks : TRUE IN Ahead(t, j, NextIn(t, j))
        Go(g) == IF g.tag = "data" THEN Pick([g.src EXCEPT !.rng = @ + 1], Sampled(g.src))
                 ELSE g
    IN  IF \A i \in Pipes : s.done[i] THEN End(s) ELSE Go(Gather(s))

\* yield_from_data_source: maybe_current_example_ is buf, num the position in the
\* pipeline made of it.
YieldFromNext(s) ==
    LET Load(r, i) ==
          IF r.tag # "more" THEN r
          ELSE LET q == ReadAt(r.src, 1)
                   t == [q.src EXCEPT !.buf = q.items, !.num = 0]
               IN  CASE q.tag = "error" -> q
                     [] q.tag = "end"   -> End(t)
                     [] q.tag = "data"  ->
                          IF pipe.sub[q.items[1]] = <<>> THEN [r EXCEPT !.src = t]
                          ELSE Got([t EXCEPT !.num = 1], <<pipe.sub[q.items[1]][1]>>)
    IN  IF s.buf # <<>> /\ s.num < Len(pipe.sub[s.buf[1]])
        THEN Got([s EXCEPT !.num = @ + 1], <<pipe.sub[s.buf[1]][s.num + 1]>>)
        ELSE Iterate(Load, [End(s) EXCEPT !.tag = "more"], Len(pipe.lists[1]) + 1)

-----------------------------------------------------------------------------
Hollow == 0   \* an element of buffer_ that was moved from

\* shuffle(): Fisher and Yates over the buffer up to buffer_end_.
Shuffled(s) ==
    LET Swap(t, i) ==
          LET top == s.last + 1 - i
              idx == (Draw(t) % top) + 1
          IN  [t EXCEPT !.rng = @ + 1, !.buf[top] = t.buf[idx], !.buf[idx] = t.buf[top]]
    IN  IF s.num # 0 THEN s ELSE Iterate(Swap, s, s.last - 1)

\* fill_buffer_ is ~flag.
FillShuffle(s) ==
    LET Filled(t, tag) ==
          IF tag = "error" THEN ErrorOf(t)
          ELSE Got([t EXCEPT !.num = 0, !.last = Len(t.buf), !.flag = TRUE], <<>>)
        Fill(r) == Filled([r.src EXCEPT !.buf = s.buf \o r.items], r.tag)
    IN  IF s.flag THEN Got(s, <<>>)
        ELSE Fill(ReadMany(s, IF pipe.n = 0 THEN Len(pipe.lists[1]) + 1 ELSE pipe.n))

\* The example at buffer_pos_ is replaced by the one more that was read, or by none.
Replaced(t, more) ==
    LET at == t.num + 1
        Step(u) == Got([u EXCEPT !.num = IF at = Len(t.buf) THEN 0 ELSE at], <<t.buf[at]>>)
    IN  CASE more.tag = "data"  -> Step([more.src EXCEPT !.buf[at] = more.items[1]])
          [] more.tag = "end"   -> Step([t EXCEPT !.last = t.num])
          [] more.tag = "error" -> ErrorOf([more.src EXCEPT !.buf[at] = Hollow])

\* shuffle_data_source: buffer_pos_ is num, buffer_end_ is last.
ShuffleNext(s) ==
    LET Go(t) == Replaced(t, IF t.last = Len(t.buf) THEN ReadAt(t, 1)
                             ELSE Got(t, <<t.buf[t.num + 1]>>))
        On(f) == IF f.tag = "error" THEN f
                 ELSE IF f.src.num = f.src.last THEN End(f.src)
                 ELSE Go(Shuffled(f.src))
    IN  IF pipe.n = 1 THEN ReadAt(s, 1) ELSE On(FillShuffle(s))

\* bucket_data_source: buckets of n.
BucketNext(s) ==
    LET r == ReadMany(s, pipe.n) IN
    IF r.tag = "error" THEN Dropping(r)
    ELSE IF r.items = <<>> \/ (Has("drop_remainder") /\ Len(r.items) < pipe.n)
         THEN End(r.src)
    ELSE Got(r.src, r.items)

\* What is left in the buckets at the end: the last one, filled up from the ones
\* before it.
Chunk(s) ==
    LET full  == {i \in DOMAIN s.aside : s.aside[i] # <<>>}
        i     == CHOOSE i \in full : \A j \in full : j <= i
        size  == pipe.sizes[i][1]
        Pull(t, k) ==
          LET j    == i - k
              room == size - Len(t.aside[i])
              keep == IF room >= Len(t.aside[j]) THEN 0 ELSE Len(t.aside[j]) - room
          IN  [t EXCEPT !.aside[i] = @ \o Reverse(SubSeq(t.aside[j], keep + 1, Len(t.aside[j]))),
                        !.aside[j] = SubSeq(@, 1, keep)]
        t     == Iterate(Pull, s, i - 1)
        u     == [t EXCEPT !.aside[i] = <<>>]
    IN  IF full = {} THEN End(s)
        ELSE IF Has("drop_remainder") /\ Len(t.aside[i]) # size THEN End(u)
        ELSE Got(u, t.aside[i])

\* bucket_by_length_data_source: buckets_ is aside, of the given sizes and lengths.
ByLengthNext(s) ==
    LET Fits(e) == {i \in DOMAIN pipe.sizes : pipe.len[e] <= pipe.sizes[i][2]}
        Sort(r, k) ==
          IF r.tag # "more" THEN r
          ELSE LET q == ReadAt(r.src, 1)
                   e == q.items[1]
                   i == CHOOSE i \in Fits(e) : \A j \in Fits(e) : i <= j
                   t == [q.src EXCEPT !.aside[i] = Append(@, e)]
               IN  CASE q.tag = "error" -> q
                     [] q.tag = "end"   -> [q EXCEPT !.tag = "rest"]
                     [] q.tag = "data" /\ (pipe.len[e] < pipe.min \/ Fits(e) = {}) ->
                          IF Has("skip_outliers") THEN [r EXCEPT !.src = q.src]
                          ELSE ErrorOf(q.src)
                     [] OTHER ->
                          IF Len(t.aside[i]) < pipe.sizes[i][1] THEN [r EXCEPT !.src = t]
                          ELSE Got([t EXCEPT !.aside[i] = <<>>], t.aside[i])
        r == Iterate(Sort, [End(s) EXCEPT !.tag = "more"], Len(pipe.lists[1]) + 1)
    IN  IF r.tag = "rest" THEN Chunk(r.src) ELSE r

\* A bucket_creation_fn: batches of one, and the last example for the next bucket.
Batches(b) == IF Len(b) = 1 THEN <<b>> ELSE Singles(Front(b))
Leftover(b) == IF Len(b) = 1 THEN <<>> ELSE <<Last(b)>>

\* dynamic_bucket_data_source: threshold n, at most m examples (0: any number);
\* buffer_ is buf, return_buffer_ is aside.
DynamicNext(s) ==
    LET Cost(r) == IF r.items = <<>> THEN 0
                   ELSE FoldLeft(LAMBDA c, e : c + pipe.len[e], 0, r.items)
        IsReady(r) == \/ Cost(r) >= pipe.n /\ Len(r.src.buf) >= pipe.min
                      \/ pipe.m > 0 /\ Len(r.src.buf) >= pipe.m
        Collect(r, i) ==
          IF r.tag # "data" \/ IsReady(r) THEN r
          ELSE LET q == ReadAt(r.src, 1)
               IN  [src   |-> [q.src EXCEPT !.buf = @ \o q.items],
                    tag   |-> q.tag,
                    items |-> r.items \o q.items]
        r == Iterate(Collect, Got(s, <<>>), Len(pipe.lists[1]) + 1)
        b == r.src.buf
        t == [r.src EXCEPT !.buf = <<>>]
    IN  IF s.aside # <<>> THEN Got([s EXCEPT !.aside = Tail(@)], Head(s.aside))
        ELSE IF r.tag = "error" THEN Dropping(r)
        ELSE IF b = <<>> THEN End(r.src)
        ELSE IF IsReady(r) /\ Has("bucket_creation_fn")
             THEN Got([t EXCEPT !.buf = Leftover(b), !.aside = Tail(Batches(b))],
                      Head(Batches(b)))
        ELSE IF ~IsReady(r) /\ Has("drop_remainder") THEN End(t)
        ELSE Got(t, b)

\* The elements of the tensor e.
Tensor(e) == [i \in 1..pipe.len[e] |-> 10 * e + i]

\* One round of the loop that fills the batch r, with the elements q in hand.
Packing(r, q) ==
    LET fill  == Min({Len(q.items), pipe.n - Len(r.items), pipe.m})
        Packed(t, batch) == [src |-> t, items |-> batch, begun |-> TRUE,
                             tag |-> IF Len(batch) = pipe.n THEN "full" ELSE "more"]
        Cut(k, batch) ==
          Packed([q.src EXCEPT !.buf = SubSeq(q.items, IF Len(batch) = pipe.n THEN k ELSE k + 1,
                                              Len(q.items))], batch)
    IN  CASE q.tag # "data" -> [r EXCEPT !.src = q.src, !.tag = q.tag]
          [] q.tag = "data" /\ Len(q.items) <= fill -> Packed(q.src, r.items \o q.items)
          [] q.tag = "data" /\ Len(q.items) > fill /\ Has("truncate") ->
               Cut(fill, r.items \o SubSeq(q.items, 1, fill))
          [] OTHER ->
               IF r.items = <<>> THEN [r EXCEPT !.src = q.src, !.tag = "error"]
               ELSE [r EXCEPT !.src.buf = q.items, !.src.pos = q.src.pos, !.tag = "end"]

\* packed_data_source: capacity_ n, max_seq_len_ m; remainder_ is buf.
PackNext(s) ==
    LET Tensors(p) == IF p.tag = "data" THEN [p EXCEPT !.items = Tensor(p.items[1])] ELSE p
        Pack(r, i) ==
          IF r.tag # "more" THEN r
          ELSE Packing(r, IF r.src.buf # <<>> THEN Got([r.src EXCEPT !.buf = <<>>], r.src.buf)
                          ELSE Tensors(ReadAt(r.src, 1)))
        Close(r) ==
          IF r.tag = "error" THEN ErrorOf(r.src)
          ELSE IF r.tag # "full" /\ Has("truncate") /\ Has("drop_remainder") THEN End(r.src)
          ELSE IF r.begun THEN Got(r.src, r.items)
          ELSE End(r.src)
    IN  Close(Iterate(Pack, [src |-> s, tag |-> "more", items |-> <<>>, begun |-> FALSE],
                      pipe.n + Len(pipe.lists[1]) + 1))

-----------------------------------------------------------------------------
SourceNext(s) ==
    CASE pipe.op = "list"        -> ReadAt(s, 1)
      [] pipe.op = "count"       -> CountNext(s)
      [] pipe.op = "skip"        -> SkipNext(s)
      [] pipe.op = "take"        -> TakeNext(s)
      [] pipe.op = "filter"      -> FilterNext(s)
      [] pipe.op = "shard"       -> ShardNext(s)
      [] pipe.op = "repeat"      -> RepeatNext(s)
      [] pipe.op = "concat"      -> ConcatNext(s)
      [] pipe.op = "zip"         -> ZipNext(s)
      [] pipe.op = "round_robin" -> RoundRobinNext(s)
      [] pipe.op = "sample"      -> SampleNext(s)
      [] pipe.op = "yield_from"  -> YieldFromNext(s)
      [] pipe.op = "shuffle"     -> ShuffleNext(s)
      [] pipe.op = "bucket"      -> BucketNext(s)
      [] pipe.op = "bucket_by_length" -> ByLengthNext(s)
      [] pipe.op = "dynamic_bucket"   -> DynamicNext(s)
      [] pipe.op = "pack"        -> PackNext(s)

\* reset(): a generator starts over only if asked to; return_buffer_ of a dynamic
\* bucket stays.
SourceReset(s, resetRng) ==
    [Fresh EXCEPT !.rng   = IF resetRng THEN 0 ELSE s.rng,
                  !.aside = IF pipe.op = "dynamic_bucket" THEN s.aside ELSE @]

\* record_position(): what a loose one leaves out.
Loosened(s) ==
    CASE pipe.op \in {"round_robin", "sample"} ->
           [s EXCEPT !.buf = <<>>, !.num = 0, !.flag = FALSE,
                     !.done = [i \in Pipes |-> FALSE]]
      [] pipe.op = "shuffle" -> [s EXCEPT !.buf = <<>>, !.num = 0, !.last = 0, !.flag = FALSE]
      [] pipe.op = "yield_from" -> [s EXCEPT !.buf = <<>>, !.num = 0]
      [] OTHER -> s

\* Mutant: the counters are not recorded.
SourceReloadUncounted(s, t) == [t EXCEPT !.num = s.num]

\* reload_position() into the source s: has_data_ of a repeat, return_buffer_ of a
\* dynamic bucket, and remainder_ of a pack where none was recorded, stay.
SourceReload(s, t) ==
    CASE pipe.op = "repeat"         -> [t EXCEPT !.flag = s.flag]
      [] pipe.op = "dynamic_bucket" ->
           [t EXCEPT !.aside = s.aside,
                     !.buf = IF Has("bucket_creation_fn") THEN @ ELSE s.buf]
      [] pipe.op = "pack" /\ t.buf = <<>> -> [t EXCEPT !.buf = s.buf]
      [] pipe.op = "round_robin"    -> [t EXCEPT !.flag = FALSE]
      [] OTHER -> t

\* finitude_type(), as the number of its enumerator: finite, pseudo-infinite, infinite.
PipeFinitude(i) == IF i \in pipe.pseudo THEN 1 ELSE 0
Finitude ==
    LET of == {PipeFinitude(i) : i \in Pipes} IN
    CASE pipe.op = "count"  -> 1
      [] pipe.op = "take"   -> 0
      [] pipe.op = "repeat" -> IF pipe.n < 0 THEN 2 ELSE PipeFinitude(1)
      [] pipe.op = "zip"    -> IF 0 \notin of THEN 0 ELSE 2
      [] OTHER -> IF 1 \in of THEN 1 ELSE 0

-----------------------------------------------------------------------------
Over(tag) == tag \in {"fatal", "undefined"}
NoOut     == [tag |-> "none", items |-> <<>>]
NoneSaved == [src |-> <<>>, reads |-> 0, live |-> FALSE, exact |-> FALSE, floor |-> -1]

\* What IdealLength calls of next() return.
IdealRun ==
    LET Step(r, i) ==
          IF r.outs # <<>> /\ Over(Last(r.outs).tag) THEN r
          ELSE LET q == SourceNext(r.src)
               IN  [src |-> q.src, outs |-> Append(r.outs, [tag |-> q.tag, items |-> q.items])]
    IN  Iterate(Step, [src |-> Fresh, outs |-> <<>>], IdealLength).outs

PipeInit ==
    /\ pipe \in Pipelines
    /\ src = Fresh /\ live = FALSE /\ reads = 0 /\ got = NoOut
    /\ exact = TRUE /\ floor = 0
    /\ saved = NoneSaved /\ pipeCalls = 0
    /\ ideal = IdealRun

\* data_pipeline::next(); an error that is not recoverable breaks the pipeline.
PipeRead ==
    /\ reads < IdealLength /\ ~Over(got.tag)
    /\ LET r == SourceNext(src) IN
       /\ src' = r.src
       /\ got' = [tag |-> r.tag, items |-> r.items]
    /\ live' = TRUE /\ reads' = reads + 1
    /\ UNCHANGED <<pipe, exact, floor, saved, pipeCalls, ideal>>

PipeCall == pipeCalls < PipeCalls /\ pipeCalls' = pipeCalls + 1

\* data_pipeline::record_position(): of a pipeline that was never used, only that.
PipeRecord ==
    /\ PipeCall /\ ~Over(got.tag)
    /\ \E strict \in BOOLEAN :
         saved' = [src   |-> IF strict THEN src ELSE Loosened(src),
                   reads |-> reads, live |-> live,
                   exact |-> exact /\ (strict \/ Loosened(src) = src),
                   floor |-> IF exact THEN reads ELSE floor]
    /\ UNCHANGED <<pipe, src, live, reads, got, exact, floor, ideal>>

\* A reset that leaves generator_ where it is.
RunsOn == pipe.op \in {"sample", "shuffle"} /\ src.rng # 0

\* data_pipeline::reload_position(), by the pipeline itself or by a new one.  The
\* position of a pipeline that was never used resets one that was.
PipeReload ==
    /\ PipeCall
    /\ saved # NoneSaved
    /\ \E same \in BOOLEAN :
         /\ same => ~Over(got.tag)
         /\ LET s == IF same THEN src ELSE Fresh IN
            src' = IF saved.live THEN SourceReload(s, saved.src)
                   ELSE IF same /\ live THEN SourceReset(s, FALSE)
                   ELSE s
         /\ live' = (saved.live \/ (same /\ live))
         /\ exact' = (saved.exact /\ (saved.live \/ ~same \/ ~RunsOn))
    /\ reads' = saved.reads /\ got' = NoOut /\ floor' = saved.floor
    /\ UNCHANGED <<pipe, saved, ideal>>

\* data_pipeline::reset().
PipeReset ==
    /\ PipeCall /\ ~Over(got.tag)
    /\ \E resetRng \in BOOLEAN :
         /\ src' = IF live THEN SourceReset(src, resetRng) ELSE src
         /\ exact' = (resetRng \/ ~RunsOn)
    /\ reads' = 0 /\ got' = NoOut /\ floor' = 0
    /\ UNCHANGED <<pipe, live, saved, ideal>>

PipeNext == PipeRead \/ PipeRecord \/ PipeReload \/ PipeReset

PipeSpec == PipeInit /\ [][PipeNext]_pipeVars

-----------------------------------------------------------------------------
\* Reference definitions: what an operation is to make of its lists, the examples
\* that fail left out.
Sound(list) == SelectSeq(list, LAMBDA e : e \notin pipe.bad)
Lists == [i \in Pipes |-> IF i \in pipe.pseudo THEN [k \in 1..IdealLength |-> 0]
                          ELSE Sound(pipe.lists[i])]
L     == Lists[1]
Lengths  == {Len(Lists[i]) : i \in Pipes \ pipe.pseudo}
Longest  == CHOOSE k \in Lengths : \A j \in Lengths : j <= k
Shortest == CHOOSE k \in Lengths : \A j \in Lengths : k <= j
Chunks(list, k) ==
    [b \in 1..((Len(list) + k - 1) \div k) |->
        SubSeq(list, (b - 1) * k + 1, IF b * k < Len(list) THEN b * k ELSE Len(list))]
Selected(Keep(_)) == Singles(Iterate(LAMBDA a, i : IF Keep(i) THEN Append(a, L[i]) ELSE a,
                                      <<>>, Len(L)))

\* The examples of round r, one of each pipeline that still takes part in it.
Round(r) ==
    LET Pick(a, i) == IF Lists[i] = <<>> \/ (~Has("allow_repeats") /\ r > Len(Lists[i]))
                      THEN a
                      ELSE Append(a, <<Lists[i][((r - 1) % Len(Lists[i])) + 1]>>)
    IN  Iterate(Pick, <<>>, Cardinality(Pipes))

Reference ==
    CASE pipe.op = "list"   -> Singles(L)
      [] pipe.op = "count"  -> Singles([i \in 1..IdealLength |-> pipe.n + (i - 1) * pipe.m])
      [] pipe.op = "skip"   -> Selected(LAMBDA i : i > pipe.n)
      [] pipe.op = "take"   -> Selected(LAMBDA i : i <= pipe.n)
      [] pipe.op = "filter" -> Selected(LAMBDA i : L[i] \notin pipe.reject)
      [] pipe.op = "shard"  ->
           Selected(LAMBDA i : (i - 1) % pipe.m = pipe.n /\
                       (Has("allow_uneven") \/ i - pipe.n + pipe.m - 1 <= Len(L)))
      [] pipe.op = "repeat" ->
           FlattenSeq([k \in 1..(IF pipe.n < 0 THEN IdealLength ELSE pipe.n) |-> Singles(L)])
      [] pipe.op = "concat" -> Singles(FlattenSeq(Lists))
      [] pipe.op = "zip"    ->
           [k \in 1..Shortest |-> [i \in Pipes |-> Lists[i][k]]]
      [] pipe.op = "round_robin" ->
           FlattenSeq([r \in 1..(IF Has("stop_at_shortest") THEN Shortest ELSE Longest)
                         |-> Round(r)])
      [] pipe.op = "yield_from" ->
           Singles(FoldLeft(LAMBDA a, e : a \o pipe.sub[e], <<>>, L))
      [] pipe.op = "bucket" ->
           SelectSeq(Chunks(L, pipe.n),
                     LAMBDA b : Has("drop_remainder") => Len(b) = pipe.n)

\* What the reader got: the examples and batches before the end, errors skipped.
Ends  == {i \in DOMAIN ideal : ideal[i].tag = "end"}
Ended == Ends # {}
Batched ==
    LET Take(a, i) == IF ideal[i].tag = "data" /\ \A e \in Ends : i < e
                      THEN Append(a, ideal[i].items) ELSE a
    IN  Iterate(Take, <<>>, Len(ideal))
Count(seq, e) == Cardinality({i \in DOMAIN seq : seq[i] = e})

\* Operations whose order a generator decides, or that regroup what they read.
Shuffling  == {"shuffle", "sample", "bucket_by_length", "dynamic_bucket", "pack"}

\* The window bounds how early an example may come.
WithinWindow ==
    pipe.n > 0 => \A i \in DOMAIN Batched : \A j \in DOMAIN L :
                     Batched[i] = <<L[j]>> => j <= i + pipe.n - 1

\* A bucket holds as many examples as its longest one allows, at most.
BucketsFit ==
    \A i \in DOMAIN Batched : \A e \in ToSet(Batched[i]) :
        \E k \in DOMAIN pipe.sizes :
            pipe.len[e] <= pipe.sizes[k][2] /\ Len(Batched[i]) <= pipe.sizes[k][1]

\* What a regrouping operation keeps: each example once, or each at least once.
Conserving ==
    LET all  == FlattenSeq(Batched)
        list == FlattenSeq(Lists)
    IN  CASE pipe.op = "shuffle" ->
               WithinWindow /\ \A e \in ToSet(list) \cup ToSet(all) :
                                  Count(all, e) = Count(list, e)
          [] pipe.op = "sample" ->
               /\ ToSet(list) \subseteq ToSet(all)
               /\ Has("allow_repeats") \/ Len(all) = Len(list)
          [] pipe.op = "bucket_by_length" ->
               /\ BucketsFit
               /\ Has("drop_remainder") \/
                  \A e \in ToSet(list) \cup ToSet(all) :
                    Count(all, e) = IF pipe.len[e] < pipe.min \/
                                       \A k \in DOMAIN pipe.sizes : pipe.len[e] > pipe.sizes[k][2]
                                    THEN 0 ELSE Count(list, e)
          [] pipe.op = "dynamic_bucket" ->
               /\ IF Has("drop_remainder") THEN IsPrefix(all, list) ELSE all = list
               /\ pipe.m > 0 => \A i \in DOMAIN Batched : Len(Batched[i]) <= pipe.m
          [] pipe.op = "pack" ->
               LET tokens == FlattenSeq([i \in DOMAIN list |-> Tensor(list[i])]) IN
               /\ \A i \in DOMAIN Batched : Len(Batched[i]) <= pipe.n
               /\ Has("truncate") =>
                    IF Has("drop_remainder") THEN ToSet(all) \subseteq ToSet(tokens)
                    ELSE ToSet(all) = ToSet(tokens)

\* The operations whose state outlives an error of the inner pipeline.
ErrorProof == {"list", "take", "filter", "concat", "repeat", "yield_from",
               "bucket_by_length"}

\* What the code gets wrong, and the properties below leave out: a round of
\* round_robin whose last pipelines have ended, or an empty pipeline, ends the data
\* of the others; sample indexes out of bounds where every pipeline is empty; zip
\* calls the finite infinite; the position of a Forgetful operation is not all of it.
CutShort == /\ pipe.op = "round_robin"
            /\ \/ \E i \in Pipes : Lists[i] = <<>>
               \/ /\ pipe.flags = {}
                  /\ \E i, j \in Pipes : i < j /\ Len(Lists[i]) > Len(Lists[j])
NoExample == pipe.op = "sample" /\ \A i \in Pipes : pipe.lists[i] = <<>>
Forgetful == {"repeat", "dynamic_bucket", "pack"}

\* Nothing was called yet: the place to check `ideal', which no call changes.
Unused == ~live /\ pipeCalls = 0

\* Every operation makes of its lists what it is documented to make, for every
\* size, length and flag, and drops no more than what failed when its inner
\* pipeline throws recoverable errors.  A list, not an error, ends the data: once
\* next() has reported the end it goes on to do so, a pipeline that says it is
\* finite ends, one that says it is infinite does not, and no call reads outside of
\* a buffer.
EndsOnce ==
    /\ \A i, j \in DOMAIN ideal : i < j /\ ideal[i].tag = "end" => ideal[j].tag = "end"
    /\ Finitude = 0 \/ pipe.op = "zip" => Ended \/ Over(Last(ideal).tag)
    /\ Finitude = 2 /\ pipe.op # "zip" => ~Ended \/ Batched = <<>>
    /\ \A i \in DOMAIN ideal : ideal[i].tag # "undefined"

MatchesReference ==
    Unused /\ ~CutShort =>
      /\ pipe.bad = {} \/ pipe.op \in ErrorProof =>
           IF pipe.op \in Shuffling THEN Ended => Conserving
           ELSE IF Ended THEN Batched = Reference ELSE IsPrefix(Batched, Reference)
      /\ ~NoExample => EndsOnce

\* "on preemption no example will be lost" (state_dict): after a strict position is
\* reloaded, by the same pipeline or a new one, or after a reset, next() returns
\* what an uninterrupted reader gets; after a loose one, nothing a second time.
Resumed ==
    got # NoOut /\ pipe.op \notin Forgetful =>
      IF exact THEN got = ideal[reads]
      ELSE pipe.op \in {"repeat", "round_robin", "sample", "zip"} \/
             \A i \in 1..floor : ToSet(got.items) \cap ToSet(ideal[i].items) = {}
=============================================================================
