------------------------------ MODULE Attention ------------------------------
(***************************************************************************)
(* Batches of sequences in a transformer: how sequences are laid out in a  *)
(* batch, padded or packed, how their tokens are positioned, what the      *)
(* attention biases let a token see, and how the implementations of scaled *)
(* dot product attention apply them.                                       *)
(*                                                                         *)
(* The numbers are symbolic: the output of an attention is the set of the  *)
(* values it weighs, each with the bias and the relative position that     *)
(* weigh it, and a layer pairs it with its input.  Equal outputs are then  *)
(* outputs that were computed from the same tokens in the same way.        *)
(***************************************************************************)
EXTENDS Integers, Sequences, FiniteSets, SequencesExt

\* A call of a stack of layers: its batch, that of the encoder output it attends to
\* (NoSource: none), the bias of each layer's self attention, the SDPA, whether the
\* position encoder is a learned one, and the tokens decoded before (prefix).
CONSTANT Calls

\* packed: the sequences follow each other in one row; lens: theirs; width: of a row.
LaidOut(packed, lens, width) == [packed |-> packed, lens |-> lens, width |-> width]
NoSource == LaidOut(FALSE, <<>>, 0)

\* Windows and chunks: 0 for none.
BiasOf(kind, size) == [kind |-> kind, size |-> size]
Identity == BiasOf("identity", 0)

Heads == 2   \* of an ALiBi bias, which has a head dimension that the others lack
Left  == 1   \* max_lhs_rel_pos
Right == 1   \* max_rhs_rel_pos

TotalLen(lens) == FoldLeft(LAMBDA a, n : a + n, 0, lens)

ASSUME CallAssumption ==
    \A c \in Calls :
        /\ DOMAIN c = {"batch", "source", "biases", "sdpa", "learned", "prefix"}
        /\ \A l \in {c.batch, c.source} \ {NoSource} :
              /\ l.lens # <<>> /\ \A s \in DOMAIN l.lens : l.lens[s] \in 1..l.width
              /\ l.packed => TotalLen(l.lens) <= l.width
        /\ c.source # NoSource =>
              /\ c.source.packed = c.batch.packed
              /\ Len(c.source.lens) = Len(c.batch.lens)
        /\ c.prefix \in Nat

VARIABLE fw  \* the forward pass: its call, the layers done, the sublayer, x, cache

-----------------------------------------------------------------------------
\* BatchLayout.
Rows(l)      == IF l.packed THEN 1 ELSE Len(l.lens)
RowOf(l, s)  == IF l.packed THEN 1 ELSE s
BeginOf(l, s) == IF l.packed THEN TotalLen(SubSeq(l.lens, 1, s - 1)) ELSE 0
Padded(l)    == IF l.packed THEN TotalLen(l.lens) < l.width
                ELSE \E s \in DOMAIN l.lens : l.lens[s] < l.width
FullRows(l)  == ~l.packed /\ ~Padded(l)

\* The sequence element i of a row belongs to, if any.
SeqsAt(l, r, i) ==
    {s \in DOMAIN l.lens : RowOf(l, s) = r /\ BeginOf(l, s) < i /\ i <= BeginOf(l, s) + l.lens[s]}

\* Mutant: the indices of a packed batch are not restarted with each sequence.
PositionIndicesRunning(l) ==
    [r \in 1..Rows(l) |-> [i \in 1..l.width |-> IF SeqsAt(l, r, i) = {} THEN -1 ELSE i - 1]]

PositionIndices(l) ==
    [r \in 1..Rows(l) |-> [i \in 1..l.width |->
        LET own == SeqsAt(l, r, i)
        IN  IF own = {} THEN -1 ELSE i - 1 - BeginOf(l, CHOOSE s \in own : TRUE)]]

\* The rows of the table of frequencies or embeddings that a position encoder takes: by
\* indices, or for full batches, unless learned, as a slice.  Row 0 is for padding.
TableRows(l, learned, stepNr) ==
    IF learned \/ ~FullRows(l)
    THEN [r \in 1..Rows(l) |-> [i \in 1..l.width |-> stepNr + PositionIndices(l)[r][i] + 1]]
    ELSE [r \in 1..Rows(l) |-> [i \in 1..l.width |-> stepNr + i]]

\* The batch at its way in: token p of sequence s, with its position.
Padding == 0
Token(s, p, row)    == <<"token", s, p, row>>
Output(own, terms) == <<"output", own, terms>>
Embedded(l, learned, stepNr) ==
    [r \in 1..Rows(l) |-> [i \in 1..l.width |->
        LET own == SeqsAt(l, r, i)
            s   == CHOOSE s \in own : TRUE
            row == TableRows(l, learned, stepNr)[r][i]
        IN  IF own = {} THEN Token(Padding, Padding, row)
            ELSE Token(s, stepNr + i - BeginOf(l, s), row)]]

-----------------------------------------------------------------------------
\* Bias tensors: what is added to the weight of key j for query i; Masked is -inf.
Masked == -1000

Zeros(q, k) == [i \in 1..q |-> [j \in 1..k |-> 0]]

\* _create_causal_bias_tensor(), from the bottom right.
CausalTensor(q, k, window) ==
    [i \in 1..q |-> [j \in 1..k |->
        IF j <= i + (k - q) /\ (window < q => j > i + (k - q) - window) THEN 0 ELSE Masked]]

\* ChunkedAttentionBias: ones and zeros.
ChunkedTensor(q, size) ==
    [i \in 1..q |-> [j \in 1..q |->
        IF (i - 1) \div size = (j - 1) \div size /\ j <= i THEN 1 ELSE 0]]

\* ALiBiAttentionBias, per head; the slope times the key's index.
AlibiTensor(q, k) ==
    [i \in 1..q |-> [j \in 1..k |->
        IF q > 1 /\ CausalTensor(q, k, q)[i][j] = Masked THEN Masked ELSE j - 1]]

\* create_bias_tensor()
Tensor(b, q, k) ==
    CASE b.kind = "identity" -> Zeros(q, k)
      [] b.kind = "causal"   -> CausalTensor(q, k, IF b.size = 0 THEN q ELSE b.size)
      [] b.kind = "chunked"  -> ChunkedTensor(q, b.size)
      [] b.kind = "alibi"    -> AlibiTensor(q, k)

\* _create_block_bias_tensor(): the sequences of a row see themselves, and what is left
\* over of the queries what is left over of the keys, if both leave something.
Block(b, q, k) ==
    LET InSeq(l, s, i) == BeginOf(l, s) < i /\ i <= BeginOf(l, s) + l.lens[s]
        Pair(i, j)     == {s \in DOMAIN q.lens : InSeq(q, s, i) /\ InSeq(k, s, j)}
        Left0(i, j)    == i > TotalLen(q.lens) /\ j > TotalLen(k.lens)
    IN  IF Len(q.lens) = 1 /\ q.lens[1] = q.width /\ k.lens[1] = k.width
        THEN Tensor(b, q.width, k.width)
        ELSE [i \in 1..q.width |-> [j \in 1..k.width |->
                IF Pair(i, j) # {}
                THEN LET s == CHOOSE s \in Pair(i, j) : TRUE
                     IN  Tensor(b, q.lens[s], k.lens[s])[i - BeginOf(q, s)][j - BeginOf(k, s)]
                ELSE IF Left0(i, j) THEN 0 ELSE Masked]]

\* Mutant: rows are told apart by the width, not by the lengths of their sequences.
MaterializedUnpadded(b, q, k) ==
    IF q.packed THEN <<Block(b, q, k)>>
    ELSE [r \in 1..Rows(q) |-> Tensor(b, q.width, k.width)]

\* materialize_attention_bias()
Materialized(b, q, k) ==
    LET Only(l, r) == LaidOut(TRUE, <<l.lens[r]>>, l.width)
    IN  IF q.packed THEN <<Block(b, q, k)>>
        ELSE IF ~Padded(q) /\ ~Padded(k)
             THEN [r \in 1..Rows(q) |-> Tensor(b, q.width, k.width)]
        ELSE [r \in 1..Rows(q) |-> Block(b, Only(q, r), Only(k, r))]

\* maybe_get_attention_bias_tensor(): no tensor where the bias makes no difference.
Biasless(b, q, k) ==
    \/ b.kind = "identity" /\ FullRows(q) /\ FullRows(k)
    \/ b.kind \in {"causal", "chunked"} /\ ~q.packed /\ \A s \in DOMAIN q.lens : q.lens[s] = 1

\* AttentionBiasCache, which lives as long as a forward pass of the stack, knows the
\* bias but not the layouts a tensor was made for.
Cached(cache, b, q, k) ==
    IF Biasless(b, q, k) \/ b \in DOMAIN cache THEN cache
    ELSE [d \in DOMAIN cache \cup {b} |->
             IF d = b THEN Materialized(b, q, k) ELSE cache[d]]

\* TorchSDPA leaves a plain causal bias of full batches to torch, flash attention all of
\* them to its kernels.
Fused(sdpa, b, q, k) ==
    \/ sdpa = "flash"
    \/ sdpa = "torch" /\ b = BiasOf("causal", 0) /\ FullRows(q) /\ FullRows(k) /\ q.width = k.width

CacheAfter(sdpa, cache, b, q, k) == IF Fused(sdpa, b, q, k) THEN cache ELSE Cached(cache, b, q, k)

BiasUsed(sdpa, cache, b, q, k) ==
    IF Biasless(b, q, k) THEN [r \in 1..Rows(q) |-> Zeros(q.width, k.width)]
    ELSE IF Fused(sdpa, b, q, k) THEN Materialized(b, q, k)
    ELSE Cached(cache, b, q, k)[b]

-----------------------------------------------------------------------------
\* RelativePositionSDPA._shift_bd(), of the table of positions n-1 to 1-n: which query
\* and which relative position the weight of key j for query i is (<<>>: zero).
ShiftedBd(n, i, j) ==
    LET at  == n + (i - 1) * (2 * n - 1) + (j - 1)
        row == at \div (2 * n)
        col == at % (2 * n)
    IN  IF col = 0 THEN <<>> ELSE <<row + 1, n - col>>

\* ShawRelativePositionSDPA._get_relative_indices(): of the last q of k rows.
Clamped(n) == IF n < -Left THEN -Left ELSE IF n > Right THEN Right ELSE n
RelativeIndex(q, k, i, j) == Clamped(j - (i + k - q)) + Left

Relation(sdpa, q, k, i, j) ==
    CASE sdpa = "relative" -> ShiftedBd(q, i, j)
      [] sdpa = "shaw"     -> <<RelativeIndex(q, k, i, j)>>
      [] OTHER             -> <<>>

\* The sequences a flash attention kernel goes through, and its window, which has the
\* size to the left of the token itself.
FlashSees(b, q, k, r, i, j) ==
    \E s \in SeqsAt(q, r, i) \cap SeqsAt(k, r, j) :
        LET at == (i - BeginOf(q, s)) + (k.lens[s] - q.lens[s])
            on == j - BeginOf(k, s)
        IN  b.kind = "causal" => on <= at /\ (b.size = 0 \/ on >= at - b.size)

\* What each implementation refuses: flash attention padded batches and biases of other
\* kinds, those with relative positions packed batches; a block of a bias with heads does
\* not fit a tensor without; chunked biases are square.
Refuses(sdpa, b, q, k) ==
    \/ sdpa = "flash" /\ (Padded(q) \/ Padded(k) \/ b.kind \notin {"identity", "causal"})
    \/ sdpa \in {"relative", "shaw"} /\ q.packed
    \/ b.kind = "alibi" /\ ~(FullRows(q) /\ FullRows(k)) /\ Heads > 1
    \/ b.kind = "chunked" /\ q.width # k.width /\ ~Biasless(b, q, k)

\* SDPA.forward(): values of the keys each query weighs.  NotANumber is the softmax of a
\* row that is masked entirely, which torch's own operator avoids, and all that it or a
\* value like it is multiplied with.
NotANumber == <<"nan">>

Attend(sdpa, b, q, ql, k, kl, cache) ==
    LET bias == BiasUsed(sdpa, cache, b, ql, kl)
        Terms(r, i) ==
          {[value |-> k[r][j], bias |-> IF sdpa = "flash" THEN 0 ELSE bias[r][i][j],
            relation |-> Relation(sdpa, ql.width, kl.width, i, j)] :
               j \in {j \in 1..kl.width : IF sdpa = "flash" THEN FlashSees(b, ql, kl, r, i, j)
                                          ELSE bias[r][i][j] # Masked}}
        Spoilt(r, i) == sdpa \notin {"torch", "flash"} /\
                        \/ Terms(r, i) = {}
                        \/ \E j \in 1..kl.width : k[r][j] = NotANumber
    IN  [r \in DOMAIN q |-> [i \in DOMAIN q[r] |->
            IF q[r][i] = NotANumber \/ Spoilt(r, i) THEN NotANumber
            ELSE Output(q[r][i], Terms(r, i))]]

-----------------------------------------------------------------------------
\* Reference definition: the value of token p of sequence s after n layers, read off the
\* sequence alone.  With a source, a layer ends with attention to all of it.
Visible(b, p, t) ==
    CASE b.kind = "identity" -> TRUE
      [] b.kind = "causal"   -> t <= p /\ (b.size = 0 \/ t > p - b.size)
      [] b.kind = "chunked"  -> t <= p /\ (t - 1) \div b.size = (p - 1) \div b.size
      [] b.kind = "alibi"    -> t <= p

Distance(sdpa, p, t) == CASE sdpa = "relative" -> <<p, p - t>>
                          [] sdpa = "shaw"     -> <<Clamped(t - p) + Left>>
                          [] OTHER             -> <<>>

AloneUpTo(c, s) ==
    LET len    == c.prefix + c.batch.lens[s]
        source == {[value |-> Token(s, t, t), bias |-> 0, relation |-> <<>>] :
                      t \in 1..(IF c.source = NoSource THEN 0 ELSE c.source.lens[s])}
        Self(x, n, p) ==
          Output(x[p], {[value |-> x[t], bias |-> IF c.biases[n].kind = "alibi" THEN t - 1 ELSE 0,
                    relation |-> Distance(c.sdpa, p, t)] :
                      t \in {t \in 1..len : Visible(c.biases[n], p, t)}})
        layer[n \in 0..Len(c.biases)] ==
          IF n = 0 THEN [p \in 1..len |-> Token(s, p, p)]
          ELSE [p \in 1..len |-> IF c.source = NoSource THEN Self(layer[n - 1], n, p)
                                 ELSE Output(Self(layer[n - 1], n, p), source)]
    IN  layer

\* The keys of all tokens up to the batch, those before from the attention's state.
KeyLayout(c) == IF c.prefix = 0 THEN c.batch
                ELSE LaidOut(FALSE, [s \in DOMAIN c.batch.lens |-> c.prefix + c.batch.lens[s]],
                            c.prefix + c.batch.width)
KeysOf(c, n, x) ==
    IF c.prefix = 0 THEN x
    ELSE [r \in DOMAIN x |-> SubSeq(AloneUpTo(c, r)[n], 1, c.prefix) \o x[r]]

-----------------------------------------------------------------------------
BeginForward(c) ==
    [call |-> c, layer |-> 0, at |-> "self", cache |-> <<>>,
     x |-> Embedded(c.batch, c.learned, c.prefix)]

AttentionInit == \E c \in Calls : fw = BeginForward(c)

\* A layer that is not followed by attention to the encoder output is done.
SelfAttention ==
    /\ fw.at = "self" /\ fw.layer < Len(fw.call.biases)
    /\ LET c  == fw.call
           b  == c.biases[fw.layer + 1]
           kl == KeyLayout(c)
       IN  fw' = IF Refuses(c.sdpa, b, c.batch, kl) THEN [fw EXCEPT !.at = "refused"]
                 ELSE [fw EXCEPT
                         !.x     = Attend(c.sdpa, b, @, c.batch, KeysOf(c, fw.layer, @), kl, fw.cache),
                         !.cache = CacheAfter(c.sdpa, @, b, c.batch, kl),
                         !.layer = IF c.source = NoSource THEN @ + 1 ELSE @,
                         !.at    = IF c.source = NoSource THEN "self" ELSE "source"]

SourceAttention ==
    /\ fw.at = "source"
    /\ LET c == fw.call
           y == Embedded(c.source, FALSE, 0)
       IN  fw' = IF Refuses(c.sdpa, Identity, c.batch, c.source) THEN [fw EXCEPT !.at = "refused"]
                 ELSE [fw EXCEPT
                         !.x     = Attend(c.sdpa, Identity, @, c.batch, y, c.source, fw.cache),
                         !.cache = CacheAfter(c.sdpa, @, Identity, c.batch, c.source),
                         !.layer = @ + 1,
                         !.at    = "self"]

AttentionNext == SelfAttention \/ SourceAttention

AttentionSpec == AttentionInit /\ [][AttentionNext]_fw

-----------------------------------------------------------------------------
\* The value of every token is what the sequence gives alone.
AttendsAsDeclared ==
    fw.at # "refused" =>
        \A s \in DOMAIN fw.call.batch.lens : \A p \in 1..fw.call.batch.lens[s] :
            fw.at = "self" =>
                fw.x[RowOf(fw.call.batch, s)][BeginOf(fw.call.batch, s) + p]
                  = AloneUpTo(fw.call, s)[fw.layer][fw.call.prefix + p]

\* What the code gets wrong, and AttendsAlone leaves out: chunked biases, whose ones and
\* zeros mask nothing; the windows of flash attention, a token longer than those of the
\* other implementations; causal biases of wider batches in which every sequence is of
\* one token, which are skipped with the padding unmasked; padded targets of the naive
\* implementation, whose padding attends to nothing and is no number after that.
Misattends(c) ==
    LET Some(P(_)) == \E n \in DOMAIN c.biases : P(c.biases[n])
    IN  \/ Some(LAMBDA b : b.kind = "chunked")
        \/ c.sdpa = "flash" /\ Some(LAMBDA b : b.size # 0)
        \/ Padded(c.batch) /\ Some(LAMBDA b : b.kind # "identity" /\ Biasless(b, c.batch, c.batch))
        \/ Padded(c.batch) /\ c.source # NoSource /\ c.sdpa = "naive"

\* However sequences are laid out in a batch, padded, packed or in full rows, decoded at
\* once or after others, whichever SDPA and position encoder a model uses and whatever
\* biases its layers share in the cache: a token gets what it would get in a batch of its
\* own, from the tokens its layers' biases let it see, at their positions.
AttendsAlone == ~Misattends(fw.call) => AttendsAsDeclared
=============================================================================
