------------------------------ MODULE Generation ------------------------------
(***************************************************************************)
(* Sequence generation by beam search and by sampling: the batch of        *)
(* sequences that grow by a token per step, the beams of its prompts, the  *)
(* incremental state of the model, which has to follow every reordering of *)
(* the batch, and the hypotheses.                                          *)
(*                                                                         *)
(* A model is whatever LogProb says: the log probability of a token, given *)
(* the source and the tokens its attention sees.  Generating is one state  *)
(* machine; a call of _step is a step.                                     *)
(***************************************************************************)
EXTENDS AttentionState, FiniteSets, FiniteSetsExt, SequencesExt

CONSTANTS
    Words,      \* the tokens
    Eos, Pad,   \* eos_idx and pad_idx
    Models,     \* the models
    LogProb(_, _, _, _),  \* LogProb(model, source, seen, token)
    Jobs        \* the calls of a generator

\* A call: the generator and its arguments.  width: beam_size or num_gens; window: that
\* of the decoder's LocalAttentionState, or 0; banned, ngram: what its step processors
\* prevent (the empty set, 0: none).  Beyond its first token a prompt has no Eos or Pad.
ASSUME JobAssumption ==
    /\ Eos \in Words /\ Pad \in Words \ {Eos} /\ Words \subseteq Nat
    /\ \A j \in Jobs :
         /\ j.kind \in {"beam", "sample"} /\ j.model \in Models
         /\ j.prompts \in Seq(Seq(Words)) /\ Len(j.sources) = Len(j.prompts)
         /\ \A p \in DOMAIN j.prompts :
              /\ 0 < Len(j.prompts[p]) /\ Len(j.prompts[p]) < j.maxLen
              /\ \A i \in 2..Len(j.prompts[p]) : j.prompts[p][i] \notin {Eos, Pad}
         /\ {j.width, j.minGen, j.maxLen, j.chunk} \subseteq Nat \ {0}
         /\ j.maxGen >= j.minGen /\ {j.window, j.inc, j.ngram} \subseteq Nat
         /\ {j.seq2seq, j.echo} \subseteq BOOLEAN

VARIABLE g  \* the state of the call's _...SequenceGeneratorOp

-----------------------------------------------------------------------------
NegInf == -100000

AddLog(a, b) == IF a = NegInf \/ b = NegInf THEN NegInf ELSE a + b

Lens(j)         == {Len(j.prompts[p]) : p \in DOMAIN j.prompts}
MinPromptLen(j) == Min(Lens(j))
MaxPromptLen(j) == Max(Lens(j))

MinSeqLen(j) == Lesser(j.maxLen, MaxPromptLen(j) + j.minGen)
MaxSeqLen(j) == Lesser(j.maxLen, MaxPromptLen(j) + j.maxGen)

\* A new call.  rows: the batch: of each sequence its prompt, its tokens (those of the
\* prompt that are still to come included) and the scores of its steps; beams: the
\* sizes of the beams; self, cross, enc: the attention states of the decoder and of the
\* encoder-decoder attention, and the encoder output; bag: step_nr of the state bag.
BeginCall(j) ==
    [job |-> j, minLen |-> MinSeqLen(j), maxLen |-> MaxSeqLen(j),
     phase |-> "prefill", stepNr |-> MinPromptLen(j),
     rows |-> [p \in DOMAIN j.prompts |-> [prompt |-> p, seq |-> j.prompts[p],
                                           scores |-> <<0>>]],
     beams |-> [p \in DOMAIN j.prompts |-> 1],
     self |-> [rows |-> <<>>], cross |-> <<>>, enc |-> <<>>, bag |-> 0,
     output |-> [p \in DOMAIN j.prompts |-> <<>>]]

GenInit == \E j \in Jobs : g = BeginCall(j)

\* The model called with tokens from+1..to of every sequence: self attention, and the
\* encoder output of all sources, computed once; then increment_step_nr().
Decode(s, from, to) ==
    LET chunks == [i \in DOMAIN s.rows |-> SubSeq(s.rows[i].seq, from + 1, to)]
        first  == s.self.rows = <<>>
    IN  [s EXCEPT !.self = IF first THEN NewState(chunks, s.maxLen, s.job.window, s.job.inc)
                           ELSE AppendTo(@, chunks),
                  !.cross = IF first /\ s.job.seq2seq THEN s.job.sources ELSE @,
                  !.enc   = IF first /\ s.job.seq2seq THEN s.job.sources ELSE @,
                  !.bag   = @ + (to - from)]

\* What the query of token k, the k-th last of the tokens decoded, attends to in row i.
\* The first call uses its own keys, later ones those of the state.
Sees(s, d, i, from, to, k) ==
    LET keys == IF s.self.rows = <<>> THEN SubSeq(s.rows[i].seq, from + 1, to)
                ELSE Keys(d.self)[i]
        n    == Len(keys) - (to - k)
    IN  IF s.job.window = 0 THEN SubSeq(keys, 1, n)
        ELSE Latest(SubSeq(keys, 1, n), Lesser(n, s.job.window))

\* Whether the encoder output has a row for each sequence of the batch.
SourceFits(d) == ~d.job.seq2seq \/ Len(d.enc) = Len(d.rows)

Source(d, i) == IF d.job.seq2seq THEN <<d.cross[i], d.enc[i]>> ELSE <<>>

\* _prefill(): the tokens all prompts have but the last, by chunks.
Chunk(s) == Lesser(s.job.chunk, s.stepNr - 1 - s.bag)

Prefilled(s) ==
    LET from == s.bag
        to   == s.bag + Chunk(s)
        d    == Decode(s, from, to)
        Score(i, k) == LogProb(s.job.model, Source(d, i), Sees(s, d, i, from, to, k),
                               s.rows[i].seq[k + 1])
        After(i, k) == IF s.job.kind = "sample" THEN Score(i, k)
                       ELSE s.rows[i].scores[from + 1]
                            + MapThenSumSet(LAMBDA m : Score(i, m), (from + 1)..k)
    IN  [d EXCEPT !.rows = [i \in DOMAIN @ |->
                  [@[i] EXCEPT !.scores = @ \o [k \in 1..(to - from) |-> After(i, from + k)]]]]

\* _reorder_state()
Reorder(s, order) ==
    [s EXCEPT !.rows  = Select(@, order),
              !.self  = IF @.rows = <<>> THEN @ ELSE Reordered(@, order),
              !.enc   = IF @ = <<>> THEN @ ELSE Select(@, order),
              !.cross = IF @ = <<>> THEN @ ELSE StaticReordered(@, order)]

\* The end of _prepare_state(): sampling fans out to num_gens sequences per prompt.
FanOut(s) ==
    LET n == s.job.width IN
    IF s.job.kind = "sample" /\ n > 1
    THEN Reorder(s, [i \in 1..(n * Len(s.rows)) |-> ((i - 1) \div n) + 1])
    ELSE s

-----------------------------------------------------------------------------
\* BannedSequenceProcessor: of the tokens so far as many as the longest banned sequence
\* has but its last are compared, padded on the left; a shorter one is masked there.
BannedNext(banned, toks) ==
    LET width == Max({Len(b) : b \in banned}) - 1
        last  == IF Len(toks) >= width THEN Latest(toks, width)
                 ELSE [i \in 1..(width - Len(toks)) |-> -1] \o toks
        Matches(b) == \A i \in 1..width :
            i <= width + 1 - Len(b) \/ last[i] = b[i - (width + 1 - Len(b))]
    IN  {b[Len(b)] : b \in {c \in banned : Matches(c)}}

\* Mutant: the latest n-gram is not looked at.
RepeatNextShort(n, toks) ==
    IF n >= Len(toks) + 1 THEN {}
    ELSE {toks[i + n - 1] : i \in {i \in 1..(Len(toks) - n) :
              SubSeq(toks, i, i + n - 2) = Latest(toks, n - 1)}}

\* NGramRepeatBlockProcessor: the tokens that would repeat an n-gram.
RepeatNext(n, toks) ==
    IF n >= Len(toks) + 1 THEN {}
    ELSE {toks[i + n - 1] : i \in {i \in 1..(Len(toks) + 1 - n) :
              SubSeq(toks, i, i + n - 2) = Latest(toks, n - 1)}}

Blocked(j, toks) ==
    (IF j.banned = {} THEN {} ELSE BannedNext(j.banned, toks))
        \cup (IF j.ngram = 0 THEN {} ELSE RepeatNext(j.ngram, toks))

\* The log probabilities of _step() for row i, given the state d after decoding.
\* Sampling forces the last token to be Eos without touching the probabilities.
LastStep(s) == s.stepNr = s.maxLen - 1

Probs(s, d, i) ==
    LET toks == SubSeq(s.rows[i].seq, 1, s.stepNr)
        seen == Sees(s, d, i, s.stepNr - 1, s.stepNr, s.stepNr)
        not  == IF LastStep(s)
                THEN IF s.job.kind = "beam" THEN Words \ {Eos} ELSE {}
                ELSE Blocked(s.job, toks) \cup {Pad}
                     \cup (IF s.stepNr < s.minLen - 1 THEN {Eos} ELSE {})
    IN  [v \in Words |-> IF v \in not THEN NegInf
                         ELSE LogProb(s.job.model, Source(d, i), seen, v)]

\* Whether the next token of row i is one of its prompt (_prompt_mask).
InPrompt(s, i) == s.stepNr < Len(s.job.prompts[s.rows[i].prompt])

\* seqs[:, step_nr] = token
Put(row, n, token, score) ==
    [row EXCEPT !.seq    = IF n < Len(@) THEN [@ EXCEPT ![n + 1] = token]
                           ELSE Append(@, token),
                !.scores = Append(@, score)]

\* _finish_sequence(): the hypothesis that ends with row; len: what its score is
\* divided by.
Hypothesis(s, row) ==
    [seq   |-> IF s.job.echo THEN row.seq
               ELSE SubSeq(row.seq, Len(s.job.prompts[row.prompt]) + 1, Len(row.seq)),
     score |-> IF s.job.kind = "beam" THEN row.scores[Len(row.scores)]
               ELSE FoldSeq(LAMBDA a, b : AddLog(a, b), 0, Tail(row.scores)),
     len   |-> s.stepNr]

\* The hypotheses of a prompt, ordered by score.
Better(h, k) == h.score * k.len > k.score * h.len

\* Mutant: the hypotheses stay in the order they were found in.
EndedCallUnsorted(s) == [s EXCEPT !.phase = "done"]

EndedCall(s) == [s EXCEPT !.phase = "done",
                          !.output = [p \in DOMAIN @ |-> SortSeq(@[p], Better)]]

Stepped(s) == IF s.stepNr + 1 = s.maxLen THEN EndedCall([s EXCEPT !.stepNr = @ + 1])
              ELSE [s EXCEPT !.stepNr = @ + 1]

-----------------------------------------------------------------------------
\* StandardBeamSearchAlgorithm.step(): the best 2 x beam_size of all continuations, at
\* most as many as there are tokens.  Equal ones are in the order of their places.
Candidates(s, probs, from, size) ==
    LET all  == {[row |-> i, token |-> v, score |-> AddLog(s.rows[i].scores[s.stepNr], probs[i][v])] :
                    i \in (from + 1)..(from + size), v \in Words}
        Before(a, b) == \/ a.score > b.score
                        \/ /\ a.score = b.score
                           /\ a.row < b.row \/ (a.row = b.row /\ a.token < b.token)
        n    == Lesser(2 * s.job.width, Cardinality(Words))
    IN  [k \in 1..n |->
            CHOOSE c \in all : Cardinality({b \in all : Before(b, c)}) = k - 1]

First(seq, n) == SubSeq(seq, 1, Lesser(n, Len(seq)))

\* _search_beam(): how the beam of rows from+1..from+size goes on, and what it ends.
\* next = <<>> when the prompt has its hypotheses.
SearchBeam(s, probs, from, size) ==
    LET row   == s.rows[from + 1]
        token == row.seq[s.stepNr + 1]
        cands == Candidates(s, probs, from, size)
        IsEos(c) == c.token = Eos
        Goes(c)  == c.token # Eos
        ended == SelectSeq(First(cands, s.job.width), IsEos)
        need  == s.job.width - Len(s.output[row.prompt])
        Hyp(c) == Hypothesis(s, Put(s.rows[c.row], s.stepNr, Eos, c.score))
    IN  IF InPrompt(s, from + 1)
        THEN [next |-> <<[row |-> from + 1, token |-> token,
                          score |-> AddLog(row.scores[s.stepNr], probs[from + 1][token])]>>,
              hyps |-> <<>>]
        ELSE [next |-> IF Len(ended) >= need THEN <<>>
                       ELSE IF ended = <<>> THEN First(cands, s.job.width)
                       ELSE First(SelectSeq(cands, Goes), s.job.width),
              hyps |-> [i \in 1..Lesser(need, Len(ended)) |-> Hyp(ended[i])]]

\* The rows before beam b.
Offset(s, b) == MapThenSumSet(LAMBDA c : s.beams[c], 1..(b - 1))

\* _step() of a beam search.
BeamStepped(s) ==
    LET d     == Decode(s, s.stepNr - 1, s.stepNr)
        probs == [i \in DOMAIN s.rows |-> Probs(s, d, i)]
        found == [b \in DOMAIN s.beams |-> SearchBeam(s, probs, Offset(s, b), s.beams[b])]
        prompt(b) == s.rows[Offset(s, b) + 1].prompt
        lives == SelectSeq([b \in DOMAIN s.beams |-> b], LAMBDA b : found[b].next # <<>>)
        next  == FlattenSeq([k \in DOMAIN lives |-> found[lives[k]].next])
        out   == [p \in DOMAIN s.output |->
                    s.output[p] \o FlattenSeq([b \in DOMAIN s.beams |->
                        IF prompt(b) = p THEN found[b].hyps ELSE <<>>])]
        r     == Reorder(d, [k \in DOMAIN next |-> next[k].row])
    IN  IF lives = <<>> THEN EndedCall([d EXCEPT !.output = out])
        ELSE Stepped([r EXCEPT
                 !.output = out,
                 !.beams  = [k \in DOMAIN lives |-> Len(found[lives[k]].next)],
                 !.rows   = [k \in DOMAIN next |->
                                Put(@[k], s.stepNr, next[k].token, next[k].score)]])

\* _step() of sampling, with the tokens the sampler has picked: some of nonzero
\* probability, the last one Eos, and in a prompt those of the prompt.
Pickable(s, d, i) ==
    IF InPrompt(s, i) THEN {s.rows[i].seq[s.stepNr + 1]}
    ELSE IF LastStep(s) THEN {Eos}
    ELSE {v \in Words : Probs(s, d, i)[v] # NegInf}

\* Nothing can be drawn from a row of no probabilities, not even of a prompt.
Drawable(s, d) ==
    LastStep(s) \/ \A i \in DOMAIN s.rows : \E v \in Words : Probs(s, d, i)[v] # NegInf

SampleStepped(s, d, pick) ==
    LET put   == [i \in DOMAIN s.rows |->
                    Put(s.rows[i], s.stepNr, pick[i], Probs(s, d, i)[pick[i]])]
        ended == SelectSeq([i \in DOMAIN put |-> i],
                           LAMBDA i : pick[i] = Eos /\ ~InPrompt(s, i))
        lives == SelectSeq([i \in DOMAIN put |-> i],
                           LAMBDA i : ~(pick[i] = Eos /\ ~InPrompt(s, i)))
        out   == [p \in DOMAIN s.output |->
                    s.output[p] \o FlattenSeq([k \in DOMAIN ended |->
                        IF put[ended[k]].prompt = p THEN <<Hypothesis(s, put[ended[k]])>>
                        ELSE <<>>])]
        r     == [d EXCEPT !.rows = put, !.output = out]
    IN  IF lives = <<>> THEN EndedCall(r)
        ELSE IF ended = <<>> THEN Stepped(r)
        ELSE Stepped(Reorder(r, lives))

-----------------------------------------------------------------------------
Prefill ==
    /\ g.phase = "prefill"
    /\ g' = IF g.bag < g.stepNr - 1 THEN Prefilled(g)
            ELSE [FanOut(g) EXCEPT !.phase = "step"]

\* The encoder is run on the sources alone, which are too few when sampling has fanned
\* out before the first call of the model: the attention fails.
DecodeFails ==
    /\ g.phase = "step"
    /\ ~SourceFits(Decode(g, g.stepNr - 1, g.stepNr))
    /\ g' = [g EXCEPT !.phase = "failed"]

BeamSearchStep ==
    /\ g.phase = "step" /\ g.job.kind = "beam"
    /\ SourceFits(Decode(g, g.stepNr - 1, g.stepNr))
    /\ g' = BeamStepped(g)

SamplingStep ==
    /\ g.phase = "step" /\ g.job.kind = "sample"
    /\ LET d     == Decode(g, g.stepNr - 1, g.stepNr)
           picks == [i \in DOMAIN g.rows |-> Pickable(g, d, i)]
       IN  /\ SourceFits(d) /\ Drawable(g, d)
           /\ \E pick \in [DOMAIN g.rows -> Words] :
                 /\ \A i \in DOMAIN g.rows : pick[i] \in picks[i]
                 /\ g' = SampleStepped(g, d, pick)

\* torch.multinomial raises an error.
SamplingFails ==
    /\ g.phase = "step" /\ g.job.kind = "sample"
    /\ LET d == Decode(g, g.stepNr - 1, g.stepNr) IN SourceFits(d) /\ ~Drawable(g, d)
    /\ g' = [g EXCEPT !.phase = "failed"]

GenNext == Prefill \/ DecodeFails \/ BeamSearchStep \/ SamplingStep \/ SamplingFails

GenSpec == GenInit /\ [][GenNext]_g

-----------------------------------------------------------------------------
\* Whether a windowed state got more than one token only in its first call.
ByToken(j) == j.window = 0 \/ j.chunk >= MinPromptLen(j) - 1

\* What the model has to see of a sequence.
Context(j, toks) ==
    IF j.window = 0 THEN toks ELSE Latest(toks, Lesser(Len(toks), j.window))

\* reorder(): however the batch was fanned out, thinned and reordered by beams and
\* finished sequences, its rows are those of the beams, and the incremental state of
\* each row is that of its own sequence and its own source, up to the step number of
\* the bag.
StateFollows ==
    g.phase = "step" =>
        /\ g.job.kind = "beam" =>
              Len(g.rows) = MapThenSumSet(LAMBDA b : g.beams[b], DOMAIN g.beams)
        /\ g.self.rows # <<>> => Len(g.self.rows) = Len(g.rows)
        /\ g.self.rows # <<>> => \A i \in DOMAIN g.rows :
              /\ ByToken(g.job) =>
                    Keys(g.self)[i] = Context(g.job, SubSeq(g.rows[i].seq, 1, g.bag))
              /\ g.job.seq2seq => g.enc[i] = g.job.sources[g.rows[i].prompt]

\* The same of the keys and values of the source, which StaticAttentionState keeps
\* ("Rearranges the state according to a new batch order", incremental_state.py).
SourceFollows ==
    g.phase = "step" /\ g.cross # <<>> =>
        \A i \in DOMAIN g.rows : g.cross[i] = g.job.sources[g.rows[i].prompt]

\* The log probability of a sequence, from the definition.
TrueScore(j, p, seq) ==
    LET src == IF j.seq2seq THEN <<j.sources[p], j.sources[p]>> ELSE <<>> IN
    MapThenSumSet(LAMBDA i : LogProb(j.model, src, Context(j, SubSeq(seq, 1, i - 1)), seq[i]),
                  2..Len(seq))

EndsWith(seq, n, b) == n >= Len(b) /\ SubSeq(seq, n - Len(b) + 1, n) = b

Repeats(seq, n, k) == \E m \in k..(n - 1) : EndsWith(seq, m, SubSeq(seq, n - k + 1, n))

\* Every hypothesis found.
Sound ==
    \A p \in DOMAIN g.output : \A k \in DOMAIN g.output[p] :
        LET h   == g.output[p][k]
            j   == g.job
            pre == j.prompts[p]
            seq == IF j.echo THEN h.seq ELSE pre \o h.seq
            n   == Len(seq)
        IN  h.score # NegInf =>
              /\ SubSeq(seq, 1, Len(pre)) = pre
              /\ seq[n] = Eos /\ \A i \in (Len(pre) + 1)..(n - 1) : seq[i] \notin {Eos, Pad}
              /\ g.minLen <= n /\ n <= g.maxLen /\ h.len = n - 1
              /\ \A i \in (Len(pre) + 1)..(n - 1) :
                    /\ \A b \in j.banned : ~EndsWith(seq, i, b)
                    /\ j.ngram # 0 => ~Repeats(seq, i, j.ngram)
              /\ ByToken(j) => h.score = TrueScore(j, p, seq)

\* Their number and order.
Complete ==
    g.phase = "done" =>
        \A p \in DOMAIN g.output :
            LET hyps == g.output[p] IN
            /\ \A k \in 1..(Len(hyps) - 1) : ~Better(hyps[k + 1], hyps[k])
            /\ g.maxLen > MaxPromptLen(g.job) + 1 \/ g.job.kind = "sample" =>
                  Len(hyps) = g.job.width
            /\ g.job.kind = "beam" =>
                  \A k, l \in DOMAIN hyps : k # l => hyps[k].seq # hyps[l].seq

\* The call that generates for prompt p only, within the same limits.
Alone(j, p) ==
    [BeginCall([j EXCEPT !.prompts = <<j.prompts[p]>>, !.sources = <<j.sources[p]>>])
        EXCEPT !.minLen = MinSeqLen(j), !.maxLen = MaxSeqLen(j)]

Advance(s) == IF s.phase = "prefill"
              THEN IF s.bag < s.stepNr - 1 THEN Prefilled(s) ELSE [FanOut(s) EXCEPT !.phase = "step"]
              ELSE IF s.phase = "step" THEN BeamStepped(s) ELSE s

AloneOutput(j, p) ==
    LET run[n \in Nat] == IF n = 0 THEN Alone(j, p) ELSE Advance(run[n - 1])
    IN  run[2 * MaxSeqLen(j) + 1].output[1]

\* Whether no prompt has a blocked token that is read one by one: the scores of those
\* are taken after the step processors, and are minus infinity ever after.
PromptsAllowed(j) ==
    \A p \in DOMAIN j.prompts : \A i \in (MinPromptLen(j) + 1)..Len(j.prompts[p]) :
        j.prompts[p][i] \notin Blocked(j, SubSeq(j.prompts[p], 1, i - 1))

\* A beam search does not mix up the prompts of its batch: the beams are split, offset,
\* merged and dropped so that each prompt gets the hypotheses it gets alone.
Independent ==
    g.phase = "done" /\ g.job.kind = "beam" /\ ByToken(g.job) /\ PromptsAllowed(g.job) =>
        \A p \in DOMAIN g.output : g.output[p] = AloneOutput(g.job, p)

\* Every hypothesis is one of its own prompt, ends at its first generated Eos, is of a
\* length between the limits, holds nothing the step processors prevent, and has as
\* score the log probability that the model gives to its tokens one by one, whichever
\* rows of the batch and slots of the state it went through.  A call returns beam_size
\* different ones, or num_gens, for every prompt, best first; a beam search that may
\* generate a single token finds only one, and each prompt gets those it gets alone.
HypothesesRight == Sound /\ Complete /\ Independent
=============================================================================
