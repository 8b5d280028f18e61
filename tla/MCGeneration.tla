----------------------------- MODULE MCGeneration -----------------------------
(***************************************************************************)
(* Instances of Generation: five tokens, batches of one to three prompts.  *)
(***************************************************************************)
EXTENDS Generation

Tokens == 0..4
SomeModels == 1..4

\* Some scores that depend on all of the arguments.
Mix(s) == FoldLeft(LAMBDA a, b : (a * 5 + b + 2) % 31, 7, s)

SomeLogProb(m, src, seen, v) ==
    -1 - ((m * Mix(src) + (v + m) * Mix(seen) + v * v) % 11)

Call(kind, m, prompts, n) ==
    [kind |-> kind, model |-> m, prompts |-> prompts, sources |-> [p \in DOMAIN prompts |-> p],
     width |-> n, minGen |-> 1, maxGen |-> 3, maxLen |-> 8, chunk |-> 2, window |-> 0,
     inc |-> 2, banned |-> {}, ngram |-> 0, seq2seq |-> FALSE, echo |-> FALSE]

\* Prompts of one token, of the same length, of different lengths.
OneToken  == <<<<0>>, <<2>>>>
Same      == <<<<0, 2, 3, 2>>, <<2, 2, 3, 4>>>>
Different == <<<<2, 3>>, <<0, 4, 2, 3>>>>
Three     == <<<<2, 3>>, <<0, 4>>, <<3, 4>>>>

Plain == {Call("beam", m, p, n) : m \in SomeModels, p \in {OneToken, Same, Different, Three}, n \in 1..2}

Limited == {[j EXCEPT !.minGen = 2, !.maxGen = 4, !.echo = TRUE] : j \in Plain}
Short   == {[j EXCEPT !.maxGen = 1, !.inc = 0] : j \in Plain}
Blocking == {[j EXCEPT !.banned = {<<3>>, <<2, 4>>}] : j \in Plain}
            \cup {[j EXCEPT !.ngram = n] : j \in Plain, n \in 1..2}
Windowed == {[j EXCEPT !.window = w, !.chunk = c, !.inc = i] :
                j \in Plain, w \in 1..3, c \in {1, 3}, i \in {0, 2}}
Translating == {[j EXCEPT !.seq2seq = TRUE] : j \in Plain}

Sampled ==
    {[Call("sample", 1, OneToken, n) EXCEPT !.maxGen = 2, !.seq2seq = b] : n \in 1..2, b \in BOOLEAN}
    \cup {[Call("sample", 2, Different, 2) EXCEPT !.maxGen = 1, !.seq2seq = b, !.chunk = 1,
                                                  !.window = w, !.ngram = 1] :
             b \in BOOLEAN, w \in {0, 2}}

SomeJobs == Plain \cup Limited \cup Short \cup Blocking \cup Windowed \cup Translating \cup Sampled

\* A short prompt, which may be done when two longer ones begin to be generated.
Uneven == {<<<<a, b>>, <<0, 4, 2, 3>>, <<3, 4, 4, 2>>>> : a, b \in 2..4}

MoreModels == 1..11

UnevenJobs == {[Call("beam", m, p, 2) EXCEPT !.seq2seq = TRUE] : m \in MoreModels, p \in Uneven}
=============================================================================
