----------------------------- MODULE MCAttention -----------------------------
(***************************************************************************)
(* Instances of Attention: batches of one to three short sequences in two  *)
(* layers.                                                                 *)
(***************************************************************************)
EXTENDS Attention

Forward(batch, source, biases, sdpa) ==
    [batch |-> batch, source |-> source, biases |-> biases, sdpa |-> sdpa,
     learned |-> FALSE, prefix |-> 0]

Causal == BiasOf("causal", 0)
Window(n) == BiasOf("causal", n)
Sdpas == {"torch", "naive", "flash", "relative", "shaw"}

Rectangles == {LaidOut(FALSE, l, 3) : l \in {<<3>>, <<3, 3>>, <<1, 3>>, <<2, 2>>, <<1, 1>>, <<3, 1, 2>>}}
              \cup {LaidOut(FALSE, <<1, 1>>, 1)}
Packs2     == {LaidOut(TRUE, l, 5) : l \in {<<5>>, <<3, 2>>, <<1, 4>>, <<2, 1>>, <<1, 1, 2>>}}

\* Biases of two layers: the same ones, which share a tensor, and different ones.
Stacks == {<<a, b>> : a \in {Identity, Causal, Window(2)}, b \in {Identity, Causal, Window(1)}}

SelfOnly == {Forward(l, NoSource, b, d) : l \in Rectangles \cup Packs2, b \in Stacks, d \in Sdpas}
Learned  == {[c EXCEPT !.learned = TRUE] : c \in {c \in SelfOnly : c.sdpa = "torch"}}
Alibi    == {Forward(LaidOut(FALSE, l, 3), NoSource, <<BiasOf("alibi", 0), BiasOf("alibi", 0)>>, "torch") :
                l \in {<<3>>, <<3, 3>>, <<1, 3>>}}

Decoding == {[Forward(LaidOut(FALSE, <<n, n>>, n), NoSource, <<b, b>>, d) EXCEPT !.prefix = k] :
                n \in 1..2, b \in {Causal, BiasOf("alibi", 0)}, d \in {"torch", "naive", "shaw"}, k \in 1..2}

\* Targets and sources of a translation.
Pairs == {<<LaidOut(FALSE, t, 2), LaidOut(FALSE, s, 3)>> :
             t \in {<<2, 2>>, <<1, 2>>, <<2, 1>>, <<1, 1>>}, s \in {<<3, 3>>, <<2, 3>>, <<1, 2>>}}
         \cup {<<LaidOut(TRUE, <<2, 1>>, t), LaidOut(TRUE, <<1, 3>>, s)>> : t \in 3..4, s \in 4..5}

Translating2 == {Forward(p[1], p[2], <<Causal, Causal>>, d) : p \in Pairs, d \in {"torch", "naive", "flash"}}

SomeForwards == SelfOnly \cup Learned \cup Alibi \cup Decoding \cup Translating2

Chunked == {Forward(LaidOut(FALSE, <<n>>, n), NoSource, <<BiasOf("chunked", 2), Causal>>, "torch") : n \in 2..5}
=============================================================================
