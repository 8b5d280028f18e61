---------------------------- MODULE AttentionState ----------------------------
(***************************************************************************)
(* What a multihead attention keeps of a batch during incremental          *)
(* decoding: FullAttentionState, LocalAttentionState and the static one of *)
(* an encoder-decoder attention.  A state is a record: per batch row its   *)
(* slots, the number of tokens it was given (len), the slots per row       *)
(* (cap), the window (0 for the full state) and the increment of the       *)
(* capacity (0 for None).  The projected key and value of a token is the   *)
(* token itself; Unset is what torch.empty leaves in a slot.               *)
(***************************************************************************)
EXTENDS Integers, Sequences

Unset == -1

Unsets(n) == [i \in 1..n |-> Unset]

Lesser(a, b) == IF a <= b THEN a ELSE b

\* The last n elements.
Latest(s, n) == SubSeq(s, Len(s) - n + 1, Len(s))

\* row[pos : pos + len(toks)] = toks
Write(row, pos, toks) ==
    [i \in 1..Len(row) |->
        IF pos < i /\ i <= pos + Len(toks) THEN toks[i - pos] ELSE row[i]]

\* torch.roll by -n.
Roll(row, n) == [i \in 1..Len(row) |-> row[((i - 1 + n) % Len(row)) + 1]]

\* _expand_kv(): room for n more tokens, in multiples of the increment.
Expand(s, n) ==
    LET needed  == s.len + n
        rounded == ((needed + s.inc - 1) \div s.inc) * s.inc
        cap     == IF s.window = 0 THEN rounded ELSE Lesser(rounded, s.window)
    IN  IF s.inc = 0 \/ needed <= s.cap \/ (s.window # 0 /\ s.cap = s.window) THEN s
        ELSE [s EXCEPT !.cap  = cap,
                       !.rows = [i \in DOMAIN @ |->
                                    SubSeq(@[i], 1, s.len) \o Unsets(cap - s.len)]]

\* The constructor, with the tokens of each row.
NewState(chunks, maxLen, window, inc) ==
    LET w    == IF window = 0 THEN 0 ELSE Lesser(maxLen, window)
        cap  == CASE inc # 0 -> 0
                  [] inc = 0 -> IF w = 0 THEN maxLen ELSE w
        n    == Len(chunks[1])
        s    == Expand([rows |-> [i \in DOMAIN chunks |-> Unsets(cap)], len |-> 0,
                        cap |-> cap, window |-> w, inc |-> inc], n)
        kept == IF w = 0 THEN n ELSE Lesser(n, w)
    IN  [s EXCEPT !.len  = n,
                  !.rows = [i \in DOMAIN @ |-> Write(@[i], 0, Latest(chunks[i], kept))]]

\* Mutant of AppendTo: the window is not rolled.
AppendToUnrolled(s, chunks) ==
    LET n     == Len(chunks[1])
        over  == s.window # 0 /\ s.len + n > s.window
        kept  == IF over THEN Lesser(n, s.window) ELSE n
        pos   == IF over THEN s.window - kept ELSE s.len
    IN  [Expand(s, n) EXCEPT !.len  = @ + n,
                             !.rows = [i \in DOMAIN @ |-> Write(@[i], pos, Latest(chunks[i], kept))]]

\* append() of FullAttentionState and of LocalAttentionState, which makes room in a
\* window that overflows by rolling it.
AppendTo(s, chunks) ==
    LET n     == Len(chunks[1])
        over  == s.window # 0 /\ s.len + n > s.window
        kept  == IF over THEN Lesser(n, s.window) ELSE n
        pos   == IF over THEN s.window - kept ELSE s.len
        e     == Expand(s, n)
        Room(row) == IF over /\ kept < s.window THEN Roll(row, kept) ELSE row
    IN  [e EXCEPT !.len  = @ + n,
                  !.rows = [i \in DOMAIN @ |->
                               Write(Room(@[i]), pos, Latest(chunks[i], kept))]]

\* get()
Keys(s) == [i \in DOMAIN s.rows |-> SubSeq(s.rows[i], 1, Lesser(s.len, s.cap))]

\* index_select(0, new_order)
Select(rows, order) == [i \in DOMAIN order |-> rows[order[i]]]

Reordered(s, order) == [s EXCEPT !.rows = Select(@, order)]

\* reorder() of StaticAttentionState, which assumes that a batch whose size stays the
\* same keeps its order, too.
StaticReordered(rows, order) ==
    IF Len(order) # Len(rows) THEN Select(rows, order) ELSE rows
=============================================================================
