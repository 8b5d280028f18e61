------------------------------- MODULE MCSteps -------------------------------
(***************************************************************************)
(* Instances of Steps: two ranks, shards of one to three batches of        *)
(* unequal length, a batch whose gradient overflows at a high loss scale,  *)
(* one that always overflows, one without targets.                         *)
(***************************************************************************)
EXTENDS Steps

TwoRanks == {0, 1}

Good  == [targets |-> 1, limit |-> 9]
Hot   == [targets |-> 1, limit |-> 0]
Bad   == [targets |-> 1, limit |-> -1]
Empty == [targets |-> 0, limit |-> 9]

Shards(n, m) == [r \in TwoRanks |-> IF r = 0 THEN n ELSE m]

SomeShards ==
    {Shards(<<Good>>, <<>>), Shards(<<Good, Good, Good>>, <<Good, Good>>),
     Shards(<<Good, Good, Good>>, <<Good, Hot, Good, Good>>), Shards(<<Bad, Bad>>, <<Good, Good, Good>>),
     Shards(<<Hot, Empty, Good>>, <<Good, Empty, Good>>)}

Task(kind, m, n, dr, f, sh, ns, s) ==
    [task |-> kind, mode |-> m, acc |-> n, drop |-> dr, fp16 |-> f, sharded |-> sh,
     noSync |-> ns, owner |-> 1, shards |-> s]

Trainings ==
    {Task("train", "UNTIL_FIRST", n, dr, f, sh, ns, s) :
        n \in 1..2, dr \in BOOLEAN, f \in BOOLEAN, sh \in BOOLEAN, ns \in BOOLEAN,
        s \in SomeShards}

Evaluations ==
    {Task("eval", m, n, dr, FALSE, FALSE, FALSE, s) :
        m \in {"UNTIL_FIRST", "UNTIL_LAST"}, n \in 1..2, dr \in BOOLEAN, s \in SomeShards}

SomeSetups == Trainings \cup Evaluations
=============================================================================
