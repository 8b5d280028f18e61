----------------------------- MODULE StepsProofs ------------------------------
(***************************************************************************)
(* Proofs about Steps, for any number of ranks, any shards, schedules and  *)
(* kills: the replicas stay one model, no batch is trained on twice, the   *)
(* metrics count the steps that were made, and a pass runs the batches it  *)
(* should.                                                                 *)
(***************************************************************************)
EXTENDS Steps, FiniteSetTheorems, NaturalsInduction, WellFoundedInduction, TLAPS

StepsSpec == StepsInit /\ [][StepsNext]_stepVars

\* A batch in a gradient: its rank, the pass over the data, its index in the shard.
Entry == Ranks \X Nat \X Nat
Tally == [now : Int, total : Int]

\* A rank within a step, up to the update; and with its gradient still in use.
Within == {"batch", "reduce", "normalize", "unscale", "norms"}
Active == Within \cup {"update"}
Where  == {"load", "count", "step", "post", "metrics", "barrier", "done", "failed"} \cup Active

Fields == {"stepNr", "read", "passes", "scale", "streak", "lr", "model", "batches", "targets",
           "grads", "inf", "bag", "original", "ran", "since"}

\* What a checkpoint keeps of a rank, and what it leaves out.
IsKept(r, s) ==
    /\ s.stepNr \in Int /\ s.read \in 0..Len(Shard(r)) /\ s.passes \in Nat
    /\ s.scale \in Nat /\ s.streak \in Nat /\ s.lr \in Nat /\ s.model \in Seq(SUBSET Entry)
    /\ s.ran \in Seq(Nat)

IsState(r, s) ==
    /\ DOMAIN s = Fields /\ IsKept(r, s)
    /\ s.batches \in Seq(1..Len(Shard(r))) /\ s.targets \in Nat /\ s.grads \in SUBSET Entry
    /\ s.inf \in BOOLEAN /\ s.bag \in Tally /\ s.original \in Tally /\ s.since \in Int

StepsTypeOK ==
    /\ setup \in Setups /\ jobKills \in Nat
    /\ DOMAIN pc = Ranks /\ DOMAIN st = Ranks /\ DOMAIN snaps = Ranks /\ DOMAIN whole = Ranks
    /\ \A r \in Ranks :
         /\ pc[r] \in Where /\ IsState(r, st[r])
         /\ IsKept(r, snaps[r]) /\ snaps[r].total \in Int
         /\ IsKept(r, whole[r]) /\ whole[r].total \in Int

\* A rank that begins a step of the training, or its next batch, has one in hand.
\* An evaluation has a few places only.
HandOK ==
    IF Training THEN \A r \in Ranks : pc[r] \in {"step", "batch"} => st[r].batches # <<>>
    ELSE \A r \in Ranks : pc[r] \in {"load", "count", "step", "metrics", "barrier", "done"}

-----------------------------------------------------------------------------
(***************************************************************************)
(* Sets of numbers and sequences.                                          *)
(***************************************************************************)
\* A set of natural numbers that is not empty has a smallest element.
LEMMA SmallestIs ==
    ASSUME NEW T \in SUBSET Nat, T # {}
    PROVE  Smallest(T) \in T /\ \A n \in T : Smallest(T) <= n
  <1> DEFINE R == OpToRel(<, Nat)
  <1>1. IsWellFoundedOn(R, Nat)
    BY NatLessThanWellFounded
  <1>2. PICK n \in T : \A m \in T : ~(<<m, n>> \in R)
    BY <1>1, WFMin
  <1>3. \A m \in T : ~(m < n)
    BY <1>2 DEF OpToRel
  <1>4. \A m \in T : n <= m
    BY <1>3
  <1> QED
    BY <1>4 DEF Smallest

\* The beginning, the rest and the extension of a sequence.
LEMMA CutIs ==
    ASSUME NEW T, NEW s \in Seq(T), NEW m \in 0..Len(s)
    PROVE  /\ SubSeq(s, 1, m) \in Seq(T) /\ Len(SubSeq(s, 1, m)) = m
           /\ \A i \in 1..m : SubSeq(s, 1, m)[i] = s[i]
  OBVIOUS

LEMMA TailIs ==
    ASSUME NEW T, NEW s \in Seq(T), s # <<>>
    PROVE  /\ Head(s) \in T /\ Head(s) = s[1] /\ Tail(s) \in Seq(T)
           /\ Len(s) \in Nat /\ Len(s) >= 1 /\ Len(Tail(s)) = Len(s) - 1
           /\ \A i \in 1..(Len(s) - 1) : Tail(s)[i] = s[i + 1]
  OBVIOUS

LEMMA AppendIs ==
    ASSUME NEW T, NEW s \in Seq(T), NEW x \in T
    PROVE  /\ Append(s, x) \in Seq(T) /\ Len(Append(s, x)) = Len(s) + 1
           /\ DOMAIN s = 1..Len(s) /\ DOMAIN Append(s, x) = 1..(Len(s) + 1)
           /\ \A i \in 1..Len(s) : Append(s, x)[i] = s[i]
           /\ Append(s, x)[Len(s) + 1] = x
  OBVIOUS

-----------------------------------------------------------------------------
(***************************************************************************)
(* What the actions do, field by field.                                    *)
(***************************************************************************)
\* The fields that a batch, a reduction or a read of the data leave alone.
SameStep(s, t) ==
    /\ t.stepNr = s.stepNr /\ t.scale = s.scale /\ t.streak = s.streak /\ t.lr = s.lr
    /\ t.model = s.model /\ t.since = s.since
SameModel(s, t) == SameStep(s, t) /\ t.passes = s.passes
SameData(s, t) == t.read = s.read /\ t.batches = s.batches /\ t.ran = s.ran
SameGrads(s, t) == t.targets = s.targets /\ t.grads = s.grads /\ t.inf = s.inf
SameBags(s, t) == t.bag = s.bag /\ t.original = s.original

Others(r) == \A q \in Ranks \ {r} : pc'[q] = pc[q] /\ st'[q] = st[q]
Domains == DOMAIN pc' = Ranks /\ DOMAIN st' = Ranks
Disk == snaps' = snaps /\ whole' = whole
Job == setup' = setup /\ jobKills' = jobKills

\* Go moves one rank.
LEMMA GoIs ==
    ASSUME StepsTypeOK, NEW r \in Ranks, NEW where, NEW s, Go(r, where, s)
    PROVE  Domains /\ Others(r) /\ pc'[r] = where /\ st'[r] = s
  BY DEF Go, StepsTypeOK, Domains, Others

\* What the assumption says of the task that was chosen.
LEMMA SetupIs ==
    ASSUME StepsTypeOK
    PROVE  /\ Ranks # {}
           /\ setup.task \in {"train", "eval"} /\ setup.mode \in {"UNTIL_FIRST", "UNTIL_LAST"}
           /\ Training => setup.mode = "UNTIL_FIRST"
           /\ setup.acc \in Nat /\ setup.acc # 0
           /\ setup.drop \in BOOLEAN /\ setup.fp16 \in BOOLEAN /\ setup.sharded \in BOOLEAN
           /\ setup.noSync \in BOOLEAN
           /\ \A r \in Ranks : Shard(r) \in Seq(Batch) /\ Len(Shard(r)) \in Nat
           /\ ScaleWindow \in Nat /\ ScaleWindow # 0 /\ PublishEvery \in Nat \ {0}
           /\ SaveEvery \in Nat \ {0} /\ TopScale \in Nat /\ MaxPasses \in Nat
  BY StepAssumption DEF StepsTypeOK, Training, Shard

LoadEffect(r) ==
    /\ Domains /\ Others(r) /\ Disk /\ Job
    /\ pc[r] = "load" /\ pc'[r] = "count" /\ DOMAIN st'[r] = Fields
    /\ SameModel(st[r], st'[r]) /\ SameGrads(st[r], st'[r]) /\ SameBags(st[r], st'[r])
    /\ st'[r].ran = st[r].ran
    /\ \E n \in Nat :
         /\ n <= setup.acc /\ st[r].read + n <= Len(Shard(r))
         /\ n = setup.acc \/ st[r].read + n = Len(Shard(r))
         /\ st'[r].read = st[r].read + n
         /\ st'[r].batches \in Seq(1..Len(Shard(r)))
         /\ Len(st'[r].batches) = IF setup.drop /\ n # setup.acc THEN 0 ELSE n
         /\ \A i \in 1..Len(st'[r].batches) : st'[r].batches[i] = st[r].read + i

\* n batches from position k on.
LEMMA RunOf ==
    ASSUME NEW n \in Nat, NEW k \in Nat, NEW l \in Nat, k + n <= l, NEW b,
           b = [i \in 1..n |-> k + i] 
    PROVE  b \in Seq(1..l) /\ Len(b) = n /\ \A i \in 1..n : b[i] = k + i
  <1>1. \A i \in 1..n : k + i \in 1..l
    OBVIOUS
  <1> QED
    BY <1>1

LEMMA LoadDoes ==
    ASSUME StepsTypeOK, NEW r \in Ranks, Load(r)
    PROVE  LoadEffect(r)
  <1> USE DEF LoadEffect
  <1> DEFINE n == Smallest({setup.acc, Len(Shard(r)) - st[r].read})
             s == [st[r] EXCEPT !.read = @ + n,
                        !.batches = IF setup.drop /\ n # setup.acc THEN <<>>
                                    ELSE [i \in 1..n |-> st[r].read + i]]
  <1>1. pc[r] = "load" /\ Go(r, "count", s) /\ Disk /\ Job
    BY DEF Load, Disk, Job
  <1>2. /\ n \in Nat /\ n <= setup.acc /\ st[r].read + n <= Len(Shard(r)) /\ st[r].read \in Nat
        /\ n = setup.acc \/ st[r].read + n = Len(Shard(r))
    <2>1. st[r].read \in 0..Len(Shard(r)) /\ Len(Shard(r)) \in Nat /\ setup.acc \in Nat
      BY SetupIs DEF StepsTypeOK, IsState, IsKept
    <2> DEFINE T == {setup.acc, Len(Shard(r)) - st[r].read}
    <2>2. T \in SUBSET Nat /\ T # {}
      BY <2>1
    <2>3. Smallest(T) \in T /\ \A m \in T : Smallest(T) <= m
      BY <2>2, SmallestIs
    <2>4. n = Smallest(T)
      OBVIOUS
    <2> HIDE DEF n
    <2>5. n \in T /\ n <= setup.acc /\ n <= Len(Shard(r)) - st[r].read
      BY <2>3, <2>4
    <2> QED
      BY <2>1, <2>2, <2>5
  <1>3. Domains /\ Others(r) /\ pc'[r] = "count" /\ st'[r] = s
    <2> HIDE DEF s
    <2> QED
      BY <1>1, GoIs
  <1>4. DOMAIN st[r] = Fields
    BY DEF StepsTypeOK, IsState
  <1> HIDE DEF n
  <1>5. /\ DOMAIN s = Fields /\ SameModel(st[r], s) /\ SameGrads(st[r], s) /\ SameBags(st[r], s)
        /\ s.ran = st[r].ran /\ s.read = st[r].read + n
    BY <1>4 DEF Fields, SameModel, SameStep, SameGrads, SameBags
  <1>6. /\ s.batches \in Seq(1..Len(Shard(r)))
        /\ Len(s.batches) = IF setup.drop /\ n # setup.acc THEN 0 ELSE n
        /\ \A i \in 1..Len(s.batches) : s.batches[i] = st[r].read + i
    <2>1. CASE setup.drop /\ n # setup.acc
      <3>1. s.batches = <<>>
        BY <1>4, <2>1 DEF Fields
      <3> HIDE DEF s
      <3> QED
        BY <2>1, <3>1
    <2>2. CASE ~(setup.drop /\ n # setup.acc)
      <3>1. s.batches = [i \in 1..n |-> st[r].read + i]
        BY <1>4, <2>2 DEF Fields
      <3> DEFINE k == st[r].read
                 b == s.batches
      <3>2. k \in Nat /\ k + n <= Len(Shard(r)) /\ b = [i \in 1..n |-> k + i]
        BY <1>2, <3>1
      <3>3. n \in Nat /\ Len(Shard(r)) \in Nat
        BY <1>2, SetupIs
      <3> HIDE DEF k, b, s
      <3>4. b \in Seq(1..Len(Shard(r))) /\ Len(b) = n /\ \A i \in 1..n : b[i] = k + i
        BY <3>2, <3>3, RunOf
      <3> QED
        BY <2>2, <3>4 DEF k, b
    <2> QED
      BY <2>1, <2>2
  <1> HIDE DEF s
  <1> QED
    BY <1>1, <1>2, <1>3, <1>5, <1>6

\* The end of the data, or m batches for every rank.
CountTo(eod, m) ==
    /\ Domains /\ Disk /\ Job
    /\ \A q \in Ranks : pc[q] = "count" /\ m <= Len(st[q].batches)
    /\ \E q \in Ranks : m = Len(st[q].batches)
    /\ setup.mode = "UNTIL_FIRST" => (eod <=> m = 0)
    /\ setup.mode = "UNTIL_LAST" => (eod <=> \A q \in Ranks : Len(st[q].batches) = 0)
    /\ \A q \in Ranks :
         /\ DOMAIN st'[q] = Fields /\ SameGrads(st[q], st'[q]) /\ SameBags(st[q], st'[q])
         /\ eod => /\ pc'[q] = IF Training THEN AfterPass(st[q]) ELSE "metrics"
                   /\ SameStep(st[q], st'[q])
                   /\ st'[q].read = 0 /\ st'[q].batches = <<>> /\ st'[q].ran = <<>>
                   /\ st'[q].passes = st[q].passes + 1
         /\ ~eod => /\ pc'[q] = "step" /\ SameModel(st[q], st'[q])
                    /\ st'[q].read = st[q].read /\ st'[q].ran = st[q].ran
                    /\ setup.mode = "UNTIL_LAST" => st'[q].batches = st[q].batches
                    /\ setup.mode = "UNTIL_FIRST" =>
                         st'[q].batches = SubSeq(st[q].batches, 1, m)

CountEffect == \E eod \in BOOLEAN, m \in Nat : CountTo(eod, m)

LEMMA CountDoes ==
    ASSUME StepsTypeOK, Ranks # {}, Count
    PROVE  CountEffect
  <1> USE DEF CountEffect, CountTo
  <1> DEFINE counts == {Len(st[q].batches) : q \in Ranks}
             eod    == IF setup.mode = "UNTIL_LAST" THEN counts = {0} ELSE 0 \in counts
             m == Smallest(counts)
  <1>1. \A q \in Ranks : DOMAIN st[q] = Fields /\ Len(st[q].batches) \in Nat
    BY DEF StepsTypeOK, IsState
  <1>2. counts \in SUBSET Nat /\ counts # {}
    BY <1>1
  <1>3. m \in counts /\ \A n \in counts : m <= n
    BY <1>2, SmallestIs
  <1>4. m \in Nat /\ \A q \in Ranks : m <= Len(st[q].batches)
    BY <1>1, <1>2, <1>3
  <1>5. /\ setup.mode = "UNTIL_FIRST" => (eod <=> m = 0)
        /\ setup.mode = "UNTIL_LAST" => (eod <=> \A q \in Ranks : Len(st[q].batches) = 0)
    <2>1. 0 \in counts <=> m = 0
      <3> HIDE DEF m
      <3> QED
        BY <1>2, <1>3
    <2>2. counts = {0} <=> \A q \in Ranks : Len(st[q].batches) = 0
      <3>1. \A n \in counts : \E q \in Ranks : n = Len(st[q].batches)
        OBVIOUS
      <3>2. \A q \in Ranks : Len(st[q].batches) \in counts
        OBVIOUS
      <3> HIDE DEF counts, m
      <3> QED
        BY <1>2, <3>1, <3>2
    <2> HIDE DEF m, counts
    <2> QED
      BY <2>1, <2>2
  <1>6. Domains /\ Disk /\ Job /\ \A q \in Ranks : pc[q] = "count"
    BY DEF Count, GoAll, Domains, Disk, Job, Meet
  <1>7. \A q \in Ranks : pc'[q] = IF ~eod THEN "step"
                                  ELSE IF Training THEN AfterPass(st[q]) ELSE "metrics"
    BY SetupIs DEF Count, GoAll, Training
  <1>8. \A q \in Ranks : st'[q] = IF eod THEN [st[q] EXCEPT !.read = 0, !.batches = <<>>,
                                                      !.ran = <<>>, !.passes = @ + 1]
           ELSE [st[q] EXCEPT !.batches = IF setup.mode = "UNTIL_LAST" THEN st[q].batches
                      ELSE SubSeq(st[q].batches, 1, m)]
    BY DEF Count, GoAll
  <1> HIDE DEF m, eod
  <1>10. ASSUME NEW q \in Ranks
         PROVE  /\ DOMAIN st'[q] = Fields /\ SameGrads(st[q], st'[q]) /\ SameBags(st[q], st'[q])
                /\ eod => /\ SameStep(st[q], st'[q])
                          /\ st'[q].read = 0 /\ st'[q].batches = <<>> /\ st'[q].ran = <<>>
                          /\ st'[q].passes = st[q].passes + 1
                /\ ~eod => /\ SameModel(st[q], st'[q])
                           /\ st'[q].read = st[q].read /\ st'[q].ran = st[q].ran
                           /\ setup.mode = "UNTIL_LAST" => st'[q].batches = st[q].batches
                           /\ setup.mode = "UNTIL_FIRST" =>
                                st'[q].batches = SubSeq(st[q].batches, 1, m)
    <2> DEFINE s == st[q]
               t == st'[q]
    <2>1. DOMAIN s = Fields
      BY <1>1
    <2>2. CASE eod
      <3> DEFINE n == s.passes + 1
      <3>1. t = [s EXCEPT !.read = 0, !.batches = <<>>, !.ran = <<>>, !.passes = n]
        BY <1>8, <2>2
      <3> HIDE DEF s, t, n
      <3>2. DOMAIN t = Fields /\ SameGrads(s, t) /\ SameBags(s, t) /\ SameStep(s, t)
        BY ONLY <2>1, <3>1 DEF Fields, SameStep, SameGrads, SameBags
      <3>3. t.read = 0 /\ t.batches = <<>> /\ t.ran = <<>> /\ t.passes = n
        BY ONLY <2>1, <3>1 DEF Fields
      <3> QED
        BY <2>2, <3>2, <3>3 DEF s, t, n
    <2>3. CASE ~eod
      <3> DEFINE b == IF setup.mode = "UNTIL_LAST" THEN s.batches ELSE SubSeq(s.batches, 1, m)
      <3>1. t = [s EXCEPT !.batches = b]
        BY <1>8, <2>3
      <3>2. /\ setup.mode = "UNTIL_LAST" => b = s.batches
            /\ setup.mode = "UNTIL_FIRST" => b = SubSeq(s.batches, 1, m)
        OBVIOUS
      <3> HIDE DEF s, t, b
      <3>3. DOMAIN t = Fields /\ SameGrads(s, t) /\ SameBags(s, t) /\ SameModel(s, t)
        BY ONLY <2>1, <3>1 DEF Fields, SameModel, SameStep, SameGrads, SameBags
      <3>4. t.read = s.read /\ t.ran = s.ran /\ t.batches = b
        BY ONLY <2>1, <3>1 DEF Fields
      <3> QED
        BY <2>3, <3>2, <3>3, <3>4 DEF s, t
    <2> QED
      BY <2>2, <2>3
  <1>11. CASE eod
    BY <1>3, <1>4, <1>5, <1>6, <1>7, <1>10, <1>11
  <1>12. CASE ~eod
    BY <1>3, <1>4, <1>5, <1>6, <1>7, <1>10, <1>12
  <1> QED
    BY <1>11, <1>12

BeginStepEffect(r) ==
    /\ Domains /\ Others(r) /\ Disk /\ Job
    /\ pc[r] = "step" /\ DOMAIN st'[r] = Fields
    /\ st'[r].stepNr = st[r].stepNr + 1 /\ st'[r].passes = st[r].passes
    /\ st'[r].scale = st[r].scale /\ st'[r].streak = st[r].streak
    /\ st'[r].lr = st[r].lr /\ st'[r].model = st[r].model /\ st'[r].since = st[r].since
    /\ st'[r].read = st[r].read
    /\ Training => /\ pc'[r] = "batch" /\ st'[r].bag = st[r].bag
                   /\ st'[r].original \in {st[r].original, st[r].bag}
                   /\ setup.fp16 => st'[r].original = st[r].bag
                   /\ st'[r].targets = 0 /\ st'[r].grads = {} /\ st'[r].inf = FALSE
                   /\ st'[r].batches = st[r].batches /\ st'[r].ran = st[r].ran
    /\ ~Training => /\ pc'[r] = "load" /\ SameGrads(st[r], st'[r])
                    /\ st'[r].batches = <<>> /\ st'[r].ran = st[r].ran \o st[r].batches
                    /\ st'[r].original = st[r].original
                    /\ st'[r].bag = Counted(st[r].bag, Len(st[r].batches))

LEMMA BeginStepDoes ==
    ASSUME StepsTypeOK, NEW r \in Ranks, BeginStep(r)
    PROVE  BeginStepEffect(r)
  <1> USE DEF BeginStepEffect
  <1> DEFINE s == [st[r] EXCEPT !.stepNr = @ + 1]
             a == [s EXCEPT !.original = IF setup.fp16 THEN s.bag ELSE @,
                            !.targets = 0, !.grads = {}, !.inf = FALSE]
             b == [s EXCEPT !.batches = <<>>, !.ran = @ \o s.batches,
                            !.bag = Counted(@, Len(st[r].batches))]
  <1>1. pc[r] = "step" /\ Disk /\ Job
    BY DEF BeginStep, Disk, Job
  <1>2. Training => Go(r, "batch", a)
    BY DEF BeginStep
  <1>3. ~Training => Go(r, "load", b)
    BY DEF BeginStep
  <1>4. DOMAIN st[r] = Fields
    BY DEF StepsTypeOK, IsState
  <1>5. /\ DOMAIN s = Fields /\ SameData(st[r], s) /\ SameGrads(st[r], s) /\ SameBags(st[r], s)
        /\ s.stepNr = st[r].stepNr + 1 /\ s.passes = st[r].passes /\ s.scale = st[r].scale
        /\ s.streak = st[r].streak /\ s.lr = st[r].lr /\ s.model = st[r].model
        /\ s.since = st[r].since
    BY <1>4 DEF Fields, SameData, SameGrads, SameBags
  <1> HIDE DEF s
  <1>6. CASE Training
    <2>1. /\ DOMAIN a = Fields /\ SameModel(s, a) /\ SameData(s, a) /\ a.bag = s.bag
          /\ a.original \in {s.original, s.bag} /\ a.targets = 0 /\ a.grads = {} /\ a.inf = FALSE
          /\ setup.fp16 => a.original = s.bag
      BY <1>5 DEF Fields, SameData, SameModel, SameStep
    <2> HIDE DEF a
    <2>2. Domains /\ Others(r) /\ pc'[r] = "batch" /\ st'[r] = a
      BY <1>2, <1>6, GoIs
    <2> QED
      BY <1>1, <1>5, <1>6, <2>1, <2>2 DEF SameModel, SameStep, SameData, SameBags
  <1>7. CASE ~Training
    <2>1. /\ DOMAIN b = Fields /\ SameModel(s, b) /\ SameGrads(s, b) /\ b.read = s.read
          /\ b.batches = <<>> /\ b.ran = s.ran \o s.batches /\ b.original = s.original
          /\ b.bag = Counted(s.bag, Len(st[r].batches))
      BY <1>5 DEF Fields, SameGrads, SameModel, SameStep
    <2> HIDE DEF b
    <2>2. Domains /\ Others(r) /\ pc'[r] = "load" /\ st'[r] = b
      BY <1>3, <1>7, GoIs
    <2> QED
      BY <1>1, <1>5, <1>7, <2>1, <2>2 DEF SameModel, SameStep, SameGrads, SameData, SameBags
  <1> QED
    BY <1>6, <1>7

RunBatchEffect(r) ==
    /\ Domains /\ Others(r) /\ Disk /\ Job
    /\ pc[r] = "batch" /\ DOMAIN st'[r] = Fields
    /\ pc'[r] = IF setup.noSync /\ Len(st[r].batches) > 1 THEN "batch" ELSE "reduce"
    /\ SameModel(st[r], st'[r]) /\ st'[r].read = st[r].read
    /\ st'[r].batches = Tail(st[r].batches)
    /\ st'[r].ran = Append(st[r].ran, Head(st[r].batches))
    /\ st'[r].targets = st[r].targets + Shard(r)[Head(st[r].batches)].targets
    /\ st'[r].grads = st[r].grads \cup {<<r, st[r].passes, Head(st[r].batches)>>}
    /\ st'[r].inf <=> \/ st[r].inf
                      \/ setup.fp16 /\ st[r].scale > Shard(r)[Head(st[r].batches)].limit
    /\ st'[r].inf \in BOOLEAN
    /\ st'[r].original = st[r].original /\ st'[r].bag = Counted(st[r].bag, 1)

LEMMA RunBatchDoes ==
    ASSUME StepsTypeOK, NEW r \in Ranks, RunBatch(r)
    PROVE  RunBatchEffect(r)
  <1> USE DEF RunBatchEffect
  <1> DEFINE i == Head(st[r].batches)
             b == Shard(r)[i]
             over == st[r].inf \/ (setup.fp16 /\ st[r].scale > b.limit)
             s == [st[r] EXCEPT !.batches = Tail(@), !.ran = Append(@, i),
                            !.bag = Counted(@, 1),
                            !.targets = @ + b.targets,
                            !.grads = @ \cup {<<r, st[r].passes, i>>},
                            !.inf = over]
             where == IF setup.noSync /\ Len(st[r].batches) > 1 THEN "batch" ELSE "reduce"
  <1>1. pc[r] = "batch" /\ Disk /\ Job /\ Go(r, where, s)
    BY DEF RunBatch, Disk, Job
  <1>2. DOMAIN st[r] = Fields
    BY DEF StepsTypeOK, IsState
  <1>3. /\ DOMAIN s = Fields /\ SameModel(st[r], s) /\ s.read = st[r].read
        /\ s.batches = Tail(st[r].batches) /\ s.ran = Append(st[r].ran, i)
        /\ s.targets = st[r].targets + b.targets
        /\ s.grads = st[r].grads \cup {<<r, st[r].passes, i>>} /\ s.inf = over
        /\ s.original = st[r].original /\ s.bag = Counted(st[r].bag, 1)
    <2> HIDE DEF i, b, over
    <2> QED
      BY <1>2 DEF Fields, SameModel, SameStep
  <1>4. over \in BOOLEAN
    OBVIOUS
  <1>5. Domains /\ Others(r) /\ pc'[r] = where /\ st'[r] = s
    <2> HIDE DEF s, where
    <2> QED
      BY <1>1, GoIs
  <1>6. s.inf \in BOOLEAN /\ (s.inf <=> over)
    <2> HIDE DEF s, over
    <2> QED
      BY <1>3, <1>4
  <1> HIDE DEF s
  <1> QED
    BY <1>1, <1>3, <1>5, <1>6

ReduceEffect ==
    /\ Domains /\ Disk /\ Job
    /\ \A r \in Ranks :
         /\ pc[r] = "reduce" /\ DOMAIN st'[r] = Fields
         /\ SameModel(st[r], st'[r]) /\ SameData(st[r], st'[r]) /\ SameBags(st[r], st'[r])
         /\ pc'[r] = IF st[r].batches # <<>> THEN "batch"
                     ELSE IF st[r].targets > 0 THEN "normalize"
                     ELSE IF setup.sharded THEN "unscale" ELSE "norms"
         /\ st'[r].targets = st[r].targets
         /\ st'[r].grads = UNION {st[q].grads : q \in Ranks}
         /\ st'[r].inf \in BOOLEAN
         /\ st'[r].inf => \E q \in Ranks : st[q].inf
         /\ ~setup.sharded => (st'[r].inf <=> \E q \in Ranks : st[q].inf)

LEMMA ReduceDoes ==
    ASSUME StepsTypeOK, Reduce
    PROVE  ReduceEffect
  <1> USE DEF ReduceEffect
  <1>1. /\ Domains /\ Disk /\ Job
        /\ \A r \in Ranks :
              /\ pc[r] = "reduce"
              /\ pc'[r] = IF st[r].batches # <<>> THEN "batch"
                          ELSE IF st[r].targets > 0 THEN "normalize"
                          ELSE IF setup.sharded THEN "unscale" ELSE "norms"
    BY DEF Reduce, GoAll, Meet, Domains, Disk, Job
  <1> SUFFICES ASSUME NEW r \in Ranks
               PROVE  /\ DOMAIN st'[r] = Fields
                      /\ SameModel(st[r], st'[r]) /\ SameData(st[r], st'[r])
                      /\ SameBags(st[r], st'[r])
                      /\ st'[r].targets = st[r].targets
                      /\ st'[r].grads = UNION {st[q].grads : q \in Ranks}
                      /\ st'[r].inf \in BOOLEAN
                      /\ st'[r].inf => \E q \in Ranks : st[q].inf
                      /\ ~setup.sharded => (st'[r].inf <=> \E q \in Ranks : st[q].inf)
    BY <1>1
  <1> DEFINE U == UNION {st[q].grads : q \in Ranks}
             over == (\E q \in Ranks : st[q].inf) /\ (setup.sharded => r = setup.owner)
  <1>2. st'[r] = [st[r] EXCEPT !.grads = U, !.inf = over]
    BY DEF Reduce, GoAll
  <1>3. DOMAIN st[r] = Fields
    BY DEF StepsTypeOK, IsState
  <1>4. /\ over \in BOOLEAN /\ (over => \E q \in Ranks : st[q].inf)
        /\ ~setup.sharded => (over <=> \E q \in Ranks : st[q].inf)
    OBVIOUS
  <1> HIDE DEF U, over
  <1>5. /\ DOMAIN st'[r] = Fields
        /\ SameModel(st[r], st'[r]) /\ SameData(st[r], st'[r]) /\ SameBags(st[r], st'[r])
        /\ st'[r].targets = st[r].targets /\ st'[r].grads = U /\ st'[r].inf = over
    BY <1>2, <1>3 DEF Fields, SameModel, SameStep, SameData, SameBags
  <1>6. /\ st'[r].inf \in BOOLEAN /\ (st'[r].inf => \E q \in Ranks : st[q].inf)
        /\ ~setup.sharded => (st'[r].inf <=> \E q \in Ranks : st[q].inf)
    BY <1>4, <1>5
  <1> QED
    BY <1>5, <1>6 DEF U

NormalizeEffect ==
    /\ Domains /\ Disk /\ Job
    /\ \A r \in Ranks :
         /\ pc[r] = "normalize" /\ st'[r] = st[r]
         /\ pc'[r] = IF setup.sharded THEN "unscale" ELSE "norms"

LEMMA NormalizeDoes ==
    ASSUME StepsTypeOK, Normalize
    PROVE  NormalizeEffect
  BY DEF NormalizeEffect, Normalize, GoAll, Meet, Domains, Disk, Job

UnscaleEffect ==
    /\ Domains /\ Disk /\ Job
    /\ \A r \in Ranks :
         /\ pc[r] = "unscale" /\ pc'[r] = "norms" /\ DOMAIN st'[r] = Fields
         /\ SameModel(st[r], st'[r]) /\ SameData(st[r], st'[r]) /\ SameBags(st[r], st'[r])
         /\ st'[r].targets = st[r].targets /\ st'[r].grads = st[r].grads
         /\ st'[r].inf \in BOOLEAN /\ (st'[r].inf <=> \E q \in Ranks : st[q].inf)

LEMMA UnscaleDoes ==
    ASSUME StepsTypeOK, Unscale
    PROVE  UnscaleEffect
  <1> USE DEF UnscaleEffect
  <1>1. Domains /\ Disk /\ Job /\ \A r \in Ranks : pc[r] = "unscale" /\ pc'[r] = "norms"
    BY DEF Unscale, GoAll, Meet, Domains, Disk, Job
  <1> SUFFICES ASSUME NEW r \in Ranks
               PROVE  /\ DOMAIN st'[r] = Fields
                      /\ SameModel(st[r], st'[r]) /\ SameData(st[r], st'[r])
                      /\ SameBags(st[r], st'[r])
                      /\ st'[r].targets = st[r].targets /\ st'[r].grads = st[r].grads
                      /\ st'[r].inf \in BOOLEAN /\ (st'[r].inf <=> \E q \in Ranks : st[q].inf)
    BY <1>1
  <1> DEFINE over == \E q \in Ranks : st[q].inf
  <1>2. st'[r] = [st[r] EXCEPT !.inf = over]
    BY DEF Unscale, GoAll
  <1>3. DOMAIN st[r] = Fields
    BY DEF StepsTypeOK, IsState
  <1>4. over \in BOOLEAN /\ (over <=> \E q \in Ranks : st[q].inf)
    OBVIOUS
  <1> HIDE DEF over
  <1>5. /\ DOMAIN st'[r] = Fields
        /\ SameModel(st[r], st'[r]) /\ SameData(st[r], st'[r]) /\ SameBags(st[r], st'[r])
        /\ st'[r].targets = st[r].targets /\ st'[r].grads = st[r].grads /\ st'[r].inf = over
    BY <1>2, <1>3 DEF Fields, SameModel, SameStep, SameData, SameBags
  <1>6. st'[r].inf \in BOOLEAN /\ (st'[r].inf <=> \E q \in Ranks : st[q].inf)
    BY <1>4, <1>5
  <1> QED
    BY <1>5, <1>6

NormsEffect ==
    /\ Domains /\ Disk /\ Job
    /\ \A r \in Ranks : pc[r] = "norms" /\ pc'[r] = "update" /\ st'[r] = st[r]

LEMMA NormsDoes ==
    ASSUME StepsTypeOK, Norms
    PROVE  NormsEffect
  BY DEF NormsEffect, Norms, GoAll, Meet, Domains, Disk, Job

OverflowEffect(r) ==
    /\ Domains /\ Others(r) /\ Disk /\ Job
    /\ pc[r] = "update" /\ st[r].inf /\ DOMAIN st'[r] = Fields
    /\ SameData(st[r], st'[r]) /\ SameGrads(st[r], st'[r])
    /\ st'[r].passes = st[r].passes /\ st'[r].streak = 0 /\ st'[r].lr = st[r].lr
    /\ st'[r].model = st[r].model /\ st'[r].since = st[r].since
    /\ st[r].scale = 0 => /\ pc'[r] = "failed" /\ st'[r].stepNr = st[r].stepNr
                          /\ st'[r].scale = 0 /\ SameBags(st[r], st'[r])
    /\ st[r].scale # 0 => /\ pc'[r] = "load" /\ st'[r].stepNr = st[r].stepNr - 1
                          /\ st'[r].scale = st[r].scale - 1
                          /\ st'[r].bag = st[r].original /\ st'[r].original = NoCount

LEMMA OverflowDoes ==
    ASSUME StepsTypeOK, NEW r \in Ranks, Overflow(r)
    PROVE  OverflowEffect(r)
  <1> USE DEF OverflowEffect
  <1> DEFINE a == [st[r] EXCEPT !.streak = 0]
             b == [st[r] EXCEPT !.scale = @ - 1, !.streak = 0,
                             !.bag = st[r].original, !.original = NoCount,
                             !.stepNr = @ - 1]
  <1>1. pc[r] = "update" /\ st[r].inf /\ Disk /\ Job
    BY DEF Overflow, Disk, Job
  <1>2. st[r].scale = 0 => Go(r, "failed", a)
    BY DEF Overflow
  <1>3. st[r].scale # 0 => Go(r, "load", b)
    BY DEF Overflow
  <1>4. DOMAIN st[r] = Fields
    BY DEF StepsTypeOK, IsState
  <1>5. CASE st[r].scale = 0
    <2>1. /\ DOMAIN a = Fields /\ SameData(st[r], a) /\ SameGrads(st[r], a) /\ SameBags(st[r], a)
          /\ a.passes = st[r].passes /\ a.streak = 0 /\ a.lr = st[r].lr /\ a.model = st[r].model
          /\ a.since = st[r].since /\ a.stepNr = st[r].stepNr /\ a.scale = st[r].scale
      BY <1>4 DEF Fields, SameData, SameGrads, SameBags
    <2> HIDE DEF a
    <2>2. Domains /\ Others(r) /\ pc'[r] = "failed" /\ st'[r] = a
      BY <1>2, <1>5, GoIs
    <2> QED
      BY <1>1, <1>5, <2>1, <2>2
  <1>6. CASE st[r].scale # 0
    <2>1. /\ DOMAIN b = Fields /\ SameData(st[r], b) /\ SameGrads(st[r], b)
          /\ b.passes = st[r].passes /\ b.streak = 0 /\ b.lr = st[r].lr /\ b.model = st[r].model
          /\ b.since = st[r].since /\ b.stepNr = st[r].stepNr - 1 /\ b.scale = st[r].scale - 1
          /\ b.bag = st[r].original /\ b.original = NoCount
      BY <1>4 DEF Fields, SameData, SameGrads
    <2> HIDE DEF b
    <2>2. Domains /\ Others(r) /\ pc'[r] = "load" /\ st'[r] = b
      BY <1>3, <1>6, GoIs
    <2> QED
      BY <1>1, <1>6, <2>1, <2>2
  <1> QED
    BY <1>5, <1>6

\* The loss scale grows with the step that a rank accepts.
Grown(s) == setup.fp16 /\ s.streak + 1 = ScaleWindow

AcceptEffect(r) ==
    /\ Domains /\ Others(r) /\ Disk /\ Job
    /\ pc[r] = "update" /\ ~st[r].inf /\ pc'[r] = "post" /\ DOMAIN st'[r] = Fields
    /\ SameData(st[r], st'[r]) /\ SameGrads(st[r], st'[r])
    /\ st'[r].stepNr = st[r].stepNr /\ st'[r].passes = st[r].passes
    /\ st'[r].streak = IF setup.fp16 /\ ~Grown(st[r]) THEN st[r].streak + 1 ELSE 0
    /\ st'[r].scale = IF Grown(st[r]) THEN st[r].scale + 1 ELSE st[r].scale
    /\ st'[r].model = Append(st[r].model, st[r].grads) /\ st'[r].lr = st[r].lr + 1
    /\ st'[r].since = st[r].since
    /\ st'[r].bag = st[r].bag /\ st'[r].original = NoCount

LEMMA AcceptDoes ==
    ASSUME StepsTypeOK, NEW r \in Ranks, Accept(r)
    PROVE  AcceptEffect(r)
  <1> USE DEF AcceptEffect
  <1> DEFINE grown == setup.fp16 /\ st[r].streak + 1 = ScaleWindow
             s == [st[r] EXCEPT !.streak = IF setup.fp16 /\ ~grown THEN @ + 1 ELSE 0,
                            !.scale = IF grown THEN @ + 1 ELSE @,
                            !.model = Append(@, st[r].grads),
                            !.lr = @ + 1, !.original = NoCount]
  <1>1. pc[r] = "update" /\ ~st[r].inf /\ Disk /\ Job /\ Go(r, "post", s)
    BY DEF Accept, Disk, Job
  <1>2. DOMAIN st[r] = Fields
    BY DEF StepsTypeOK, IsState
  <1>3. grown <=> Grown(st[r])
    BY DEF Grown
  <1>4. /\ DOMAIN s = Fields /\ SameData(st[r], s) /\ SameGrads(st[r], s)
        /\ s.stepNr = st[r].stepNr /\ s.passes = st[r].passes
        /\ s.streak = IF setup.fp16 /\ ~grown THEN st[r].streak + 1 ELSE 0
        /\ s.scale = IF grown THEN st[r].scale + 1 ELSE st[r].scale
        /\ s.model = Append(st[r].model, st[r].grads) /\ s.lr = st[r].lr + 1
        /\ s.since = st[r].since /\ s.bag = st[r].bag /\ s.original = NoCount
    <2> HIDE DEF grown
    <2> QED
      BY <1>2 DEF Fields, SameData, SameGrads
  <1> HIDE DEF s
  <1>5. Domains /\ Others(r) /\ pc'[r] = "post" /\ st'[r] = s
    BY <1>1, GoIs
  <1> HIDE DEF grown
  <1> QED
    BY <1>1, <1>3, <1>4, <1>5

PostStepEffect(r) ==
    /\ Domains /\ Others(r) /\ Job
    /\ pc[r] = "post" /\ st'[r] = st[r]
    /\ pc'[r] = IF st[r].stepNr % PublishEvery = 0 THEN "metrics" ELSE "load"
    /\ \/ snaps' = snaps
       \/ snaps' = [snaps EXCEPT ![r] = Keep(st[r])]
    /\ \/ whole' = whole
       \/ whole' = snaps' /\ \A q \in Ranks : snaps'[q].stepNr = snaps'[r].stepNr

LEMMA PostStepDoes ==
    ASSUME StepsTypeOK, NEW r \in Ranks, PostStep(r)
    PROVE  PostStepEffect(r)
  BY DEF PostStepEffect, PostStep, StepsTypeOK, Domains, Others, Job

LEMMA KeepIs ==
    ASSUME NEW s
    PROVE  /\ Keep(s).stepNr = s.stepNr /\ Keep(s).read = s.read /\ Keep(s).passes = s.passes
           /\ Keep(s).scale = s.scale /\ Keep(s).streak = s.streak /\ Keep(s).lr = s.lr
           /\ Keep(s).model = s.model /\ Keep(s).total = s.bag.total /\ Keep(s).ran = s.ran
  BY DEF Keep

PublishEffect ==
    /\ Domains /\ Disk /\ Job
    /\ \A r \in Ranks : pc[r] = "metrics" /\ pc'[r] = "barrier" /\ st'[r] = st[r]

LEMMA PublishDoes ==
    ASSUME StepsTypeOK, Publish
    PROVE  PublishEffect
  BY DEF PublishEffect, Publish, Meet, Domains, Disk, Job, StepsTypeOK

BarrierEffect ==
    /\ Domains /\ Disk /\ Job
    /\ \A r \in Ranks :
         /\ pc[r] = "barrier" /\ DOMAIN st'[r] = Fields
         /\ pc'[r] = IF Training /\ st[r].passes < MaxPasses THEN "load" ELSE "done"
         /\ SameData(st[r], st'[r]) /\ SameGrads(st[r], st'[r])
         /\ st'[r].stepNr = st[r].stepNr /\ st'[r].passes = st[r].passes
         /\ st'[r].scale = st[r].scale /\ st'[r].streak = st[r].streak
         /\ st'[r].lr = st[r].lr /\ st'[r].model = st[r].model
         /\ st'[r].since = st[r].stepNr /\ st'[r].original = st[r].original
         /\ st'[r].bag = [st[r].bag EXCEPT !.now = 0]

LEMMA BarrierDoes ==
    ASSUME StepsTypeOK, Barrier
    PROVE  BarrierEffect
  <1> USE DEF BarrierEffect
  <1>1. /\ Domains /\ Disk /\ Job
        /\ \A r \in Ranks :
              /\ pc[r] = "barrier"
              /\ pc'[r] = IF Training /\ st[r].passes < MaxPasses THEN "load" ELSE "done"
    BY DEF Barrier, GoAll, Meet, Domains, Disk, Job
  <1>2. ASSUME NEW r \in Ranks
        PROVE  /\ DOMAIN st'[r] = Fields
               /\ SameData(st[r], st'[r]) /\ SameGrads(st[r], st'[r])
               /\ st'[r].stepNr = st[r].stepNr /\ st'[r].passes = st[r].passes
               /\ st'[r].scale = st[r].scale /\ st'[r].streak = st[r].streak
               /\ st'[r].lr = st[r].lr /\ st'[r].model = st[r].model
               /\ st'[r].since = st[r].stepNr /\ st'[r].original = st[r].original
               /\ st'[r].bag = [st[r].bag EXCEPT !.now = 0]
    <2>1. st'[r] = [st[r] EXCEPT !.bag.now = 0, !.since = st[r].stepNr]
      BY DEF Barrier, GoAll
    <2>2. DOMAIN st[r] = Fields
      BY DEF StepsTypeOK, IsState
    <2> QED
      BY <2>1, <2>2 DEF Fields, SameData, SameGrads
  <1> QED
    BY <1>1, <1>2

LEMMA BeginIs ==
    ASSUME NEW k
    PROVE  /\ DOMAIN Begin(k) = Fields
           /\ Begin(k).stepNr = k.stepNr /\ Begin(k).read = k.read /\ Begin(k).passes = k.passes
           /\ Begin(k).scale = k.scale /\ Begin(k).streak = k.streak /\ Begin(k).lr = k.lr
           /\ Begin(k).model = k.model /\ Begin(k).batches = <<>> /\ Begin(k).targets = 0
           /\ Begin(k).grads = {} /\ Begin(k).inf = FALSE
           /\ Begin(k).bag = [now |-> 0, total |-> k.total] /\ Begin(k).original = NoCount
           /\ Begin(k).ran = k.ran /\ Begin(k).since = k.stepNr
  BY DEF Begin, Fields

KillJobEffect ==
    /\ Domains /\ Training /\ setup' = setup /\ jobKills' = jobKills + 1
    /\ snaps' = whole /\ whole' = whole
    /\ \A r \in Ranks :
         /\ st'[r] = Begin(whole[r])
         /\ pc'[r] = IF whole[r].stepNr # 0 /\ whole[r].passes + 1 >= MaxPasses THEN "done"
                     ELSE "load"

LEMMA KillJobDoes ==
    ASSUME StepsTypeOK, KillJob
    PROVE  KillJobEffect
  BY DEF KillJobEffect, KillJob, Domains

-----------------------------------------------------------------------------
(***************************************************************************)
(* Types.                                                                  *)
(***************************************************************************)
TypeInv == StepsTypeOK /\ HandOK

\* How the actions change one rank at a time, as to types.
Typed == \A r \in Ranks : pc'[r] \in Where /\ IsState(r, st'[r])

\* What a rank may hold is the same as long as the task is.
LEMMA SameShards ==
    ASSUME setup' = setup, NEW r
    PROVE  /\ IsState(r, st[r])' <=> IsState(r, st'[r])
           /\ IsKept(r, snaps[r])' <=> IsKept(r, snaps'[r])
           /\ IsKept(r, whole[r])' <=> IsKept(r, whole'[r])
  <1>1. Shard(r)' = Shard(r)
    BY DEF Shard
  <1> QED
    BY ONLY <1>1 DEF IsState, IsKept

LEMMA TypesThen ==
    ASSUME setup' = setup, setup \in Setups, jobKills' \in Nat, Domains,
           DOMAIN snaps' = Ranks, DOMAIN whole' = Ranks, Typed,
           \A r \in Ranks : /\ IsKept(r, snaps'[r]) /\ snaps'[r].total \in Int
                            /\ IsKept(r, whole'[r]) /\ whole'[r].total \in Int
    PROVE  StepsTypeOK'
  <1>1. ASSUME NEW r \in Ranks
        PROVE  /\ pc'[r] \in Where /\ IsState(r, st[r])'
               /\ IsKept(r, snaps[r])' /\ (snaps[r].total)' \in Int
               /\ IsKept(r, whole[r])' /\ (whole[r].total)' \in Int
    BY SameShards DEF Typed
  <1> QED
    BY <1>1 DEF StepsTypeOK, Domains

LEMMA TypedIs ==
    ASSUME StepsTypeOK, Domains, setup' = setup, jobKills' \in Nat, Typed,
           Disk \/ (snaps' = whole /\ whole' = whole)
    PROVE  StepsTypeOK'
  <1>1. /\ setup \in Setups /\ DOMAIN snaps = Ranks /\ DOMAIN whole = Ranks
        /\ \A r \in Ranks : /\ IsKept(r, snaps[r]) /\ snaps[r].total \in Int
                            /\ IsKept(r, whole[r]) /\ whole[r].total \in Int
    BY DEF StepsTypeOK
  <1>2. /\ DOMAIN snaps' = Ranks /\ DOMAIN whole' = Ranks
        /\ \A r \in Ranks : /\ IsKept(r, snaps'[r]) /\ snaps'[r].total \in Int
                            /\ IsKept(r, whole'[r]) /\ whole'[r].total \in Int
    BY <1>1 DEF Disk
  <1> QED
    BY <1>1, <1>2, TypesThen

LEMMA FreshIs ==
    /\ Fresh.stepNr = 0 /\ Fresh.read = 0 /\ Fresh.passes = 0 /\ Fresh.scale = TopScale
    /\ Fresh.streak = 0 /\ Fresh.lr = 0 /\ Fresh.model = <<>> /\ Fresh.total = 0
    /\ Fresh.ran = <<>>
  BY DEF Fresh

LEMMA TypeInit == StepsInit => TypeInv
  <1> SUFFICES ASSUME StepsInit PROVE TypeInv
    OBVIOUS
  <1>1. TopScale \in Nat /\ \A r \in Ranks : Len(Shard(r)) \in Nat
    BY StepAssumption DEF StepsInit, Shard
  <1>2. ASSUME NEW r \in Ranks PROVE IsKept(r, Fresh) /\ Fresh.total \in Int
    BY <1>1, FreshIs DEF IsKept
  <1>3. ASSUME NEW r \in Ranks PROVE IsState(r, Begin(Fresh))
    <2> DEFINE b == Begin(Fresh)
    <2> DEFINE k == Fresh
    <2>k. /\ k.stepNr = 0 /\ k.read = 0 /\ k.passes = 0 /\ k.scale = TopScale
          /\ k.streak = 0 /\ k.lr = 0 /\ k.model = <<>> /\ k.total = 0 /\ k.ran = <<>>
      BY ONLY FreshIs
    <2> HIDE DEF k
    <2>b. b = Begin(k)
      BY DEF k
    <2> HIDE DEF b
    <2>c. /\ DOMAIN b = Fields
          /\ b.stepNr = k.stepNr /\ b.read = k.read /\ b.passes = k.passes
          /\ b.scale = k.scale /\ b.streak = k.streak /\ b.lr = k.lr
          /\ b.model = k.model /\ b.batches = <<>> /\ b.targets = 0
          /\ b.grads = {} /\ b.inf = FALSE
          /\ b.bag = [now |-> 0, total |-> k.total] /\ b.original = NoCount
          /\ b.ran = k.ran /\ b.since = k.stepNr
      BY ONLY <2>b, BeginIs
    <2>1. /\ DOMAIN b = Fields /\ b.batches = <<>> /\ b.targets = 0 /\ b.grads = {}
          /\ b.inf = FALSE /\ b.since = 0 /\ b.original = NoCount
          /\ b.bag = [now |-> 0, total |-> 0]
          /\ b.stepNr = 0 /\ b.read = 0 /\ b.passes = 0 /\ b.scale = TopScale
          /\ b.streak = 0 /\ b.lr = 0 /\ b.model = <<>> /\ b.ran = <<>>
      BY ONLY <2>k, <2>c
    <2>2. IsKept(r, b)
      BY <1>1, <2>1 DEF IsKept
    <2>3. NoCount \in Tally /\ [now |-> 0, total |-> 0] \in Tally
      BY DEF NoCount, Tally
    <2>4. b.bag \in Tally /\ b.original \in Tally /\ b.inf \in BOOLEAN
      BY <2>1, <2>3
    <2>5. IsState(r, b)
      BY <2>1, <2>2, <2>4 DEF IsState
    <2> QED
      BY <2>5 DEF b, k
  <1>4. /\ setup \in Setups /\ jobKills = 0
        /\ DOMAIN pc = Ranks /\ DOMAIN st = Ranks /\ DOMAIN snaps = Ranks /\ DOMAIN whole = Ranks
        /\ \A r \in Ranks : pc[r] = "load" /\ st[r] = Begin(Fresh)
                            /\ snaps[r] = Fresh /\ whole[r] = Fresh
    BY DEF StepsInit
  <1>5. StepsTypeOK
    BY <1>2, <1>3, <1>4 DEF StepsTypeOK, Where
  <1>6. HandOK
    BY <1>4 DEF HandOK
  <1> QED
    BY <1>5, <1>6 DEF TypeInv


\* A local step: the types and the hand of the rank that makes it.
KeptTyped ==
    /\ DOMAIN snaps' = Ranks /\ DOMAIN whole' = Ranks
    /\ \A q \in Ranks : /\ IsKept(q, snaps'[q]) /\ snaps'[q].total \in Int
                        /\ IsKept(q, whole'[q]) /\ whole'[q].total \in Int

LEMMA LocalTyped ==
    ASSUME StepsTypeOK, HandOK, NEW r \in Ranks, Domains, Others(r), Job, KeptTyped,
           pc'[r] \in Where, IsState(r, st'[r]),
           Training /\ pc'[r] \in {"step", "batch"} => st'[r].batches # <<>>,
           ~Training => pc'[r] \in {"load", "count"}
    PROVE  TypeInv'
  <1>1. Typed
    BY DEF StepsTypeOK, Typed, Others
  <1>2. StepsTypeOK'
    <2>1. setup' = setup /\ setup \in Setups /\ jobKills' \in Nat
      BY DEF Job, StepsTypeOK
    <2> QED
      BY <1>1, <2>1, TypesThen DEF KeptTyped
  <1>3. HandOK'
    BY DEF HandOK, Training, Others, Job
  <1> QED
    BY <1>2, <1>3 DEF TypeInv

LEMMA DiskTyped == ASSUME StepsTypeOK, Disk PROVE KeptTyped
  BY DEF StepsTypeOK, Disk, KeptTyped

LEMMA LoadType == ASSUME StepsTypeOK, HandOK, NEW r \in Ranks, LoadEffect(r) PROVE TypeInv'
  <1>1. IsState(r, st[r]) /\ Len(Shard(r)) \in Nat
    BY SetupIs DEF StepsTypeOK
  <1>2. PICK n \in Nat :
           /\ st[r].read + n <= Len(Shard(r)) /\ st'[r].read = st[r].read + n
           /\ st'[r].batches \in Seq(1..Len(Shard(r)))
    BY DEF LoadEffect
  <1>3. st'[r].read \in 0..Len(Shard(r))
    BY <1>1, <1>2 DEF IsState, IsKept
  <1>4. IsState(r, st'[r])
    BY <1>1, <1>2, <1>3 DEF LoadEffect, IsState, IsKept, SameModel, SameStep, SameGrads, SameBags
  <1>5. Domains /\ Others(r) /\ Job /\ Disk /\ pc'[r] = "count"
    BY DEF LoadEffect
  <1>6. pc'[r] \in Where /\ pc'[r] \notin {"step", "batch"}
    BY <1>5 DEF Where
  <1> QED
    BY <1>4, <1>5, <1>6, LocalTyped, DiskTyped

LEMMA CountedIs ==
    ASSUME NEW b \in Tally, NEW n \in Nat
    PROVE  Counted(b, n) \in Tally /\ [b EXCEPT !.now = 0] \in Tally
  BY DEF Counted, Tally

LEMMA BeginStepType ==
    ASSUME StepsTypeOK, HandOK, NEW r \in Ranks, BeginStepEffect(r) PROVE TypeInv'
  <1>1. IsState(r, st[r]) /\ pc[r] = "step" /\ (Training => st[r].batches # <<>>)
    BY DEF StepsTypeOK, HandOK, BeginStepEffect
  <1>2. /\ Domains /\ Others(r) /\ Job /\ Disk /\ pc'[r] \in {"batch", "load"}
        /\ ~Training => pc'[r] = "load"
    BY DEF BeginStepEffect
  <1>3. /\ DOMAIN st'[r] = Fields /\ st'[r].stepNr \in Int /\ st'[r].read \in 0..Len(Shard(r))
        /\ st'[r].passes \in Nat /\ st'[r].scale \in Nat /\ st'[r].streak \in Nat
        /\ st'[r].lr \in Nat /\ st'[r].model \in Seq(SUBSET Entry) /\ st'[r].since \in Int
    BY <1>1 DEF IsState, IsKept, BeginStepEffect
  <1>4. /\ st[r].ran \in Seq(Nat) /\ st[r].batches \in Seq(Nat) /\ Len(st[r].batches) \in Nat
        /\ st[r].ran \o st[r].batches \in Seq(Nat)
    BY <1>1 DEF IsState, IsKept
  <1>5. CASE Training
    <2>1. IsState(r, st'[r])
      <3>1. /\ st'[r].bag = st[r].bag /\ st'[r].original \in {st[r].original, st[r].bag}
            /\ st'[r].targets = 0 /\ st'[r].grads = {} /\ st'[r].inf = FALSE
            /\ st'[r].batches = st[r].batches /\ st'[r].ran = st[r].ran
        BY <1>5 DEF BeginStepEffect
      <3>2. st'[r].bag \in Tally /\ st'[r].original \in Tally /\ st'[r].inf \in BOOLEAN
        BY <1>1, <3>1 DEF IsState
      <3> QED
        BY <1>1, <1>3, <3>1, <3>2 DEF IsState, IsKept
    <2>2. pc'[r] \in Where /\ (pc'[r] \in {"step", "batch"} => st'[r].batches # <<>>)
      BY <1>1, <1>2, <1>5 DEF Where, Active, Within, BeginStepEffect
    <2> QED
      BY <1>2, <1>5, <2>1, <2>2, LocalTyped, DiskTyped
  <1>6. CASE ~Training
    <2>1. st[r].bag \in Tally /\ st'[r].bag = Counted(st[r].bag, Len(st[r].batches))
      BY <1>1, <1>6 DEF IsState, BeginStepEffect
    <2>2. st'[r].bag \in Tally
      BY <1>4, <2>1, CountedIs
    <2>3. st'[r].ran \in Seq(Nat) /\ st'[r].batches \in Seq(1..Len(Shard(r)))
      <3>1. st'[r].ran = st[r].ran \o st[r].batches /\ st'[r].batches = <<>>
        BY <1>6 DEF BeginStepEffect
      <3>2. st'[r].batches \in Seq(1..Len(Shard(r)))
        BY <3>1
      <3> QED
        BY <1>4, <3>1, <3>2
    <2>4. /\ st'[r].targets \in Nat /\ st'[r].grads \in SUBSET Entry /\ st'[r].inf \in BOOLEAN
          /\ st'[r].original \in Tally
      BY <1>1, <1>6 DEF IsState, BeginStepEffect, SameGrads
    <2>5. IsState(r, st'[r])
      BY <1>3, <2>2, <2>3, <2>4 DEF IsState, IsKept
    <2>6. pc'[r] \in Where
      BY <1>2 DEF Where, Active, Within
    <2> QED
      BY <1>2, <1>6, <2>5, <2>6, LocalTyped, DiskTyped
  <1> QED
    BY <1>5, <1>6

LEMMA RunBatchType == ASSUME StepsTypeOK, HandOK, NEW r \in Ranks, RunBatchEffect(r) PROVE TypeInv'
  <1>20. Training
    BY DEF HandOK, RunBatchEffect
  <1>1. IsState(r, st[r]) /\ pc[r] = "batch" /\ st[r].batches # <<>>
    BY <1>20 DEF StepsTypeOK, HandOK, RunBatchEffect
  <1> DEFINE i == Head(st[r].batches)
  <1>2. /\ i \in 1..Len(Shard(r)) /\ Tail(st[r].batches) \in Seq(1..Len(Shard(r)))
        /\ Len(Tail(st[r].batches)) = Len(st[r].batches) - 1 /\ Len(st[r].batches) \in Nat
    BY <1>1, TailIs DEF IsState
  <1>3. Shard(r)[i] \in Batch /\ Len(Shard(r)) \in Nat
    BY <1>2, SetupIs
  <1> HIDE DEF i
  <1>4. Shard(r)[i].targets \in Nat /\ i \in Nat
    BY <1>2, <1>3 DEF Batch
  <1>5. st'[r].targets \in Nat /\ st'[r].ran \in Seq(Nat) /\ st'[r].grads \in SUBSET Entry
    <2>1. st[r].targets \in Nat /\ st[r].ran \in Seq(Nat) /\ st[r].grads \in SUBSET Entry
          /\ st[r].passes \in Nat
      BY <1>1 DEF IsState, IsKept
    <2>2. Append(st[r].ran, i) \in Seq(Nat)
      BY <2>1, <1>4
    <2>3. <<r, st[r].passes, i>> \in Entry
      BY <2>1, <1>4 DEF Entry
    <2>4. /\ st'[r].targets = st[r].targets + Shard(r)[i].targets
          /\ st'[r].ran = Append(st[r].ran, i)
          /\ st'[r].grads = st[r].grads \cup {<<r, st[r].passes, i>>}
      BY DEF i, RunBatchEffect
    <2>5. st'[r].grads \in SUBSET Entry
      <3> HIDE DEF Entry
      <3> QED
        BY <2>1, <2>3, <2>4
    <2> QED
      BY <1>4, <2>1, <2>2, <2>4, <2>5
  <1>6. st'[r].bag \in Tally /\ st'[r].original \in Tally
    BY <1>1, CountedIs DEF IsState, RunBatchEffect
  <1>7. IsState(r, st'[r])
    BY <1>1, <1>2, <1>5, <1>6 DEF IsState, IsKept, SameModel, SameStep, RunBatchEffect
  <1>8. pc'[r] \in Where /\ (pc'[r] \in {"step", "batch"} => st'[r].batches # <<>>)
    <2> DEFINE b == st[r].batches
               c == st'[r].batches
    <2>1. pc'[r] \in {"batch", "reduce"} /\ (pc'[r] = "batch" => Len(b) > 1) /\ c = Tail(b)
      BY DEF RunBatchEffect
    <2>2. Len(c) = Len(b) - 1 /\ Len(b) \in Nat
      BY <1>2, <2>1
    <2> HIDE DEF b, c
    <2>3. pc'[r] = "batch" => c # <<>>
      <3>1. Len(b) > 1 => Len(c) # 0
        BY <2>2
      <3>2. Len(c) # 0 => c # <<>>
        OBVIOUS
      <3> QED
        BY <2>1, <3>1, <3>2
    <2> QED
      BY <2>1, <2>3 DEF Where, Active, Within, c
  <1>9. Domains /\ Others(r) /\ Job /\ Disk
    BY DEF RunBatchEffect
  <1> QED
    BY <1>7, <1>8, <1>9, <1>20, LocalTyped, DiskTyped

LEMMA OverflowType == ASSUME StepsTypeOK, HandOK, NEW r \in Ranks, OverflowEffect(r) PROVE TypeInv'
  <1>1. IsState(r, st[r])
    BY DEF StepsTypeOK
  <1>2. NoCount \in Tally
    BY DEF NoCount, Tally
  <1>3. st'[r].scale \in Nat /\ st'[r].stepNr \in Int
    <2> DEFINE scale == st[r].scale
               n     == st[r].stepNr
    <2>1. scale \in Nat /\ n \in Int
      BY ONLY <1>1 DEF IsState, IsKept
    <2>2. /\ scale = 0 => st'[r].scale = 0 /\ st'[r].stepNr = n
          /\ scale # 0 => st'[r].scale = scale - 1 /\ st'[r].stepNr = n - 1
      BY DEF OverflowEffect
    <2> HIDE DEF scale, n
    <2>3. scale # 0 => scale - 1 \in Nat /\ n - 1 \in Int
      BY ONLY <2>1
    <2> QED
      BY ONLY <2>1, <2>2, <2>3
  <1>4. st'[r].bag \in Tally /\ st'[r].original \in Tally
    <2>1. st[r].bag \in Tally /\ st[r].original \in Tally
      BY ONLY <1>1 DEF IsState
    <2>2. \/ st'[r].bag = st[r].bag /\ st'[r].original = st[r].original
          \/ st'[r].bag = st[r].original /\ st'[r].original = NoCount
      BY DEF SameBags, OverflowEffect
    <2> QED
      BY ONLY <1>2, <2>1, <2>2
  <1>5. IsState(r, st'[r])
    BY <1>1, <1>3, <1>4 DEF IsState, IsKept, SameData, SameGrads, OverflowEffect
  <1>6. Domains /\ Others(r) /\ Job /\ Disk /\ pc'[r] \in {"failed", "load"}
    BY DEF OverflowEffect
  <1>7. pc'[r] \in Where /\ pc'[r] \notin {"step", "batch"}
    BY <1>6 DEF Where
  <1>20. Training
    BY DEF HandOK, OverflowEffect
  <1> QED
    BY <1>5, <1>6, <1>7, <1>20, LocalTyped, DiskTyped

LEMMA AcceptType == ASSUME StepsTypeOK, HandOK, NEW r \in Ranks, AcceptEffect(r) PROVE TypeInv'
  <1>1. IsState(r, st[r])
    BY DEF StepsTypeOK
  <1>2. NoCount \in Tally
    BY DEF NoCount, Tally
  <1>3. st'[r].scale \in Nat /\ st'[r].streak \in Nat /\ st'[r].lr \in Nat
    <2>1. /\ st'[r].streak = IF setup.fp16 /\ ~Grown(st[r]) THEN st[r].streak + 1 ELSE 0
          /\ st'[r].scale = IF Grown(st[r]) THEN st[r].scale + 1 ELSE st[r].scale
          /\ st'[r].lr = st[r].lr + 1
      BY DEF AcceptEffect
    <2>2. st[r].scale \in Nat /\ st[r].streak \in Nat /\ st[r].lr \in Nat
      BY <1>1 DEF IsState, IsKept
    <2> QED
      BY <2>1, <2>2
  <1>4. st'[r].model \in Seq(SUBSET Entry)
    <2>1. st[r].model \in Seq(SUBSET Entry) /\ st[r].grads \in SUBSET Entry
      BY <1>1 DEF IsState, IsKept
    <2> QED
      BY <2>1, AppendIs DEF AcceptEffect
  <1>5. st'[r].bag \in Tally /\ st'[r].original \in Tally
    BY <1>1, <1>2 DEF IsState, AcceptEffect
  <1>6. IsState(r, st'[r])
    BY <1>1, <1>3, <1>4, <1>5 DEF IsState, IsKept, SameData, SameGrads, AcceptEffect
  <1>7. Domains /\ Others(r) /\ Job /\ Disk /\ pc'[r] = "post"
    BY DEF AcceptEffect
  <1>8. pc'[r] \in Where /\ pc'[r] \notin {"step", "batch"}
    BY <1>7 DEF Where
  <1>20. Training
    BY DEF HandOK, AcceptEffect
  <1> QED
    BY <1>6, <1>7, <1>8, <1>20, LocalTyped, DiskTyped

LEMMA PostStepType == ASSUME StepsTypeOK, HandOK, NEW r \in Ranks, PostStepEffect(r) PROVE TypeInv'
  <1>1. IsState(r, st[r])
    BY DEF StepsTypeOK
  <1>2. IsKept(r, Keep(st[r])) /\ Keep(st[r]).total \in Int
    <2>1. st[r].bag.total \in Int
      BY <1>1 DEF IsState, Tally
      <2> QED
      BY <1>1, <2>1, KeepIs DEF IsState, IsKept
  <1>3. /\ DOMAIN snaps = Ranks /\ DOMAIN whole = Ranks
        /\ \A q \in Ranks : /\ IsKept(q, snaps[q]) /\ snaps[q].total \in Int
                            /\ IsKept(q, whole[q]) /\ whole[q].total \in Int
    BY DEF StepsTypeOK
  <1>4. DOMAIN snaps' = Ranks /\ \A q \in Ranks : IsKept(q, snaps'[q]) /\ snaps'[q].total \in Int
    <2>1. CASE snaps' = snaps
      BY <1>3, <2>1
    <2>2. CASE snaps' = [snaps EXCEPT ![r] = Keep(st[r])]
      BY <1>2, <1>3, <2>2
    <2> QED
      BY <2>1, <2>2 DEF PostStepEffect
  <1>5. DOMAIN whole' = Ranks /\ \A q \in Ranks : IsKept(q, whole'[q]) /\ whole'[q].total \in Int
    BY <1>3, <1>4 DEF PostStepEffect
  <1>6. pc'[r] \in {"metrics", "load"} /\ st'[r] = st[r]
    BY DEF PostStepEffect
  <1>7. Domains /\ Others(r) /\ Job
    BY DEF PostStepEffect
  <1>8. pc'[r] \in Where /\ pc'[r] \notin {"step", "batch"}
    BY <1>6 DEF Where
  <1>9. KeptTyped
    BY <1>4, <1>5 DEF KeptTyped
  <1>20. Training
    BY DEF HandOK, PostStepEffect
  <1> QED
    BY <1>1, <1>6, <1>7, <1>8, <1>9, <1>20, LocalTyped

\* A collective: what changes of the types is what a rank is given.
LEMMA TogetherTyped ==
    ASSUME StepsTypeOK, Domains, Job, Disk, Typed, HandOK'
    PROVE  TypeInv'
  <1>1. setup' = setup /\ jobKills' \in Nat
    BY DEF Job, StepsTypeOK
  <1>2. StepsTypeOK'
    BY <1>1, TypedIs
  <1> QED
    BY <1>2 DEF TypeInv

LEMMA AfterPassIs ==
    ASSUME NEW s, s.stepNr \in Int, s.passes \in Nat
    PROVE  AfterPass(s) \in {"done", "load", "metrics"}
  BY StepAssumption DEF AfterPass

LEMMA CountType ==
    ASSUME StepsTypeOK, HandOK, CountEffect PROVE TypeInv'
  <1>1. PICK eod \in BOOLEAN, m \in Nat : CountTo(eod, m)
    BY DEF CountEffect
  <1>2. ASSUME NEW r \in Ranks
        PROVE  /\ pc'[r] \in Where /\ IsState(r, st'[r])
               /\ Training /\ pc'[r] \in {"step", "batch"} => st'[r].batches # <<>>
               /\ ~Training => pc'[r] \in {"step", "metrics"}
    <2>1. /\ IsState(r, st[r]) /\ m <= Len(st[r].batches) /\ st[r].batches \in Seq(1..Len(Shard(r)))
          /\ Len(st[r].batches) \in Nat
      BY <1>1 DEF CountTo, StepsTypeOK, IsState
    <2>2. CASE eod
      <3>1. st'[r].batches = <<>> /\ st'[r].ran = <<>> /\ st'[r].read = 0
            /\ st'[r].passes = st[r].passes + 1
        BY <1>1, <2>2 DEF CountTo
      <3>2. st'[r].batches \in Seq(1..Len(Shard(r))) /\ st'[r].ran \in Seq(Nat)
        BY <3>1
      <3>3. Len(Shard(r)) \in Nat
        BY SetupIs
      <3>4. IsState(r, st'[r])
        <4>1. DOMAIN st'[r] = Fields /\ SameGrads(st[r], st'[r]) /\ SameBags(st[r], st'[r])
              /\ SameStep(st[r], st'[r])
          BY <1>1, <2>2 DEF CountTo
        <4>2. st'[r].passes \in Nat /\ st'[r].read \in 0..Len(Shard(r))
          <5>1. st[r].passes \in Nat
            BY <2>1 DEF IsState, IsKept
          <5> QED
            BY <3>1, <3>3, <5>1
        <4> QED
          BY <2>1, <3>2, <4>1, <4>2 DEF IsState, IsKept, SameStep, SameGrads, SameBags
      <3>5. pc'[r] = IF Training THEN AfterPass(st[r]) ELSE "metrics"
        BY <1>1, <2>2 DEF CountTo
      <3>6. AfterPass(st[r]) \in {"done", "load", "metrics"}
        BY <2>1, AfterPassIs DEF IsState, IsKept
      <3>7. pc'[r] \in {"done", "load", "metrics"} /\ (~Training => pc'[r] = "metrics")
        BY <3>5, <3>6
      <3> QED
        BY <3>4, <3>7 DEF Where
    <2>3. CASE ~eod
      <3>1. pc'[r] = "step" /\ (Training => m # 0)
        BY <1>1, <2>3, SetupIs DEF CountTo
      <3> DEFINE b == st[r].batches
                 c == st'[r].batches
      <3>2. c = b \/ c = SubSeq(b, 1, m)
        BY <1>1, <2>3, SetupIs DEF CountTo
      <3>3. c \in Seq(1..Len(Shard(r))) /\ Len(c) >= m
        <4>1. b \in Seq(1..Len(Shard(r))) /\ m \in 0..Len(b)
          BY <2>1
        <4> HIDE DEF b, c
        <4> QED
          BY <3>2, <4>1, CutIs
      <3>4. Training => c # <<>>
        <4> HIDE DEF b, c
        <4> QED
          BY <3>1, <3>3
      <3>5. IsState(r, st'[r])
        BY <1>1, <2>1, <2>3, <3>3
        DEF CountTo, IsState, IsKept, SameModel, SameStep, SameGrads, SameBags
      <3> QED
        BY <3>1, <3>4, <3>5 DEF Where
    <2> QED
      BY <2>2, <2>3
  <1>3. Domains /\ Job /\ Disk
    BY <1>1 DEF CountTo
  <1>4. HandOK'
    BY <1>2, <1>3 DEF HandOK, Training, Job
  <1> QED
    BY <1>2, <1>3, <1>4, TogetherTyped DEF Typed

LEMMA ReduceType == ASSUME StepsTypeOK, HandOK, ReduceEffect PROVE TypeInv'
  <1>1. ASSUME NEW r \in Ranks
        PROVE  /\ Training /\ pc'[r] \in {"batch", "normalize", "unscale", "norms"}
               /\ IsState(r, st'[r]) /\ (pc'[r] = "batch" => st'[r].batches # <<>>)
    <2>1. IsState(r, st[r]) /\ \A q \in Ranks : st[q].grads \in SUBSET Entry
      BY DEF StepsTypeOK, IsState
    <2>2. Training
      BY DEF ReduceEffect, HandOK
    <2>3. st'[r].grads \in SUBSET Entry
      <3>1. st'[r].grads = UNION {st[q].grads : q \in Ranks}
        BY DEF ReduceEffect
      <3> HIDE DEF Entry
      <3> QED
        BY <2>1, <3>1
    <2>4. /\ DOMAIN st'[r] = Fields /\ SameModel(st[r], st'[r]) /\ SameData(st[r], st'[r])
          /\ SameBags(st[r], st'[r]) /\ st'[r].targets = st[r].targets /\ st'[r].inf \in BOOLEAN
      BY DEF ReduceEffect
    <2>5. IsState(r, st'[r])
      BY <2>1, <2>3, <2>4 DEF IsState, IsKept, SameModel, SameStep, SameData, SameBags
    <2>6. pc'[r] \in {"batch", "normalize", "unscale", "norms"}
          /\ (pc'[r] = "batch" => st'[r].batches # <<>>)
      BY DEF ReduceEffect, SameData
    <2> QED
      BY <2>2, <2>5, <2>6
  <1>2. Domains /\ Job /\ Disk
    BY DEF ReduceEffect
  <1>3. HandOK'
    BY <1>1, <1>2 DEF HandOK, Training, Job
  <1>4. Typed
    BY <1>1 DEF Typed, Where, Active, Within
  <1> QED
    BY <1>2, <1>3, <1>4, TogetherTyped

\* A collective that leaves the ranks as they are.
LEMMA StayType ==
    ASSUME StepsTypeOK, HandOK, Domains, Job, Disk, NEW P,
           P \cap {"step", "batch"} = {}, P \subseteq Where,
           \A r \in Ranks : pc'[r] \in P /\ st'[r] = st[r],
           (\E r \in Ranks : ~Training) => P \subseteq {"barrier"}
    PROVE  TypeInv'
  <1>1. Typed
    BY DEF StepsTypeOK, Typed
  <1>2. HandOK'
    BY DEF HandOK, Training, Job
  <1> QED
    BY <1>1, <1>2, TogetherTyped

LEMMA NormalizeType == ASSUME StepsTypeOK, HandOK, NormalizeEffect PROVE TypeInv'
  <1> DEFINE P == {"unscale", "norms"}
  <1>1. Domains /\ Job /\ Disk /\ \A r \in Ranks : pc'[r] \in P /\ st'[r] = st[r]
    BY DEF NormalizeEffect
  <1>2. \A r \in Ranks : Training
    BY DEF NormalizeEffect, HandOK
  <1>3. P \cap {"step", "batch"} = {} /\ P \subseteq Where
    BY DEF Where, Active, Within
  <1> HIDE DEF P
  <1> QED
    BY <1>1, <1>2, <1>3, StayType

LEMMA NormsType == ASSUME StepsTypeOK, HandOK, NormsEffect PROVE TypeInv'
  <1> DEFINE P == {"update"}
  <1>1. Domains /\ Job /\ Disk /\ \A r \in Ranks : pc'[r] \in P /\ st'[r] = st[r]
    BY DEF NormsEffect
  <1>2. \A r \in Ranks : Training
    BY DEF NormsEffect, HandOK
  <1>3. P \cap {"step", "batch"} = {} /\ P \subseteq Where
    BY DEF Where, Active
  <1> HIDE DEF P
  <1> QED
    BY <1>1, <1>2, <1>3, StayType

LEMMA PublishType == ASSUME StepsTypeOK, HandOK, PublishEffect PROVE TypeInv'
  <1> DEFINE P == {"barrier"}
  <1>1. Domains /\ Job /\ Disk /\ \A r \in Ranks : pc'[r] \in P /\ st'[r] = st[r]
    BY DEF PublishEffect
  <1>2. P \cap {"step", "batch"} = {} /\ P \subseteq Where /\ P \subseteq {"barrier"}
    BY DEF Where
  <1> HIDE DEF P
  <1> QED
    BY <1>1, <1>2, StayType

LEMMA UnscaleType == ASSUME StepsTypeOK, HandOK, UnscaleEffect PROVE TypeInv'
  <1>1. ASSUME NEW r \in Ranks
        PROVE  Training /\ pc'[r] = "norms" /\ IsState(r, st'[r])
    <2>1. IsState(r, st[r])
      BY DEF StepsTypeOK
    <2>2. Training /\ pc'[r] = "norms"
      BY DEF UnscaleEffect, HandOK
    <2>3. /\ DOMAIN st'[r] = Fields /\ SameModel(st[r], st'[r]) /\ SameData(st[r], st'[r])
          /\ SameBags(st[r], st'[r]) /\ st'[r].targets = st[r].targets /\ st'[r].inf \in BOOLEAN
          /\ st'[r].grads = st[r].grads
      BY DEF UnscaleEffect
    <2>4. IsState(r, st'[r])
      BY <2>1, <2>3 DEF IsState, IsKept, SameModel, SameStep, SameData, SameBags
    <2> QED
      BY <2>2, <2>4
  <1>2. Domains /\ Job /\ Disk
    BY DEF UnscaleEffect
  <1>3. HandOK'
    BY <1>1, <1>2 DEF HandOK, Training, Job
  <1>4. Typed
    BY <1>1 DEF Typed, Where, Active, Within
  <1> QED
    BY <1>2, <1>3, <1>4, TogetherTyped

LEMMA BarrierType == ASSUME StepsTypeOK, HandOK, BarrierEffect PROVE TypeInv'
  <1>1. ASSUME NEW r \in Ranks
        PROVE  /\ pc'[r] \in {"load", "done"} /\ IsState(r, st'[r])
    <2>1. IsState(r, st[r])
      BY DEF StepsTypeOK
    <2>2. pc'[r] \in {"load", "done"}
      BY DEF BarrierEffect
    <2>3. st'[r].bag \in Tally
      <3>1. st[r].bag \in Tally /\ st'[r].bag = [st[r].bag EXCEPT !.now = 0]
        BY <2>1 DEF BarrierEffect, IsState
      <3> QED
        BY <3>1, CountedIs
    <2>4. /\ DOMAIN st'[r] = Fields /\ SameData(st[r], st'[r]) /\ SameGrads(st[r], st'[r])
          /\ st'[r].stepNr = st[r].stepNr /\ st'[r].passes = st[r].passes
          /\ st'[r].scale = st[r].scale /\ st'[r].streak = st[r].streak
          /\ st'[r].lr = st[r].lr /\ st'[r].model = st[r].model
          /\ st'[r].since = st[r].stepNr /\ st'[r].original = st[r].original
      BY DEF BarrierEffect
    <2>5. IsState(r, st'[r])
      BY <2>1, <2>3, <2>4 DEF IsState, IsKept, SameData, SameGrads
    <2> QED
      BY <2>2, <2>5
  <1>2. Domains /\ Job /\ Disk
    BY DEF BarrierEffect
  <1>3. HandOK'
    BY <1>1, <1>2 DEF HandOK, Training, Job
  <1>4. Typed
    BY <1>1 DEF Typed, Where
  <1> QED
    BY <1>2, <1>3, <1>4, TogetherTyped

LEMMA BeginType ==
    ASSUME NEW r, NEW k, IsKept(r, k), k.total \in Int
    PROVE  IsState(r, Begin(k))
  <1> DEFINE b == Begin(k)
  <1>1. /\ DOMAIN b = Fields
        /\ b.stepNr = k.stepNr /\ b.read = k.read /\ b.passes = k.passes
        /\ b.scale = k.scale /\ b.streak = k.streak /\ b.lr = k.lr
        /\ b.model = k.model /\ b.batches = <<>> /\ b.targets = 0 /\ b.grads = {}
        /\ b.inf = FALSE /\ b.bag = [now |-> 0, total |-> k.total] /\ b.original = NoCount
        /\ b.ran = k.ran /\ b.since = k.stepNr
    BY BeginIs
  <1> HIDE DEF b
  <1>2. NoCount \in Tally /\ [now |-> 0, total |-> k.total] \in Tally
    BY DEF NoCount, Tally
  <1>3. b.bag \in Tally /\ b.original \in Tally /\ b.inf \in BOOLEAN
    BY <1>1, <1>2
  <1>4. IsState(r, b)
    BY <1>1, <1>3 DEF IsState, IsKept
  <1> QED
    BY <1>4 DEF b

LEMMA KillJobType == ASSUME StepsTypeOK, HandOK, KillJobEffect PROVE TypeInv'
  <1>1. ASSUME NEW r \in Ranks
        PROVE  pc'[r] \in {"load", "done"} /\ IsState(r, st'[r])
    BY BeginType DEF StepsTypeOK, KillJobEffect
  <1>2. /\ Domains /\ setup' = setup /\ jobKills' \in Nat /\ Training
        /\ snaps' = whole /\ whole' = whole
    BY DEF KillJobEffect, StepsTypeOK
  <1>3. HandOK'
    BY <1>1, <1>2 DEF HandOK, Training
  <1>4. Typed
    BY <1>1 DEF Typed, Where
  <1> QED
    BY <1>2, <1>3, <1>4, TypedIs DEF TypeInv

LocalEffect(r) ==
    \/ LoadEffect(r) \/ BeginStepEffect(r) \/ RunBatchEffect(r) \/ OverflowEffect(r)
    \/ AcceptEffect(r) \/ PostStepEffect(r)

CollectiveEffect ==
    \/ CountEffect \/ ReduceEffect \/ NormalizeEffect \/ UnscaleEffect \/ NormsEffect
    \/ PublishEffect \/ BarrierEffect

\* Every step is one of those effects: all proofs below go by this lemma.
LEMMA NextDoes ==
    ASSUME StepsTypeOK, StepsNext
    PROVE  (\E r \in Ranks : LocalEffect(r)) \/ CollectiveEffect \/ KillJobEffect
  <1>1. ASSUME NEW r \in Ranks, Local(r) PROVE LocalEffect(r)
    BY <1>1, LoadDoes, BeginStepDoes, RunBatchDoes, OverflowDoes, AcceptDoes, PostStepDoes
    DEF Local, LocalEffect
  <1>2. ASSUME Collective PROVE CollectiveEffect
    BY <1>2, SetupIs, CountDoes, ReduceDoes, NormalizeDoes, UnscaleDoes, NormsDoes, PublishDoes,
       BarrierDoes
    DEF Collective, CollectiveEffect
  <1>3. ASSUME KillJob PROVE KillJobEffect
    BY <1>3, KillJobDoes
  <1> QED
    BY <1>1, <1>2, <1>3 DEF StepsNext

LEMMA TypeNext == ASSUME TypeInv, [StepsNext]_stepVars PROVE TypeInv'
  <1>1. CASE UNCHANGED stepVars
    <2>1. /\ setup' = setup /\ jobKills' = jobKills /\ pc' = pc /\ st' = st
          /\ snaps' = snaps /\ whole' = whole
      BY <1>1 DEF stepVars
    <2>2. Domains /\ Typed /\ Disk /\ jobKills' \in Nat
      BY <2>1 DEF TypeInv, StepsTypeOK, Domains, Typed, Disk
    <2>3. StepsTypeOK'
      BY <2>1, <2>2, TypedIs DEF TypeInv
    <2>4. HandOK'
      BY <2>1 DEF TypeInv, HandOK, Training
    <2> QED
      BY <2>3, <2>4 DEF TypeInv
  <1>2. CASE StepsNext
    <2>1. ASSUME NEW r \in Ranks, LocalEffect(r) PROVE TypeInv'
      BY <2>1, LoadType, BeginStepType, RunBatchType, OverflowType, AcceptType, PostStepType
      DEF LocalEffect, TypeInv
    <2>2. ASSUME CollectiveEffect PROVE TypeInv'
      BY <2>2, CountType, ReduceType, NormalizeType, UnscaleType, NormsType, PublishType,
         BarrierType
      DEF CollectiveEffect, TypeInv
    <2>3. ASSUME KillJobEffect PROVE TypeInv'
      BY <2>3, KillJobType DEF TypeInv
    <2> QED
      BY <1>2, <2>1, <2>2, <2>3, NextDoes DEF TypeInv
  <1> QED
    BY <1>1, <1>2

\* Every variable keeps its type: a loss scale stays at the minimum or above, a position
\* within the shard.
THEOREM TypeCorrect == StepsSpec => []StepsTypeOK
  <1>1. TypeInv => StepsTypeOK
    BY DEF TypeInv
  <1>2. TypeInv /\ [StepsNext]_stepVars => TypeInv'
    BY TypeNext
  <1> QED
    BY <1>1, <1>2, TypeInit, PTL DEF StepsSpec

-----------------------------------------------------------------------------
(***************************************************************************)
(* The ranks agree.                                                        *)
(***************************************************************************)
\* From an update on, every rank goes its way up to the next read; from a read on, up
\* to the next update.
Settling == {"load", "count", "update", "post", "metrics", "failed"}

PhaseOK ==
    \/ \A r \in Ranks : pc[r] \in Settling
    \/ Training /\ \A r \in Ranks : pc[r] \in {"step"} \cup Within
    \/ ~Training /\ \A r \in Ranks : pc[r] \in {"step", "load", "count"}
    \/ Meet("barrier") \/ Meet("done")

\* What a rank holds of the replica when it has made the step, or the decision, that it
\* is about to make.
Ahead(r) ==
    LET s == st[r] IN
    [stepNr |-> IF pc[r] = "step" THEN s.stepNr + 1
                ELSE IF pc[r] = "update" /\ s.inf THEN s.stepNr - 1 ELSE s.stepNr,
     passes |-> s.passes,
     scale  |-> IF pc[r] # "update" THEN s.scale
                ELSE IF s.inf THEN s.scale - 1
                ELSE IF Grown(s) THEN s.scale + 1 ELSE s.scale,
     streak |-> IF pc[r] # "update" THEN s.streak
                ELSE IF ~s.inf /\ setup.fp16 /\ ~Grown(s) THEN s.streak + 1 ELSE 0,
     lr     |-> IF pc[r] = "update" /\ ~s.inf THEN s.lr + 1 ELSE s.lr,
     model  |-> IF pc[r] = "update" /\ ~s.inf THEN Append(s.model, s.grads) ELSE s.model,
     since  |-> s.since]

AheadOK == \A r, q \in Ranks : pc[r] # "failed" /\ pc[q] # "failed" => Ahead(r) = Ahead(q)

\* The gradient is one, and after the last reduction they know alike whether it overflowed.
GradsOK ==
    \A r, q \in Ranks :
        /\ {pc[r], pc[q]} \subseteq {"normalize", "unscale", "norms"} =>
             /\ st[r].grads = st[q].grads
             /\ ~setup.sharded => (st[r].inf <=> st[q].inf)
        /\ pc[r] = "norms" /\ pc[q] = "norms" => (st[r].inf <=> st[q].inf)

\* Ahead by cases, so that no proof has to expand it.
LEMMA AheadIs ==
    ASSUME NEW r
    PROVE  /\ pc[r] \notin {"step", "update"} =>
                Ahead(r) = [stepNr |-> st[r].stepNr, passes |-> st[r].passes,
                            scale |-> st[r].scale, streak |-> st[r].streak, lr |-> st[r].lr,
                            model |-> st[r].model, since |-> st[r].since]
           /\ pc[r] = "step" =>
                Ahead(r) = [stepNr |-> st[r].stepNr + 1, passes |-> st[r].passes,
                            scale |-> st[r].scale, streak |-> st[r].streak, lr |-> st[r].lr,
                            model |-> st[r].model, since |-> st[r].since]
           /\ pc[r] = "update" /\ st[r].inf =>
                Ahead(r) = [stepNr |-> st[r].stepNr - 1, passes |-> st[r].passes,
                            scale |-> st[r].scale - 1, streak |-> 0, lr |-> st[r].lr,
                            model |-> st[r].model, since |-> st[r].since]
           /\ pc[r] = "update" /\ ~st[r].inf =>
                Ahead(r) = [stepNr |-> st[r].stepNr, passes |-> st[r].passes,
                            scale |-> IF Grown(st[r]) THEN st[r].scale + 1 ELSE st[r].scale,
                            streak |-> IF setup.fp16 /\ ~Grown(st[r]) THEN st[r].streak + 1 ELSE 0,
                            lr |-> st[r].lr + 1,
                            model |-> Append(st[r].model, st[r].grads), since |-> st[r].since]
  BY DEF Ahead

LEMMA AheadIsThen ==
    ASSUME NEW r
    PROVE  pc'[r] \notin {"step", "update"} =>
             Ahead(r)' = [stepNr |-> st'[r].stepNr, passes |-> st'[r].passes,
                          scale |-> st'[r].scale, streak |-> st'[r].streak, lr |-> st'[r].lr,
                          model |-> st'[r].model, since |-> st'[r].since]
  BY DEF Ahead

\* A step of one rank does not change where it is heading, unless it fails.
LEMMA LocalAhead ==
    ASSUME StepsTypeOK, HandOK, NEW r \in Ranks, LocalEffect(r)
    PROVE  /\ Domains /\ Others(r) /\ Job
           /\ pc[r] # "failed"
           /\ pc'[r] = "failed" \/ Ahead(r)' = Ahead(r)
           /\ pc'[r] \notin {"normalize", "unscale", "norms"}
           /\ \A q \in Ranks \ {r} : Ahead(q)' = Ahead(q)
  <1>1. ASSUME Domains, Others(r), Job, NEW q \in Ranks \ {r} PROVE Ahead(q)' = Ahead(q)
    <2>1. pc'[q] = pc[q] /\ st'[q] = st[q] /\ setup' = setup
      BY <1>1 DEF Others, Job
    <2> QED
      BY <2>1 DEF Ahead, Grown
  <1>2. CASE LoadEffect(r)
    <2>1. pc[r] = "load" /\ pc'[r] = "count" /\ SameModel(st[r], st'[r])
      BY <1>2 DEF LoadEffect
    <2>2. Ahead(r)' = Ahead(r)
      BY <2>1, AheadIs, AheadIsThen DEF SameModel, SameStep
    <2> QED
      BY <1>1, <1>2, <2>1, <2>2 DEF LoadEffect
  <1>3. CASE BeginStepEffect(r)
    <2>1. /\ pc[r] = "step" /\ pc'[r] \in {"batch", "load"}
          /\ st'[r].stepNr = st[r].stepNr + 1 /\ st'[r].passes = st[r].passes
          /\ st'[r].scale = st[r].scale /\ st'[r].streak = st[r].streak
          /\ st'[r].lr = st[r].lr /\ st'[r].model = st[r].model /\ st'[r].since = st[r].since
      BY <1>3 DEF BeginStepEffect
    <2>2. Ahead(r)' = Ahead(r)
      BY <2>1, AheadIs, AheadIsThen
    <2> QED
      BY <1>1, <1>3, <2>1, <2>2 DEF BeginStepEffect
  <1>4. CASE RunBatchEffect(r)
    <2>1. pc[r] = "batch" /\ pc'[r] \in {"batch", "reduce"} /\ SameModel(st[r], st'[r])
      BY <1>4 DEF RunBatchEffect
    <2>2. Ahead(r)' = Ahead(r)
      BY <2>1, AheadIs, AheadIsThen DEF SameModel, SameStep
    <2> QED
      BY <1>1, <1>4, <2>1, <2>2 DEF RunBatchEffect
  <1>5. CASE OverflowEffect(r)
    <2>1. /\ pc[r] = "update" /\ st[r].inf /\ pc'[r] \in {"failed", "load"}
          /\ st'[r].passes = st[r].passes /\ st'[r].streak = 0 /\ st'[r].lr = st[r].lr
          /\ st'[r].model = st[r].model /\ st'[r].since = st[r].since
          /\ pc'[r] = "load" => /\ st'[r].stepNr = st[r].stepNr - 1
                                /\ st'[r].scale = st[r].scale - 1
      BY <1>5 DEF OverflowEffect
    <2>2. pc'[r] = "load" => Ahead(r)' = Ahead(r)
      BY <2>1, AheadIs, AheadIsThen
    <2> QED
      BY <1>1, <1>5, <2>1, <2>2 DEF OverflowEffect
  <1>6. CASE AcceptEffect(r)
    <2>1. /\ pc[r] = "update" /\ ~st[r].inf /\ pc'[r] = "post"
          /\ st'[r].stepNr = st[r].stepNr /\ st'[r].passes = st[r].passes
          /\ st'[r].streak = IF setup.fp16 /\ ~Grown(st[r]) THEN st[r].streak + 1 ELSE 0
          /\ st'[r].scale = IF Grown(st[r]) THEN st[r].scale + 1 ELSE st[r].scale
          /\ st'[r].model = Append(st[r].model, st[r].grads) /\ st'[r].lr = st[r].lr + 1
          /\ st'[r].since = st[r].since
      BY <1>6 DEF AcceptEffect
    <2> DEFINE scale  == IF Grown(st[r]) THEN st[r].scale + 1 ELSE st[r].scale
               streak == IF setup.fp16 /\ ~Grown(st[r]) THEN st[r].streak + 1 ELSE 0
               model  == Append(st[r].model, st[r].grads)
               lr     == st[r].lr + 1
    <2>3. Ahead(r) = [stepNr |-> st[r].stepNr, passes |-> st[r].passes, scale |-> scale,
                      streak |-> streak, lr |-> lr, model |-> model, since |-> st[r].since]
      BY <2>1, AheadIs
    <2>4. Ahead(r)' = [stepNr |-> st'[r].stepNr, passes |-> st'[r].passes,
                       scale |-> st'[r].scale, streak |-> st'[r].streak, lr |-> st'[r].lr,
                       model |-> st'[r].model, since |-> st'[r].since]
      BY <2>1, AheadIsThen
    <2>5. /\ st'[r].stepNr = st[r].stepNr /\ st'[r].passes = st[r].passes
          /\ st'[r].streak = streak /\ st'[r].scale = scale /\ st'[r].model = model
          /\ st'[r].lr = lr /\ st'[r].since = st[r].since
      BY <2>1
    <2> HIDE DEF scale, streak, model, lr
    <2>2. Ahead(r)' = Ahead(r)
      BY ONLY <2>3, <2>4, <2>5
    <2> QED
      BY <1>1, <1>6, <2>1, <2>2 DEF AcceptEffect
  <1>7. CASE PostStepEffect(r)
    <2>1. pc[r] = "post" /\ pc'[r] \in {"metrics", "load"} /\ st'[r] = st[r]
      BY <1>7 DEF PostStepEffect
    <2>2. Ahead(r)' = Ahead(r)
      BY <2>1, AheadIs, AheadIsThen
    <2> QED
      BY <1>1, <1>7, <2>1, <2>2 DEF PostStepEffect
  <1> QED
    BY <1>2, <1>3, <1>4, <1>5, <1>6, <1>7 DEF LocalEffect

LEMMA LocalAheadOK ==
    ASSUME StepsTypeOK, HandOK, AheadOK, GradsOK, NEW r \in Ranks, LocalEffect(r)
    PROVE  AheadOK' /\ GradsOK'
  <1>1. /\ Others(r) /\ Job /\ pc[r] # "failed"
        /\ pc'[r] = "failed" \/ Ahead(r)' = Ahead(r)
        /\ pc'[r] \notin {"normalize", "unscale", "norms"}
        /\ \A q \in Ranks \ {r} : Ahead(q)' = Ahead(q)
    BY LocalAhead
  <1>2. AheadOK'
    BY <1>1 DEF AheadOK, Others
  <1>3. GradsOK'
    BY <1>1 DEF GradsOK, Others, Job
  <1> QED
    BY <1>2, <1>3

\* Fieldwise.
Alike(s, t) ==
    /\ s.stepNr = t.stepNr /\ s.passes = t.passes /\ s.scale = t.scale
    /\ s.streak = t.streak /\ s.lr = t.lr /\ s.model = t.model

LEMMA AlikeIs ==
    ASSUME AheadOK, NEW r \in Ranks, NEW q \in Ranks,
           pc[r] \notin {"step", "update", "failed"}, pc[q] \notin {"step", "update", "failed"}
    PROVE  Alike(st[r], st[q]) /\ st[r].since = st[q].since
  <1>1. Ahead(r) = Ahead(q)
    BY DEF AheadOK
  <1> QED
    BY <1>1, AheadIs DEF Alike

\* Ranks in the same place that hold the same are heading for the same.
LEMMA SameAhead ==
    ASSUME NEW r \in Ranks, NEW q \in Ranks, pc[r] = pc[q], Alike(st[r], st[q]),
           st[r].since = st[q].since,
           pc[r] = "update" => st[r].grads = st[q].grads /\ (st[r].inf <=> st[q].inf)
    PROVE  Ahead(r) = Ahead(q)
  <1>1. CASE pc[r] \notin {"step", "update"}
    BY <1>1, AheadIs DEF Alike
  <1> DEFINE next == st[r].stepNr + 1
             last == st[r].stepNr - 1
             less == st[r].scale - 1
  <1>5. /\ next = st[q].stepNr + 1 /\ last = st[q].stepNr - 1 /\ less = st[q].scale - 1
        /\ next = st[r].stepNr + 1 /\ last = st[r].stepNr - 1 /\ less = st[r].scale - 1
    BY DEF Alike
  <1> HIDE DEF next, last, less
  <1>2. CASE pc[r] = "step"
    <2>1. Ahead(r) = [stepNr |-> next, passes |-> st[r].passes,
                            scale |-> st[r].scale, streak |-> st[r].streak, lr |-> st[r].lr,
                            model |-> st[r].model, since |-> st[r].since]
      BY <1>2, <1>5, AheadIs
    <2>2. Ahead(q) = [stepNr |-> next, passes |-> st[q].passes,
                            scale |-> st[q].scale, streak |-> st[q].streak, lr |-> st[q].lr,
                            model |-> st[q].model, since |-> st[q].since]
      BY <1>2, <1>5, AheadIs
    <2> QED
      BY <2>1, <2>2 DEF Alike
  <1>3. CASE pc[r] = "update" /\ st[r].inf
    <2>1. Ahead(r) = [stepNr |-> last, passes |-> st[r].passes,
                            scale |-> less, streak |-> 0, lr |-> st[r].lr,
                            model |-> st[r].model, since |-> st[r].since]
      BY <1>3, <1>5, AheadIs
    <2>2. Ahead(q) = [stepNr |-> last, passes |-> st[q].passes,
                            scale |-> less, streak |-> 0, lr |-> st[q].lr,
                            model |-> st[q].model, since |-> st[q].since]
      BY <1>3, <1>5, AheadIs
    <2> QED
      BY <2>1, <2>2 DEF Alike
  <1>4. CASE pc[r] = "update" /\ ~st[r].inf
    <2> DEFINE Scale(s)  == IF Grown(s) THEN s.scale + 1 ELSE s.scale
               Streak(s) == IF setup.fp16 /\ ~Grown(s) THEN s.streak + 1 ELSE 0
               Model(s)  == Append(s.model, s.grads)
               Lr(s)     == s.lr + 1
    <2>1. Grown(st[r]) <=> Grown(st[q])
      BY DEF Grown, Alike
    <2>2. /\ Scale(st[r]) = Scale(st[q]) /\ Streak(st[r]) = Streak(st[q])
          /\ Model(st[r]) = Model(st[q]) /\ Lr(st[r]) = Lr(st[q])
      BY <1>4, <2>1 DEF Alike
    <2>3. Ahead(r) = [stepNr |-> st[r].stepNr, passes |-> st[r].passes, scale |-> Scale(st[r]),
                      streak |-> Streak(st[r]), lr |-> Lr(st[r]), model |-> Model(st[r]),
                      since |-> st[r].since]
      BY <1>4, AheadIs
    <2>4. Ahead(q) = [stepNr |-> st[q].stepNr, passes |-> st[q].passes, scale |-> Scale(st[q]),
                      streak |-> Streak(st[q]), lr |-> Lr(st[q]), model |-> Model(st[q]),
                      since |-> st[q].since]
      BY <1>4, AheadIs
    <2>5. /\ st[r].stepNr = st[q].stepNr /\ st[r].passes = st[q].passes
          /\ st[r].since = st[q].since
      BY DEF Alike
    <2> HIDE DEF Scale, Streak, Model, Lr
    <2> QED
      BY ONLY <2>2, <2>3, <2>4, <2>5
  <1> QED
    BY <1>1, <1>2, <1>3, <1>4

Uniform ==
    \A r, q \in Ranks :
        /\ pc[r] = pc[q] /\ Alike(st[r], st[q]) /\ st[r].since = st[q].since
        /\ pc[r] = "update" => st[r].grads = st[q].grads /\ (st[r].inf <=> st[q].inf)

LEMMA UniformAhead == Uniform => AheadOK
  BY SameAhead DEF Uniform, AheadOK

\* What ranks that have met hold.
LEMMA MetAlike ==
    ASSUME AheadOK, NEW p, p \notin {"step", "update", "failed"}, \A r \in Ranks : pc[r] = p
    PROVE  \A r, q \in Ranks : Alike(st[r], st[q]) /\ st[r].since = st[q].since
  BY AlikeIs

LEMMA CountAhead ==
    ASSUME StepsTypeOK, AheadOK, CountEffect
    PROVE  AheadOK' /\ GradsOK' /\ PhaseOK'
  <1>1. PICK eod \in BOOLEAN, m \in Nat : CountTo(eod, m)
    BY DEF CountEffect
  <1>2. \A r, q \in Ranks : Alike(st[r], st[q]) /\ st[r].since = st[q].since
    BY <1>1, MetAlike DEF CountTo
  <1>3. Training' <=> Training
    BY <1>1 DEF CountTo, Job, Training
  <1>4. CASE eod
    <2>1. \A r \in Ranks : /\ pc'[r] = IF Training THEN AfterPass(st[r]) ELSE "metrics"
                           /\ SameStep(st[r], st'[r]) /\ st'[r].passes = st[r].passes + 1
      BY <1>1, <1>4 DEF CountTo
    <2>2. \A r, q \in Ranks : AfterPass(st[r]) = AfterPass(st[q])
      BY <1>2 DEF AfterPass, Alike
    <2>3. \A r \in Ranks : AfterPass(st[r]) \in {"done", "load", "metrics"}
      BY AfterPassIs DEF StepsTypeOK, IsState, IsKept
    <2>4. \A r, q \in Ranks : pc'[r] = pc'[q] /\ pc'[r] \in {"done", "load", "metrics"}
      BY <2>1, <2>2, <2>3
    <2>5. \A r, q \in Ranks : Alike(st'[r], st'[q]) /\ st'[r].since = st'[q].since
      BY <1>2, <2>1 DEF Alike, SameStep
    <2>6. Uniform'
      BY <2>4, <2>5 DEF Uniform, Alike
    <2>7. GradsOK' /\ PhaseOK'
      BY <2>4 DEF GradsOK, PhaseOK, Settling, Meet
    <2> QED
      BY <2>6, <2>7, UniformAhead, PTL
  <1>5. CASE ~eod
    <2>1. \A r \in Ranks : pc'[r] = "step" /\ SameModel(st[r], st'[r])
      BY <1>1, <1>5 DEF CountTo
    <2>2. Uniform'
      BY <1>2, <2>1 DEF Uniform, Alike, SameModel, SameStep
    <2>3. GradsOK' /\ PhaseOK'
      BY <1>3, <2>1 DEF GradsOK, PhaseOK
    <2> QED
      BY <2>2, <2>3, UniformAhead, PTL
  <1> QED
    BY <1>4, <1>5

LEMMA ReduceAhead ==
    ASSUME StepsTypeOK, HandOK, AheadOK, ReduceEffect
    PROVE  AheadOK' /\ GradsOK' /\ PhaseOK'
  <1>1. \A r, q \in Ranks : Alike(st[r], st[q]) /\ st[r].since = st[q].since
    BY MetAlike DEF ReduceEffect
  <1>2. \A r \in Ranks : pc'[r] \in {"batch", "normalize", "unscale", "norms"}
                         /\ SameModel(st[r], st'[r])
    BY DEF ReduceEffect
  <1>3. \A r, q \in Ranks : Alike(st'[r], st'[q]) /\ st'[r].since = st'[q].since
    BY <1>1, <1>2 DEF Alike, SameModel, SameStep
  <1>4. AheadOK'
    <2>1. \A r, q \in Ranks : Ahead(r)' = Ahead(q)'
      BY <1>2, <1>3, AheadIsThen DEF Alike
    <2> QED
      BY <2>1 DEF AheadOK
  <1>5. GradsOK'
    <2>1. \A r, q \in Ranks : st'[r].grads = st'[q].grads
      BY DEF ReduceEffect
    <2>2. \A r, q \in Ranks : ~setup.sharded => (st'[r].inf <=> st'[q].inf)
      BY DEF ReduceEffect
    <2>3. \A r \in Ranks : pc'[r] = "norms" => ~setup.sharded
      BY DEF ReduceEffect
    <2>4. setup' = setup
      BY DEF ReduceEffect, Job
    <2> QED
      BY <2>1, <2>2, <2>3, <2>4 DEF GradsOK
  <1>6. PhaseOK'
    <2>1. \A r \in Ranks : Training'
      BY DEF ReduceEffect, HandOK, Training, Job
    <2> QED
      BY <1>2, <2>1 DEF PhaseOK, Within, Settling
  <1> QED
    BY <1>4, <1>5, <1>6

LEMMA NormalizeAhead ==
    ASSUME StepsTypeOK, HandOK, AheadOK, GradsOK, NormalizeEffect
    PROVE  AheadOK' /\ GradsOK' /\ PhaseOK'
  <1>1. \A r, q \in Ranks : Alike(st[r], st[q]) /\ st[r].since = st[q].since
    BY MetAlike DEF NormalizeEffect
  <1>2. \A r \in Ranks : /\ pc[r] = "normalize" /\ st'[r] = st[r]
                         /\ pc'[r] = IF setup.sharded THEN "unscale" ELSE "norms"
    BY DEF NormalizeEffect
  <1>3. Uniform'
    BY <1>1, <1>2 DEF Uniform, Alike
  <1>4. GradsOK'
    <2>1. setup' = setup
      BY DEF NormalizeEffect, Job
    <2> QED
      BY <1>2, <2>1 DEF GradsOK
  <1>5. PhaseOK'
    <2>1. \A r \in Ranks : Training'
      BY DEF NormalizeEffect, HandOK, Training, Job
    <2> QED
      BY <1>2, <2>1 DEF PhaseOK, Within, Settling
  <1> QED
    BY <1>3, <1>4, <1>5, UniformAhead, PTL

LEMMA UnscaleAhead ==
    ASSUME StepsTypeOK, HandOK, AheadOK, GradsOK, UnscaleEffect
    PROVE  AheadOK' /\ GradsOK' /\ PhaseOK'
  <1>1. \A r, q \in Ranks : Alike(st[r], st[q]) /\ st[r].since = st[q].since
    BY MetAlike DEF UnscaleEffect
  <1>2. \A r \in Ranks : /\ pc[r] = "unscale" /\ pc'[r] = "norms" /\ SameModel(st[r], st'[r])
                         /\ st'[r].grads = st[r].grads
    BY DEF UnscaleEffect
  <1>3. Uniform'
    BY <1>1, <1>2 DEF Uniform, Alike, SameModel, SameStep
  <1>4. GradsOK'
    <2>1. \A r, q \in Ranks : st[r].grads = st[q].grads
      BY <1>2 DEF GradsOK
    <2>2. \A r, q \in Ranks : st'[r].inf <=> st'[q].inf
      BY DEF UnscaleEffect
    <2> QED
      BY <1>2, <2>1, <2>2 DEF GradsOK
  <1>5. PhaseOK'
    <2>1. \A r \in Ranks : Training'
      BY DEF UnscaleEffect, HandOK, Training, Job
    <2> QED
      BY <1>2, <2>1 DEF PhaseOK, Within, Settling
  <1> QED
    BY <1>3, <1>4, <1>5, UniformAhead, PTL

LEMMA NormsAhead ==
    ASSUME StepsTypeOK, AheadOK, GradsOK, NormsEffect
    PROVE  AheadOK' /\ GradsOK' /\ PhaseOK'
  <1>1. \A r, q \in Ranks : Alike(st[r], st[q]) /\ st[r].since = st[q].since
    BY MetAlike DEF NormsEffect
  <1>2. \A r \in Ranks : pc[r] = "norms" /\ pc'[r] = "update" /\ st'[r] = st[r]
    BY DEF NormsEffect
  <1>3. \A r, q \in Ranks : st[r].grads = st[q].grads /\ (st[r].inf <=> st[q].inf)
    BY <1>2 DEF GradsOK
  <1>4. Uniform'
    BY <1>1, <1>2, <1>3 DEF Uniform, Alike
  <1>5. GradsOK' /\ PhaseOK'
    BY <1>2 DEF GradsOK, PhaseOK, Settling
  <1> QED
    BY <1>4, <1>5, UniformAhead, PTL

LEMMA PublishAhead ==
    ASSUME StepsTypeOK, AheadOK, PublishEffect
    PROVE  AheadOK' /\ GradsOK' /\ PhaseOK'
  <1>1. \A r, q \in Ranks : Alike(st[r], st[q]) /\ st[r].since = st[q].since
    BY MetAlike DEF PublishEffect
  <1>2. \A r \in Ranks : pc'[r] = "barrier" /\ st'[r] = st[r]
    BY DEF PublishEffect
  <1>3. Uniform'
    BY <1>1, <1>2 DEF Uniform, Alike
  <1>4. GradsOK' /\ PhaseOK'
    BY <1>2 DEF GradsOK, PhaseOK, Meet
  <1> QED
    BY <1>3, <1>4, UniformAhead, PTL

LEMMA BarrierAhead ==
    ASSUME StepsTypeOK, AheadOK, BarrierEffect
    PROVE  AheadOK' /\ GradsOK' /\ PhaseOK'
  <1>1. \A r, q \in Ranks : Alike(st[r], st[q]) /\ st[r].since = st[q].since
    BY MetAlike DEF BarrierEffect
  <1>2. \A r \in Ranks :
            /\ pc'[r] = IF Training /\ st[r].passes < MaxPasses THEN "load" ELSE "done"
            /\ st'[r].stepNr = st[r].stepNr /\ st'[r].passes = st[r].passes
            /\ st'[r].scale = st[r].scale /\ st'[r].streak = st[r].streak
            /\ st'[r].lr = st[r].lr /\ st'[r].model = st[r].model
            /\ st'[r].since = st[r].stepNr
    BY DEF BarrierEffect
  <1>3. \A r, q \in Ranks : pc'[r] = pc'[q] /\ pc'[r] \in {"load", "done"}
    <2>1. \A r, q \in Ranks : st[r].passes = st[q].passes
      BY <1>1 DEF Alike
    <2> QED
      BY <1>2, <2>1
  <1>4. Uniform'
    BY <1>1, <1>2, <1>3 DEF Uniform, Alike
  <1>5. GradsOK' /\ PhaseOK'
    BY <1>3 DEF GradsOK, PhaseOK, Meet, Settling
  <1> QED
    BY <1>4, <1>5, UniformAhead, PTL

\* A resumed job: the parts of the checkpoint agree.
LEMMA KillJobAhead ==
    ASSUME StepsTypeOK, \A r, q \in Ranks : Alike(whole[r], whole[q]), KillJobEffect
    PROVE  AheadOK' /\ GradsOK' /\ PhaseOK'
  <1>1. \A r \in Ranks :
            /\ Alike(st'[r], whole[r]) /\ st'[r].since = whole[r].stepNr
            /\ pc'[r] = IF whole[r].stepNr # 0 /\ whole[r].passes + 1 >= MaxPasses THEN "done"
                        ELSE "load"
    <2> SUFFICES ASSUME NEW r \in Ranks
                 PROVE  Alike(st'[r], whole[r]) /\ st'[r].since = whole[r].stepNr
      BY DEF KillJobEffect
    <2>1. st'[r] = Begin(whole[r])
      BY DEF KillJobEffect
    <2> DEFINE k == whole[r]
    <2>2. Alike(Begin(k), k) /\ Begin(k).since = k.stepNr
      BY BeginIs DEF Alike
    <2> QED
      BY <2>1, <2>2
  <1>2. \A r, q \in Ranks : pc'[r] = pc'[q] /\ pc'[r] \in {"load", "done"}
    <2>1. \A r, q \in Ranks : whole[r].stepNr = whole[q].stepNr /\ whole[r].passes = whole[q].passes
      BY DEF Alike
    <2> QED
      BY <1>1, <2>1
  <1>3. Uniform'
    BY <1>1, <1>2 DEF Uniform, Alike
  <1>4. GradsOK' /\ PhaseOK'
    BY <1>2 DEF GradsOK, PhaseOK, Meet, Settling
  <1> QED
    BY <1>3, <1>4, UniformAhead, PTL

LEMMA LocalPhase ==
    ASSUME StepsTypeOK, HandOK, PhaseOK, NEW r \in Ranks, LocalEffect(r)
    PROVE  PhaseOK'
  <1>1. Others(r) /\ Job
    BY LocalAhead
  <1>2. Training' <=> Training
    BY <1>1 DEF Job, Training
  <1>12. CASE pc[r] = "load" /\ pc'[r] = "count"
    BY <1>1, <1>2, <1>12 DEF PhaseOK, Others, Settling, Within, Meet
  <1>3. CASE pc[r] \in {"update", "post"} /\ pc'[r] \in Settling
    BY <1>1, <1>2, <1>3 DEF PhaseOK, Others, Settling, Within, Meet
  <1>4. CASE pc[r] \in {"step", "batch"} /\ pc'[r] \in {"batch", "reduce"} /\ Training
    BY <1>1, <1>2, <1>4 DEF PhaseOK, Others, Settling, Within, Meet
  <1>5. CASE pc[r] = "step" /\ pc'[r] = "load" /\ ~Training
    BY <1>1, <1>2, <1>5 DEF PhaseOK, Others, Settling, Within, Meet
  <1>6. LoadEffect(r) => pc[r] = "load" /\ pc'[r] = "count"
    BY DEF LoadEffect
  <1>7. BeginStepEffect(r) => pc[r] = "step" /\ pc'[r] = IF Training THEN "batch" ELSE "load"
    BY DEF BeginStepEffect
  <1>8. RunBatchEffect(r) => pc[r] = "batch" /\ pc'[r] \in {"batch", "reduce"} /\ Training
    BY DEF RunBatchEffect, HandOK
  <1>9. OverflowEffect(r) => pc[r] = "update" /\ pc'[r] \in {"failed", "load"}
    BY DEF OverflowEffect
  <1>10. AcceptEffect(r) => pc[r] = "update" /\ pc'[r] = "post"
    BY DEF AcceptEffect
  <1>11. PostStepEffect(r) => pc[r] = "post" /\ pc'[r] \in {"metrics", "load"}
    BY DEF PostStepEffect
  <1> QED
    BY <1>3, <1>4, <1>5, <1>6, <1>7, <1>8, <1>9, <1>10, <1>11, <1>12 DEF LocalEffect, Settling

\* The number of the step counts the updates, but for the one of the step being made;
\* the same holds of what was kept.
Keeps(s) == s.streak < ScaleWindow /\ (Training => s.lr = Len(s.model) /\ s.stepNr = s.lr)

Counts(r) ==
    /\ st[r].streak < ScaleWindow
    /\ Training => /\ st[r].lr = Len(st[r].model)
                   /\ pc[r] \in Active \cup {"failed"} => st[r].stepNr = st[r].lr + 1
                   /\ pc[r] \notin Active \cup {"failed"} => st[r].stepNr = st[r].lr

CountersOK == \A r \in Ranks : Counts(r) /\ Keeps(snaps[r]) /\ Keeps(whole[r])

LEMMA LocalCounts ==
    ASSUME StepsTypeOK, HandOK, NEW r \in Ranks, Counts(r), LocalEffect(r)
    PROVE  Counts(r)'
  <1>1. IsState(r, st[r])
    BY DEF StepsTypeOK
  <1>2. /\ st[r].stepNr \in Int /\ st[r].lr \in Nat /\ st[r].streak \in Nat
        /\ ScaleWindow \in Nat /\ ScaleWindow # 0
    BY <1>1, SetupIs DEF IsState, IsKept
  <1>3. setup' = setup /\ (Training' <=> Training)
    BY LocalAhead DEF Job, Training
  <1>4. ASSUME st'[r].streak = st[r].streak, st'[r].lr = st[r].lr, st'[r].model = st[r].model,
               st'[r].stepNr = st[r].stepNr,
               pc[r] \in Active \cup {"failed"} <=> pc'[r] \in Active \cup {"failed"}
        PROVE  Counts(r)'
    BY <1>3, <1>4 DEF Counts
  <1>5. CASE LoadEffect(r)
    <2>1. pc[r] = "load" /\ pc'[r] = "count" /\ SameModel(st[r], st'[r])
      BY <1>5 DEF LoadEffect
    <2> QED
      BY <1>4, <2>1 DEF SameModel, SameStep, Active, Within
  <1>6. CASE BeginStepEffect(r)
    <2>1. /\ pc[r] = "step" /\ (Training => pc'[r] = "batch")
          /\ st'[r].stepNr = st[r].stepNr + 1 /\ st'[r].streak = st[r].streak
          /\ st'[r].lr = st[r].lr /\ st'[r].model = st[r].model
      BY <1>6 DEF BeginStepEffect
    <2>2. Training => pc'[r] \in Active \cup {"failed"} /\ pc[r] \notin Active \cup {"failed"}
      BY <2>1 DEF Active, Within
    <2> QED
      BY <1>2, <1>3, <2>1, <2>2 DEF Counts
  <1>7. CASE RunBatchEffect(r)
    <2>1. pc[r] = "batch" /\ pc'[r] \in {"batch", "reduce"} /\ SameModel(st[r], st'[r])
      BY <1>7 DEF RunBatchEffect
    <2> QED
      BY <1>4, <2>1 DEF SameModel, SameStep, Active, Within
  <1>8. CASE OverflowEffect(r)
    <2>1. /\ pc[r] = "update" /\ pc'[r] \in {"failed", "load"} /\ st'[r].streak = 0
          /\ st'[r].lr = st[r].lr /\ st'[r].model = st[r].model
          /\ pc'[r] = "failed" => st'[r].stepNr = st[r].stepNr
          /\ pc'[r] = "load" => st'[r].stepNr = st[r].stepNr - 1
      BY <1>8 DEF OverflowEffect
    <2>2. /\ pc[r] \in Active \cup {"failed"} /\ "failed" \in Active \cup {"failed"}
          /\ "load" \notin Active \cup {"failed"}
      BY <2>1 DEF Active, Within
    <2> QED
      BY <1>2, <1>3, <2>1, <2>2 DEF Counts
  <1>9. CASE AcceptEffect(r)
    <2>1. /\ pc[r] = "update" /\ pc'[r] = "post" /\ st'[r].lr = st[r].lr + 1
          /\ st'[r].streak = IF setup.fp16 /\ ~Grown(st[r]) THEN st[r].streak + 1 ELSE 0
          /\ st'[r].model = Append(st[r].model, st[r].grads) /\ st'[r].stepNr = st[r].stepNr
      BY <1>9 DEF AcceptEffect
    <2>2. pc[r] \in Active \cup {"failed"} /\ pc'[r] \notin Active \cup {"failed"}
      BY <2>1 DEF Active, Within
    <2>3. Len(st'[r].model) = Len(st[r].model) + 1
      <3>1. st[r].model \in Seq(SUBSET Entry) /\ st[r].grads \in SUBSET Entry
        BY <1>1 DEF IsState, IsKept
      <3> QED
        BY <2>1, <3>1, AppendIs
    <2>4. st'[r].streak < ScaleWindow
      <3>1. CASE setup.fp16 /\ ~Grown(st[r])
        <4>1. st'[r].streak = st[r].streak + 1 /\ st[r].streak + 1 # ScaleWindow
          BY <2>1, <3>1 DEF Grown
        <4>2. st[r].streak < ScaleWindow
          BY DEF Counts
        <4> QED
          BY <1>2, <4>1, <4>2
      <3>2. CASE ~(setup.fp16 /\ ~Grown(st[r]))
        <4>1. st'[r].streak = 0
          BY <2>1, <3>2
        <4> QED
          BY <1>2, <4>1
      <3> QED
        BY <3>1, <3>2
    <2>5. st[r].lr = Len(st[r].model) => st'[r].lr = Len(st'[r].model)
      BY <2>1, <2>3
    <2>6. st[r].stepNr = st[r].lr + 1 => st'[r].stepNr = st'[r].lr
      BY <2>1
    <2> QED
      BY <1>3, <2>2, <2>4, <2>5, <2>6 DEF Counts
  <1>10. CASE PostStepEffect(r)
    <2>1. pc[r] = "post" /\ pc'[r] \in {"metrics", "load"} /\ st'[r] = st[r]
      BY <1>10 DEF PostStepEffect
    <2> QED
      BY <1>4, <2>1 DEF Active, Within
  <1> QED
    BY <1>5, <1>6, <1>7, <1>8, <1>9, <1>10 DEF LocalEffect

LEMMA LocalCounters ==
    ASSUME StepsTypeOK, HandOK, CountersOK, NEW r \in Ranks, LocalEffect(r)
    PROVE  CountersOK'
  <1>1. Domains /\ Others(r) /\ setup' = setup /\ (Training' <=> Training)
    BY LocalAhead DEF Job, Training
  <1>2. Counts(r)'
    BY LocalCounts DEF CountersOK
  <1>3. ASSUME NEW q \in Ranks, q # r PROVE Counts(q)'
    BY <1>1, <1>3 DEF CountersOK, Counts, Others
  <1>4. ASSUME NEW s, Keeps(s) PROVE Keeps(s)'
    BY <1>1, <1>4 DEF Keeps
  <1>5. CASE Disk
    BY <1>1, <1>2, <1>3, <1>5 DEF CountersOK, Disk, Keeps
  <1>6. CASE PostStepEffect(r)
    <2>1. pc[r] = "post" /\ DOMAIN snaps = Ranks
      BY <1>6 DEF PostStepEffect, StepsTypeOK
    <2>2. Keeps(Keep(st[r]))
      <3>1. Counts(r) /\ pc[r] \notin Active \cup {"failed"}
        BY <2>1 DEF CountersOK, Active, Within
      <3> QED
        BY <3>1, KeepIs DEF Keeps, Counts
    <2>3. \A q \in Ranks : Keeps(snaps'[q])
      BY <1>6, <2>1, <2>2 DEF PostStepEffect, CountersOK
    <2>4. \A q \in Ranks : Keeps(whole'[q])
      BY <1>6, <2>3 DEF PostStepEffect, CountersOK
    <2> QED
      BY <1>1, <1>2, <1>3, <2>3, <2>4 DEF CountersOK, Keeps
  <1> QED
    BY <1>5, <1>6
    DEF LocalEffect, LoadEffect, BeginStepEffect, RunBatchEffect, OverflowEffect, AcceptEffect

\* A collective leaves the counters as they are.
LEMMA TogetherCounters ==
    ASSUME CountersOK, Job, Disk,
           \A r \in Ranks :
              /\ st'[r].streak = st[r].streak /\ st'[r].lr = st[r].lr
              /\ st'[r].model = st[r].model /\ st'[r].stepNr = st[r].stepNr
              /\ pc[r] \in Active \cup {"failed"} <=> pc'[r] \in Active \cup {"failed"}
    PROVE  CountersOK'
  BY DEF CountersOK, Counts, Keeps, Job, Disk, Training

LEMMA CollectiveCounters ==
    ASSUME StepsTypeOK, CountersOK, CollectiveEffect PROVE CountersOK'
  <1> USE DEF Active, Within
  <1>1. CASE CountEffect
    <2>1. PICK eod \in BOOLEAN, m \in Nat : CountTo(eod, m)
      BY <1>1 DEF CountEffect
    <2>2. \A r \in Ranks : AfterPass(st[r]) \in {"done", "load", "metrics"}
      BY AfterPassIs DEF StepsTypeOK, IsState, IsKept
    <2>3. \A r \in Ranks : pc[r] = "count" /\ pc'[r] \in {"step", "done", "load", "metrics"}
      BY <2>1, <2>2 DEF CountTo
    <2>4. \A r \in Ranks : SameStep(st[r], st'[r])
      BY <2>1 DEF CountTo, SameModel
    <2>5. Job /\ Disk
      BY <2>1 DEF CountTo
    <2> QED
      BY <2>3, <2>4, <2>5, TogetherCounters DEF SameStep
  <1>2. CASE ReduceEffect
    <2>1. /\ Job /\ Disk
          /\ \A r \in Ranks : /\ pc[r] = "reduce" /\ SameModel(st[r], st'[r])
                              /\ pc'[r] \in {"batch", "normalize", "unscale", "norms"}
      BY <1>2 DEF ReduceEffect
    <2> QED
      BY <2>1, TogetherCounters DEF SameModel, SameStep
  <1>3. CASE NormalizeEffect
    <2>1. /\ Job /\ Disk
          /\ \A r \in Ranks : /\ pc[r] = "normalize" /\ st'[r] = st[r]
                              /\ pc'[r] \in {"unscale", "norms"}
      BY <1>3 DEF NormalizeEffect
    <2> QED
      BY <2>1, TogetherCounters
  <1>4. CASE UnscaleEffect
    <2>1. /\ Job /\ Disk
          /\ \A r \in Ranks : pc[r] = "unscale" /\ SameModel(st[r], st'[r]) /\ pc'[r] = "norms"
      BY <1>4 DEF UnscaleEffect
    <2> QED
      BY <2>1, TogetherCounters DEF SameModel, SameStep
  <1>5. CASE NormsEffect
    <2>1. /\ Job /\ Disk
          /\ \A r \in Ranks : pc[r] = "norms" /\ st'[r] = st[r] /\ pc'[r] = "update"
      BY <1>5 DEF NormsEffect
    <2> QED
      BY <2>1, TogetherCounters
  <1>6. CASE PublishEffect
    <2>1. /\ Job /\ Disk
          /\ \A r \in Ranks : pc[r] = "metrics" /\ st'[r] = st[r] /\ pc'[r] = "barrier"
      BY <1>6 DEF PublishEffect
    <2> QED
      BY <2>1, TogetherCounters
  <1>7. CASE BarrierEffect
    <2>1. /\ Job /\ Disk
          /\ \A r \in Ranks :
                /\ pc[r] = "barrier" /\ pc'[r] \in {"load", "done"}
                /\ st'[r].stepNr = st[r].stepNr /\ st'[r].streak = st[r].streak
                /\ st'[r].lr = st[r].lr /\ st'[r].model = st[r].model
      BY <1>7 DEF BarrierEffect
    <2> QED
      BY <2>1, TogetherCounters
  <1> QED
    BY <1>1, <1>2, <1>3, <1>4, <1>5, <1>6, <1>7 DEF CollectiveEffect

LEMMA KillJobCounters ==
    ASSUME StepsTypeOK, CountersOK, KillJobEffect PROVE CountersOK'
  <1>1. Training' <=> Training
    BY DEF KillJobEffect, Training
  <1>2. snaps' = whole /\ whole' = whole
    BY DEF KillJobEffect
  <1>3. ASSUME NEW r \in Ranks PROVE Counts(r)'
    <2>1. st'[r] = Begin(whole[r]) /\ pc'[r] \in {"load", "done"} /\ Training
      BY DEF KillJobEffect
    <2> DEFINE k == whole[r]
    <2>2. /\ Begin(k).streak = k.streak /\ Begin(k).lr = k.lr /\ Begin(k).model = k.model
          /\ Begin(k).stepNr = k.stepNr
      BY BeginIs
    <2>3. Keeps(k)
      BY DEF CountersOK
    <2>4. pc'[r] \notin Active \cup {"failed"}
      BY <2>1 DEF Active, Within
    <2> QED
      BY <1>1, <2>1, <2>2, <2>3, <2>4 DEF Counts, Keeps
  <1>4. \A r \in Ranks : Keeps(snaps[r])' /\ Keeps(whole[r])'
    BY <1>1, <1>2 DEF CountersOK, Keeps
  <1> QED
    BY <1>3, <1>4 DEF CountersOK

\* The parts of a checkpoint that bear the same number are one, those of ranks that have
\* yet to write theirs included.
Committing(r) == pc[r] = "post" \/ (pc[r] = "update" /\ ~st[r].inf)

SnapsOK ==
    /\ \A r, q \in Ranks : Alike(whole[r], whole[q])
    /\ \A r, q \in Ranks : snaps[r].stepNr = snaps[q].stepNr => Alike(snaps[r], snaps[q])
    /\ Training => \A r \in Ranks : snaps[r].stepNr <= st[r].lr
    /\ \A r, q \in Ranks :
         Committing(r) /\ snaps[q].stepNr = Ahead(r).stepNr => Alike(snaps[q], Ahead(r))

\* Steps that write nothing, after which no rank is committing that was not.
LEMMA QuietSnaps ==
    ASSUME SnapsOK, Job, Disk,
           \A r \in Ranks :
              /\ st'[r].lr \in Int /\ st[r].lr \in Int /\ snaps[r].stepNr \in Int
              /\ st[r].lr <= st'[r].lr
              /\ Committing(r)' => Committing(r) /\ Ahead(r)' = Ahead(r)
    PROVE  SnapsOK'
  <1>1. Training' <=> Training
    BY DEF Job, Training
  <1>2. Training => \A r \in Ranks : snaps[r].stepNr <= st'[r].lr
    <2> SUFFICES ASSUME Training, NEW r \in Ranks PROVE snaps[r].stepNr <= st'[r].lr
      OBVIOUS
    <2>1. snaps[r].stepNr <= st[r].lr
      BY DEF SnapsOK
    <2> QED
      BY <2>1
  <1>3. ASSUME NEW r \in Ranks, NEW q \in Ranks,
               Committing(r)', snaps[q].stepNr = Ahead(r)'.stepNr
        PROVE  Alike(snaps[q], Ahead(r)')
    BY <1>3 DEF SnapsOK
  <1> QED
    BY <1>1, <1>2, <1>3 DEF SnapsOK, Disk, Alike

\* A rank comes to commit in Norms only; by its own steps it goes on to the commit.
LEMMA LocalCommits ==
    ASSUME StepsTypeOK, HandOK, NEW r \in Ranks, LocalEffect(r)
    PROVE  \A q \in Ranks : Committing(q)' => Committing(q) /\ Ahead(q)' = Ahead(q)
  <1>1. /\ Others(r)
        /\ pc'[r] = "failed" \/ Ahead(r)' = Ahead(r)
        /\ \A q \in Ranks \ {r} : Ahead(q)' = Ahead(q)
    BY LocalAhead
  <1>2. Committing(r)' => AcceptEffect(r)
    BY DEF LocalEffect, LoadEffect, BeginStepEffect, RunBatchEffect, OverflowEffect, AcceptEffect,
           PostStepEffect, Committing
  <1>3. AcceptEffect(r) => Committing(r) /\ pc'[r] # "failed"
    BY DEF AcceptEffect, Committing
  <1> QED
    BY <1>1, <1>2, <1>3 DEF Others, Committing

LEMMA CollectiveCommits ==
    ASSUME StepsTypeOK, CollectiveEffect
    PROVE  NormsEffect \/ \A q \in Ranks : ~Committing(q)'
  <1>1. CASE CountEffect
    <2>1. \A r \in Ranks : AfterPass(st[r]) \in {"done", "load", "metrics"}
      BY AfterPassIs DEF StepsTypeOK, IsState, IsKept
    <2>2. \A r \in Ranks : pc'[r] \in {"step", "done", "load", "metrics"}
      BY <1>1, <2>1 DEF CountEffect, CountTo
    <2> QED
      BY <2>2 DEF Committing
  <1>2. CASE ReduceEffect \/ NormalizeEffect \/ UnscaleEffect \/ PublishEffect \/ BarrierEffect
    BY <1>2
    DEF ReduceEffect, NormalizeEffect, UnscaleEffect, PublishEffect, BarrierEffect, Committing
  <1> QED
    BY <1>1, <1>2 DEF CollectiveEffect

\* No part of a checkpoint bears the number of the step that is about to be made.
LEMMA NumberIsNew ==
    ASSUME StepsTypeOK, HandOK, AheadOK, CountersOK, SnapsOK, NormsEffect,
           NEW r \in Ranks, NEW q \in Ranks, Committing(r)'
    PROVE  snaps[q].stepNr # Ahead(r)'.stepNr
  <1>1. \A p \in Ranks : pc[p] = "norms" /\ pc'[p] = "update" /\ st'[p] = st[p]
    BY DEF NormsEffect
  <1>2. Training
    BY <1>1 DEF HandOK
  <1>3. Ahead(r)'.stepNr = st[r].stepNr
    BY <1>1 DEF Ahead, Committing
  <1>4. st[r].stepNr = st[r].lr + 1
    BY <1>1, <1>2 DEF CountersOK, Counts, Active, Within
  <1>5. snaps[q].stepNr <= st[q].lr /\ st[q].lr = st[r].lr
    <2>1. Alike(st[q], st[r])
      BY <1>1, MetAlike
    <2> QED
      BY <1>2, <2>1 DEF SnapsOK, Alike
  <1>6. st[r].lr \in Int /\ snaps[q].stepNr \in Int
    BY DEF StepsTypeOK, IsState, IsKept
  <1> QED
    BY <1>3, <1>4, <1>5, <1>6

LEMMA LocalSnaps ==
    ASSUME StepsTypeOK, StepsTypeOK', HandOK, AheadOK, CountersOK, SnapsOK,
           NEW r \in Ranks, LocalEffect(r)
    PROVE  SnapsOK'
  <1>1. /\ Others(r) /\ Job /\ pc[r] # "failed"
        /\ pc'[r] = "failed" \/ Ahead(r)' = Ahead(r)
        /\ \A q \in Ranks \ {r} : Ahead(q)' = Ahead(q)
    BY LocalAhead
  <1>2. \A q \in Ranks : st'[q].lr \in Int /\ st[q].lr \in Int /\ snaps[q].stepNr \in Int
    BY DEF StepsTypeOK, IsState, IsKept
  <1>3. st[r].lr <= st'[r].lr
    <2>1. st'[r].lr = st[r].lr \/ st'[r].lr = st[r].lr + 1
      BY DEF LocalEffect, LoadEffect, BeginStepEffect, RunBatchEffect, OverflowEffect,
             AcceptEffect, PostStepEffect, SameModel, SameStep
    <2> QED
      BY <1>2, <2>1
  <1>4. \A q \in Ranks : st[q].lr <= st'[q].lr
    BY <1>1, <1>2, <1>3 DEF Others
  <1>7. \A q \in Ranks : Committing(q)' => Committing(q) /\ Ahead(q)' = Ahead(q)
    BY LocalCommits
  <1>8. CASE Disk
    BY <1>1, <1>2, <1>4, <1>7, <1>8, QuietSnaps
  <1>9. CASE PostStepEffect(r) /\ ~Disk
    <2> DEFINE kept == Keep(st[r])
    <2>2. Ahead(r) = [stepNr |-> st[r].stepNr, passes |-> st[r].passes,
                      scale |-> st[r].scale, streak |-> st[r].streak, lr |-> st[r].lr,
                      model |-> st[r].model, since |-> st[r].since]
      BY <1>9, AheadIs DEF PostStepEffect
    <2>3. Committing(r) /\ pc[r] = "post"
      BY <1>9 DEF PostStepEffect, Committing
    <2>4. Alike(kept, Ahead(r)) /\ Alike(Ahead(r), kept) /\ kept.stepNr = Ahead(r).stepNr
          /\ kept.stepNr = st[r].stepNr
      BY <2>2, KeepIs DEF Alike
    <2>5. Training => st[r].stepNr = st[r].lr
      BY <2>3 DEF CountersOK, Counts, Active, Within
    <2> HIDE DEF kept
    <2>6. snaps' = snaps \/ (snaps'[r] = kept /\ \A q \in Ranks \ {r} : snaps'[q] = snaps[q])
      BY <1>9 DEF PostStepEffect, StepsTypeOK, kept
    <2>7. \A q \in Ranks : snaps[q].stepNr = kept.stepNr =>
                              Alike(snaps[q], kept) /\ Alike(kept, snaps[q])
      <3>1. ASSUME NEW q \in Ranks, snaps[q].stepNr = kept.stepNr
            PROVE  Alike(snaps[q], Ahead(r))
        BY <2>3, <2>4, <3>1 DEF SnapsOK
      <3>2. ASSUME NEW s, NEW t, NEW u, Alike(s, t), Alike(t, u)
            PROVE  Alike(s, u) /\ Alike(u, s)
        BY <3>2 DEF Alike
      <3> QED
        BY <2>4, <3>1, <3>2
    <2>8. \A p, q \in Ranks : snaps'[p].stepNr = snaps'[q].stepNr => Alike(snaps'[p], snaps'[q])
      <3>1. \A p, q \in Ranks : snaps[p].stepNr = snaps[q].stepNr => Alike(snaps[p], snaps[q])
        BY DEF SnapsOK
      <3>2. Alike(kept, kept)
        BY DEF Alike
      <3> QED
        BY <2>6, <2>7, <3>1, <3>2
    <2>9. \A p, q \in Ranks : Alike(whole'[p], whole'[q])
      <3>1. CASE whole' = whole
        BY <3>1 DEF SnapsOK
      <3>2. CASE whole' = snaps' /\ \A q \in Ranks : snaps'[q].stepNr = snaps'[r].stepNr
        BY <2>8, <3>2
      <3> QED
        BY <1>9, <3>1, <3>2 DEF PostStepEffect
    <2>10. Training' => \A q \in Ranks : snaps'[q].stepNr <= st'[q].lr
      <3> SUFFICES ASSUME Training', NEW q \in Ranks PROVE snaps'[q].stepNr <= st'[q].lr
        OBVIOUS
      <3>1. Training
        BY <1>1 DEF Job, Training
      <3>2. snaps[q].stepNr <= st[q].lr
        BY <3>1 DEF SnapsOK
      <3>3. kept.stepNr <= st[r].lr
        BY <1>2, <2>4, <2>5, <3>1
      <3>4. st'[q].lr = st[q].lr
        BY <1>1, <1>9 DEF PostStepEffect, Others
      <3> QED
        BY <2>6, <3>2, <3>3, <3>4
    <2>11. ASSUME NEW p \in Ranks, NEW q \in Ranks,
                  Committing(p)', snaps'[q].stepNr = Ahead(p)'.stepNr
           PROVE  Alike(snaps'[q], Ahead(p)')
      <3>1. Committing(p) /\ Ahead(p)' = Ahead(p)
        BY <1>7, <2>11
      <3>2. Ahead(p) = Ahead(r)
        BY <2>3, <3>1 DEF AheadOK, Committing
      <3>3. snaps'[q] = kept \/ snaps'[q] = snaps[q]
        BY <2>6
      <3> QED
        BY <2>3, <2>4, <2>11, <3>1, <3>2, <3>3 DEF SnapsOK
    <2> QED
      BY <2>8, <2>9, <2>10, <2>11 DEF SnapsOK, Alike
  <1> QED
    BY <1>8, <1>9
    DEF LocalEffect, LoadEffect, BeginStepEffect, RunBatchEffect, OverflowEffect, AcceptEffect

LEMMA CollectiveSnaps ==
    ASSUME StepsTypeOK, HandOK, AheadOK, CountersOK, SnapsOK, CollectiveEffect
    PROVE  SnapsOK'
  <1>1. \A q \in Ranks : st[q].lr \in Int /\ snaps[q].stepNr \in Int
    BY DEF StepsTypeOK, IsState, IsKept
  <1>2. Job /\ Disk /\ \A q \in Ranks : st'[q].lr = st[q].lr
    BY DEF CollectiveEffect, CountEffect, CountTo, ReduceEffect, NormalizeEffect, UnscaleEffect,
           NormsEffect, PublishEffect, BarrierEffect, SameModel, SameStep
  <1>3. CASE \A q \in Ranks : ~Committing(q)'
    BY <1>1, <1>2, <1>3, QuietSnaps
  <1>4. CASE NormsEffect
    <2>1. Training' <=> Training
      BY <1>2 DEF Job, Training
    <2>2. \A r, q \in Ranks : Committing(r)' => snaps[q].stepNr # Ahead(r)'.stepNr
      BY <1>4, NumberIsNew
    <2> QED
      BY <1>2, <2>1, <2>2 DEF SnapsOK, Disk, Alike
  <1> QED
    BY <1>3, <1>4, CollectiveCommits

LEMMA KillJobSnaps ==
    ASSUME StepsTypeOK, CountersOK, SnapsOK, KillJobEffect
    PROVE  SnapsOK'
  <1>1. \A r \in Ranks : pc'[r] \in {"load", "done"} /\ st'[r] = Begin(whole[r])
    BY DEF KillJobEffect
  <1>2. snaps' = whole /\ whole' = whole /\ Training
    BY DEF KillJobEffect
  <1>3. \A r \in Ranks : whole[r].stepNr <= st'[r].lr
    <2> SUFFICES ASSUME NEW r \in Ranks PROVE whole[r].stepNr <= st'[r].lr
      OBVIOUS
    <2>1. whole[r].stepNr = whole[r].lr /\ whole[r].stepNr \in Int
      BY <1>2 DEF CountersOK, Keeps, StepsTypeOK, IsKept
    <2> DEFINE k == whole[r]
    <2>2. Begin(k).lr = k.lr
      BY BeginIs
    <2>3. st'[r].lr = whole[r].lr
      BY <1>1, <2>2
    <2> QED
      BY <2>1, <2>3
  <1>4. \A r \in Ranks : ~Committing(r)'
    BY <1>1 DEF Committing
  <1> QED
    BY <1>2, <1>3, <1>4 DEF SnapsOK, Alike

AgreeInv == TypeInv /\ PhaseOK /\ AheadOK /\ GradsOK /\ CountersOK /\ SnapsOK

LEMMA AgreeInit == StepsInit => AgreeInv
  <1> SUFFICES ASSUME StepsInit PROVE AgreeInv
    OBVIOUS
  <1>1. /\ \A r \in Ranks : pc[r] = "load" /\ st[r] = Begin(Fresh) /\ snaps[r] = Fresh
        /\ \A r \in Ranks : whole[r] = Fresh
    BY DEF StepsInit
  <1>2. TypeInv
    BY TypeInit
  <1>3. PhaseOK /\ GradsOK
    BY <1>1 DEF PhaseOK, GradsOK, Settling
  <1> DEFINE s == Begin(Fresh)
  <1>4. /\ s.stepNr = 0 /\ s.lr = 0 /\ s.streak = 0 /\ s.model = <<>>
    BY BeginIs, FreshIs
  <1> HIDE DEF s
  <1>5. \A r \in Ranks : st[r] = s
    BY <1>1 DEF s
  <1>6. Uniform
    BY <1>1, <1>5 DEF Uniform, Alike
  <1>7. ScaleWindow \in Nat /\ ScaleWindow > 0
    BY StepAssumption
  <1>8. CountersOK
    BY <1>1, <1>4, <1>5, <1>7, FreshIs DEF CountersOK, Counts, Keeps, Active, Within
  <1>9. SnapsOK
    BY <1>1, <1>4, <1>5, FreshIs DEF SnapsOK, Alike, Committing
  <1> QED
    BY <1>2, <1>3, <1>6, <1>8, <1>9, UniformAhead DEF AgreeInv

LEMMA AgreeNext == ASSUME AgreeInv, [StepsNext]_stepVars PROVE AgreeInv'
  <1>1. TypeInv'
    BY TypeNext DEF AgreeInv
  <1>2. StepsTypeOK /\ HandOK /\ StepsTypeOK'
    BY <1>1 DEF AgreeInv, TypeInv
  <1>3. CASE UNCHANGED stepVars
    <2>1. setup' = setup /\ pc' = pc /\ st' = st /\ snaps' = snaps /\ whole' = whole
      BY <1>3 DEF stepVars
    <2>2. \A r \in Ranks : Ahead(r)' = Ahead(r) /\ (Committing(r)' <=> Committing(r))
      BY <2>1 DEF Ahead, Grown, Committing
    <2>3. PhaseOK' /\ AheadOK' /\ GradsOK'
      BY <2>1, <2>2 DEF AgreeInv, PhaseOK, AheadOK, GradsOK, Training, Meet
    <2>4. CountersOK'
      BY <2>1 DEF AgreeInv, CountersOK, Counts, Keeps, Training
    <2>5. SnapsOK'
      BY <2>1, <2>2 DEF AgreeInv, SnapsOK, Training, Alike
    <2> QED
      BY <1>1, <2>3, <2>4, <2>5 DEF AgreeInv
  <1>4. ASSUME NEW r \in Ranks, LocalEffect(r) PROVE AgreeInv'
    BY <1>1, <1>2, <1>4, LocalPhase, LocalAheadOK, LocalCounters, LocalSnaps DEF AgreeInv
  <1>5. ASSUME CollectiveEffect PROVE AgreeInv'
    <2>1. PhaseOK' /\ AheadOK' /\ GradsOK'
      BY <1>2, <1>5, CountAhead, ReduceAhead, NormalizeAhead, UnscaleAhead, NormsAhead,
         PublishAhead, BarrierAhead
      DEF AgreeInv, CollectiveEffect
    <2> QED
      BY <1>1, <1>2, <1>5, <2>1, CollectiveCounters, CollectiveSnaps DEF AgreeInv
  <1>6. ASSUME KillJobEffect PROVE AgreeInv'
    <2>1. \A r, q \in Ranks : Alike(whole[r], whole[q])
      BY DEF AgreeInv, SnapsOK
    <2> QED
      BY <1>1, <1>2, <1>6, <2>1, KillJobAhead, KillJobCounters, KillJobSnaps DEF AgreeInv
  <1> QED
    BY <1>2, <1>3, <1>4, <1>5, <1>6, NextDoes

\* The replicas stay one model, over overflows, passes and killed jobs: whenever the ranks
\* meet to read they hold the same parameters, loss scale, schedule and lapse.
THEOREM ReplicasStayOne == StepsSpec => []ReplicasAgree
  <1>1. AgreeInv => ReplicasAgree
    <2> SUFFICES ASSUME AgreeInv, Meet("count"), NEW r \in Ranks, NEW q \in Ranks
                 PROVE  /\ <<st[r].stepNr, st[r].passes, st[r].scale, st[r].streak, st[r].lr,
                             st[r].model, st[r].since>> =
                           <<st[q].stepNr, st[q].passes, st[q].scale, st[q].streak, st[q].lr,
                             st[q].model, st[q].since>>
                        /\ Training => st[r].lr = Len(st[r].model) /\ st[r].stepNr = st[r].lr
                        /\ st[r].streak < ScaleWindow
      BY DEF ReplicasAgree
    <2>1. pc[r] = "count" /\ AheadOK /\ Counts(r)
      BY DEF Meet, AgreeInv, CountersOK
    <2>2. Alike(st[r], st[q]) /\ st[r].since = st[q].since
      BY <2>1, MetAlike DEF Meet
    <2>3. "count" \notin Active \cup {"failed"}
      BY DEF Active, Within
    <2> QED
      BY <2>1, <2>2, <2>3 DEF Alike, Counts
  <1>2. AgreeInv /\ [StepsNext]_stepVars => AgreeInv'
    BY AgreeNext
  <1> QED
    BY <1>1, <1>2, AgreeInit, PTL DEF StepsSpec

-----------------------------------------------------------------------------
(***************************************************************************)
(* No batch is trained on twice: what a model was trained on lies behind   *)
(* what its rank has in hand, in a resumed job too.                        *)
(***************************************************************************)
\* The batches in a model, and those which a rank has run for good or for this step.
Trained(m) == UNION {m[k] : k \in DOMAIN m}
Held(r) == Trained(st[r].model) \cup (IF pc[r] \in Active THEN st[r].grads ELSE {})

\* A batch lies behind the position of a data reader, and behind the batches in hand.
Past(e, s) == e[2] <= s.passes /\ (e[2] = s.passes => e[3] <= s.read)
Lags(e, s) == Past(e, s) /\ (e[2] = s.passes => \A i \in DOMAIN s.batches : e[3] < s.batches[i])

\* The batches in hand are in order, and were read.
Ordered(s) ==
    /\ \A i \in DOMAIN s.batches : s.batches[i] <= s.read
    /\ \A i, j \in DOMAIN s.batches : i < j => s.batches[i] < s.batches[j]

InHand == \A r \in Ranks : Ordered(st[r])
HeldBehind == \A r \in Ranks : \A e \in Held(r) : Lags(e, st[e[1]])
KeptPast(r, s) == \A e \in Trained(s.model) : e[1] = r => Past(e, s)
KeptBehind == \A r \in Ranks : KeptPast(r, snaps[r]) /\ KeptPast(r, whole[r])

BehindInv == InHand /\ HeldBehind /\ KeptBehind

LEMMA TrainedIs ==
    ASSUME NEW m \in Seq(SUBSET Entry), NEW g \in SUBSET Entry
    PROVE  Trained(m) \subseteq Entry /\ Trained(Append(m, g)) = Trained(m) \cup g
  <1>1. DOMAIN m = 1..Len(m) /\ Len(m) \in Nat /\ \A k \in DOMAIN m : m[k] \in SUBSET Entry
    OBVIOUS
  <1> DEFINE n == Append(m, g)
  <1>2. /\ DOMAIN n = 1..(Len(m) + 1) /\ n[Len(m) + 1] = g
        /\ \A k \in 1..Len(m) : n[k] = m[k]
    BY AppendIs
  <1> HIDE DEF n
  <1>3. \A k \in DOMAIN n : k \in DOMAIN m \/ k = Len(m) + 1
    BY <1>1, <1>2
  <1>4. \A k \in DOMAIN m : k \in DOMAIN n /\ n[k] = m[k]
    BY <1>1, <1>2
  <1>5. Len(m) + 1 \in DOMAIN n
    BY <1>1, <1>2
  <1>6. Trained(m) \subseteq Entry
    BY <1>1 DEF Trained
  <1>7. Trained(n) \subseteq Trained(m) \cup g
    BY <1>2, <1>3, <1>4 DEF Trained
  <1>8. Trained(m) \subseteq Trained(n) /\ g \subseteq Trained(n)
    BY <1>2, <1>4, <1>5 DEF Trained
  <1> QED
    BY <1>6, <1>7, <1>8 DEF n

LEMMA EntryIs ==
    ASSUME NEW e \in Entry
    PROVE  e[1] \in Ranks /\ e[2] \in Nat /\ e[3] \in Nat
  BY DEF Entry

LEMMA HeldIs ==
    ASSUME StepsTypeOK, NEW r \in Ranks
    PROVE  /\ Held(r) \subseteq Entry /\ st[r].model \in Seq(SUBSET Entry)
           /\ st[r].grads \in SUBSET Entry
  <1>1. st[r].model \in Seq(SUBSET Entry) /\ st[r].grads \in SUBSET Entry
    BY DEF StepsTypeOK, IsState, IsKept
  <1> QED
    BY <1>1, TrainedIs DEF Held

\* How the hand of a rank changes by its own steps.
HandMove(s, t) ==
    /\ t.passes = s.passes
    /\ \/ t.read = s.read /\ t.batches = s.batches
       \/ t.read = s.read /\ t.batches = <<>>
       \/ t.read = s.read /\ s.batches # <<>> /\ t.batches = Tail(s.batches)
       \/ \E n \in Nat : /\ t.read = s.read + n /\ Len(t.batches) <= n
                         /\ \A i \in 1..Len(t.batches) : t.batches[i] = s.read + i

LEMMA HandMoves ==
    ASSUME StepsTypeOK, HandOK, NEW r \in Ranks, LocalEffect(r)
    PROVE  HandMove(st[r], st'[r])
  <1>1. CASE LoadEffect(r)
    <2>1. PICK n \in Nat :
             /\ st'[r].read = st[r].read + n
             /\ Len(st'[r].batches) = IF setup.drop /\ n # setup.acc THEN 0 ELSE n
             /\ \A i \in 1..Len(st'[r].batches) : st'[r].batches[i] = st[r].read + i
      BY <1>1 DEF LoadEffect
    <2>2. Len(st'[r].batches) <= n
      BY <2>1
    <2>3. st'[r].passes = st[r].passes
      BY <1>1 DEF LoadEffect, SameModel
    <2> QED
      BY <2>1, <2>2, <2>3 DEF HandMove
  <1>2. CASE BeginStepEffect(r)
    BY <1>2 DEF BeginStepEffect, HandMove
  <1>3. CASE RunBatchEffect(r)
    BY <1>3 DEF RunBatchEffect, HandMove, SameModel, HandOK
  <1>4. CASE OverflowEffect(r) \/ AcceptEffect(r)
    BY <1>4 DEF OverflowEffect, AcceptEffect, HandMove, SameData
  <1>5. CASE PostStepEffect(r)
    BY <1>5 DEF PostStepEffect, HandMove
  <1> QED
    BY <1>1, <1>2, <1>3, <1>4, <1>5 DEF LocalEffect

\* What lags goes on to lag, and the hand stays in order.
LEMMA HandKeeps ==
    ASSUME NEW T, NEW l \in Nat, T = 1..l, NEW s, NEW t, s.batches \in Seq(T), t.batches \in Seq(T),
           s.read \in Nat, s.passes \in Nat, Ordered(s), HandMove(s, t)
    PROVE  Ordered(t) /\ \A e \in Entry : Lags(e, s) => Lags(e, t)
  <1> DEFINE b == s.batches
             c == t.batches
  <1>1. /\ b \in Seq(T) /\ c \in Seq(T) /\ DOMAIN b = 1..Len(b) /\ DOMAIN c = 1..Len(c)
        /\ Len(b) \in Nat /\ Len(c) \in Nat /\ \A i \in DOMAIN b : b[i] \in Nat
        /\ \A i \in DOMAIN c : c[i] \in Nat
    OBVIOUS
  <1>2. ASSUME NEW e \in Entry, e[2] # s.passes, Lags(e, s) PROVE Lags(e, t)
    BY <1>2 DEF Lags, Past, HandMove
  <1>3. ASSUME NEW e \in Entry PROVE e[2] \in Nat /\ e[3] \in Nat
    BY EntryIs
  <1>4. CASE t.passes = s.passes /\ t.read = s.read /\ t.batches = s.batches
    BY <1>4 DEF Ordered, Lags, Past
  <1>5. CASE t.passes = s.passes /\ t.read = s.read /\ t.batches = <<>>
    BY <1>5 DEF Ordered, Lags, Past
  <1>6. CASE t.passes = s.passes /\ t.read = s.read /\ s.batches # <<>> /\ c = Tail(b)
    <2>1. Len(c) = Len(b) - 1 /\ \A i \in 1..(Len(b) - 1) : c[i] = b[i + 1]
      BY <1>1, <1>6, TailIs
    <2>2. \A i \in DOMAIN c : i + 1 \in DOMAIN b /\ c[i] = b[i + 1] /\ i \in Nat
      <3> DEFINE k == Len(b)
      <3>1. k \in Nat /\ DOMAIN b = 1..k /\ Len(c) = k - 1
        BY <1>1, <2>1
      <3>2. DOMAIN c = 1..(k - 1) /\ \A i \in 1..(k - 1) : c[i] = b[i + 1]
        BY <1>1, <2>1
      <3> HIDE DEF b, c, k
      <3>3. \A i \in 1..(k - 1) : i + 1 \in 1..k /\ i \in Nat
        BY <3>1
      <3> QED
        BY <3>1, <3>2, <3>3
    <2>3. \A i, j \in DOMAIN b : i < j => b[i] < b[j]
      BY DEF Ordered
    <2>4. \A i \in DOMAIN b : b[i] <= s.read
      BY DEF Ordered
    <2> HIDE DEF b, c
    <2>5. \A i, j \in DOMAIN c : i < j => c[i] < c[j]
      <3> SUFFICES ASSUME NEW i \in DOMAIN c, NEW j \in DOMAIN c, i < j PROVE c[i] < c[j]
        OBVIOUS
      <3>1. i + 1 < j + 1
        BY <2>2
      <3> QED
        BY <2>2, <2>3, <3>1
    <2>6. \A i \in DOMAIN c : c[i] <= t.read
      BY <1>6, <2>2, <2>4
    <2>7. Ordered(t)
      BY <2>5, <2>6 DEF Ordered, c
    <2>8. ASSUME NEW e \in Entry, Lags(e, s) PROVE Lags(e, t)
      <3>1. Past(e, t)
        BY <1>6, <2>8 DEF Lags, Past
      <3>2. e[2] = s.passes => \A i \in DOMAIN b : e[3] < b[i]
        BY <2>8 DEF Lags, b
      <3>3. e[2] = t.passes => \A i \in DOMAIN c : e[3] < c[i]
        BY <1>6, <2>2, <3>2
      <3> QED
        BY <3>1, <3>3 DEF Lags, c
    <2> QED
      BY <2>7, <2>8
  <1>7. ASSUME t.passes = s.passes, NEW n \in Nat, t.read = s.read + n, Len(c) <= n,
               \A i \in 1..Len(c) : c[i] = s.read + i
        PROVE  Ordered(t) /\ \A e \in Entry : Lags(e, s) => Lags(e, t)
    <2> DEFINE p == s.read
    <2>1. /\ p \in Nat /\ t.read = p + n
          /\ \A i \in DOMAIN c : i \in Nat /\ i >= 1 /\ i <= n /\ c[i] = p + i
      BY <1>1, <1>7
    <2> HIDE DEF c, p
    <2>2. \A i \in DOMAIN c : c[i] <= t.read
      BY <2>1
    <2>3. \A i, j \in DOMAIN c : i < j => c[i] < c[j]
      BY <2>1
    <2>4. Ordered(t)
      BY <2>2, <2>3 DEF Ordered, c
    <2>5. ASSUME NEW e \in Entry, Lags(e, s) PROVE Lags(e, t)
      <3>1. e[2] <= s.passes /\ (e[2] = s.passes => e[3] <= p) /\ e[3] \in Nat
        BY <1>3, <2>5 DEF Lags, Past, p
      <3>2. e[2] = t.passes => e[3] <= t.read
        BY <1>7, <2>1, <3>1
      <3>3. e[2] = t.passes => \A i \in DOMAIN c : e[3] < c[i]
        BY <1>7, <2>1, <3>1
      <3> QED
        BY <1>7, <3>1, <3>2, <3>3 DEF Lags, Past, c
    <2> QED
      BY <2>4, <2>5
  <1> QED
    BY <1>4, <1>5, <1>6, <1>7 DEF HandMove

LEMMA HandTyped ==
    ASSUME StepsTypeOK, NEW r \in Ranks
    PROVE  /\ st[r].batches \in Seq(1..Len(Shard(r))) /\ Len(Shard(r)) \in Nat
           /\ st[r].read \in Nat /\ st[r].passes \in Nat
  BY SetupIs DEF StepsTypeOK, IsState, IsKept

\* The batch that a rank runs does not lie behind before, and does afterwards.
LEMMA RunIsNew ==
    ASSUME StepsTypeOK, StepsTypeOK', HandOK, InHand, NEW r \in Ranks, RunBatchEffect(r),
           NEW e, e = <<r, st[r].passes, Head(st[r].batches)>>
    PROVE  e \in Entry /\ ~Lags(e, st[r]) /\ Lags(e, st'[r])
  <1> DEFINE l == Len(Shard(r))
             b == st[r].batches
             c == st'[r].batches
  <1>1. b \in Seq(1..l) /\ l \in Nat /\ st[r].read \in Nat /\ st[r].passes \in Nat
    BY HandTyped
  <1>2. b # <<>> /\ c = Tail(b) /\ st'[r].read = st[r].read /\ st'[r].passes = st[r].passes
    BY DEF RunBatchEffect, HandOK, SameModel
  <1>3. Ordered(st[r])
    BY DEF InHand
  <1> HIDE DEF l
  <1>4. Head(b) = b[1] /\ Head(b) \in Nat /\ 1 \in DOMAIN b
    <2> HIDE DEF b
    <2> QED
      BY <1>1, <1>2
  <1>5. e[1] = r /\ e[2] = st[r].passes /\ e[3] = b[1] /\ b[1] \in Nat
    BY <1>4
  <1>6. e \in Entry
    BY <1>1, <1>4 DEF Entry
  <1>7. ~Lags(e, st[r])
    BY <1>4, <1>5 DEF Lags
  <1>8. b[1] <= st[r].read
    BY <1>3, <1>4 DEF Ordered
  <1>9. \A i \in DOMAIN c : b[1] < c[i]
    <2>1. Len(c) = Len(b) - 1 /\ \A i \in 1..(Len(b) - 1) : c[i] = b[i + 1]
      BY <1>1, <1>2, TailIs
    <2>2. c \in Seq(1..l)
      <3> HIDE DEF b, c
      <3> QED
        BY <1>1, <1>2, TailIs
    <2>3. \A i, j \in DOMAIN b : i < j => b[i] < b[j]
      BY <1>3 DEF Ordered
    <2> HIDE DEF b, c
    <2>5. /\ DOMAIN b = 1..Len(b) /\ Len(b) \in Nat /\ DOMAIN c = 1..Len(c)
          /\ Len(c) \in Nat
      BY <1>1, <2>2
    <2>4. \A i \in DOMAIN c : i + 1 \in DOMAIN b /\ c[i] = b[i + 1] /\ 1 < i + 1
      BY <2>1, <2>5
    <2> QED
      BY <1>4, <2>3, <2>4
  <1>10. Lags(e, st'[r])
    <2> HIDE DEF b
    <2> QED
      BY <1>1, <1>2, <1>5, <1>8, <1>9 DEF Lags, Past
  <1> QED
    BY <1>6, <1>7, <1>10

\* By a step of its own a rank's model or gradient gains the batch that it ran, if any.
LEMMA LocalHeld ==
    ASSUME StepsTypeOK, HandOK, NEW r \in Ranks, LocalEffect(r), NEW q \in Ranks,
           NEW e \in Held(q)'
    PROVE  \/ e \in Held(q)
           \/ RunBatchEffect(r) /\ e = <<r, st[r].passes, Head(st[r].batches)>>
  <1>1. CASE q # r
    <2>1. pc'[q] = pc[q] /\ st'[q] = st[q]
      BY <1>1, LocalAhead DEF Others
    <2> QED
      BY <2>1 DEF Held
  <1>2. CASE q = r /\ LoadEffect(r)
    BY <1>2 DEF LoadEffect, SameModel, SameStep, SameGrads, Held, Active, Within
  <1>3. CASE q = r /\ BeginStepEffect(r)
    BY <1>3 DEF BeginStepEffect, Held, Active, Within
  <1>4. CASE q = r /\ RunBatchEffect(r)
    BY <1>4 DEF RunBatchEffect, SameModel, SameStep, Held, Active, Within
  <1>5. CASE q = r /\ OverflowEffect(r)
    BY <1>5 DEF OverflowEffect, Held, Active, Within
  <1>6. CASE q = r /\ AcceptEffect(r)
    <2>1. /\ pc[r] = "update" /\ pc'[r] = "post"
          /\ st'[r].model = Append(st[r].model, st[r].grads)
      BY <1>6 DEF AcceptEffect
    <2>2. Trained(st'[r].model) = Trained(st[r].model) \cup st[r].grads
      BY <2>1, HeldIs, TrainedIs
    <2>3. pc'[r] \notin Active /\ pc[r] \in Active
      BY <2>1 DEF Active, Within
    <2> QED
      BY <1>6, <2>2, <2>3 DEF Held
  <1>7. CASE q = r /\ PostStepEffect(r)
    BY <1>7 DEF PostStepEffect, Held, Active, Within
  <1> QED
    BY <1>1, <1>2, <1>3, <1>4, <1>5, <1>6, <1>7 DEF LocalEffect

LEMMA LocalBehind ==
    ASSUME StepsTypeOK, StepsTypeOK', HandOK, BehindInv, NEW r \in Ranks, LocalEffect(r)
    PROVE  BehindInv'
  <1>1. Domains /\ Others(r) /\ Job
    BY LocalAhead
  <1>2. Ordered(st'[r]) /\ \A e \in Entry : Lags(e, st[r]) => Lags(e, st'[r])
    <2> DEFINE l == Len(Shard(r))
               T == 1..l
    <2>1. /\ l \in Nat /\ st[r].batches \in Seq(T) /\ st[r].read \in Nat /\ st[r].passes \in Nat
      BY HandTyped
    <2>2. st'[r].batches \in Seq(T)
      BY <1>1 DEF StepsTypeOK, IsState, Shard, Job
    <2>3. Ordered(st[r]) /\ HandMove(st[r], st'[r])
      BY HandMoves DEF BehindInv, InHand
    <2> HIDE DEF l
    <2> QED
      BY <2>1, <2>2, <2>3, HandKeeps
  <1>3. InHand'
    BY <1>1, <1>2 DEF BehindInv, InHand, Others
  <1>4. HeldBehind'
    <2> SUFFICES ASSUME NEW q \in Ranks, NEW e \in Held(q)' PROVE Lags(e, st'[e[1]])
      BY DEF HeldBehind
    <2>1. CASE e \in Held(q)
      <3>1. e \in Entry /\ e[1] \in Ranks
        BY <2>1, HeldIs, EntryIs
      <3>2. Lags(e, st[e[1]])
        BY <2>1 DEF BehindInv, HeldBehind
      <3> QED
        BY <1>1, <1>2, <3>1, <3>2 DEF Others
    <2>2. CASE RunBatchEffect(r) /\ e = <<r, st[r].passes, Head(st[r].batches)>>
      <3>1. Lags(e, st'[r])
        BY <2>2, RunIsNew DEF BehindInv
      <3> QED
        BY <2>2, <3>1
    <2> QED
      BY <2>1, <2>2, LocalHeld
  <1>5. KeptBehind'
    <2>1. CASE Disk
      BY <2>1 DEF Disk, BehindInv, KeptBehind, KeptPast, Past
    <2>2. CASE PostStepEffect(r)
      <3> DEFINE kept == Keep(st[r])
      <3>1. KeptPast(r, kept)
        <4>1. kept.model = st[r].model /\ kept.passes = st[r].passes /\ kept.read = st[r].read
          BY KeepIs
        <4> HIDE DEF kept
        <4>2. \A e \in Trained(kept.model) : Lags(e, st[e[1]])
          BY <4>1 DEF BehindInv, HeldBehind, Held
        <4> QED
          BY <4>1, <4>2 DEF KeptPast, Lags, Past
      <3>2. \A q \in Ranks : snaps'[q] = snaps[q] \/ (q = r /\ snaps'[q] = kept)
        BY <2>2 DEF PostStepEffect, StepsTypeOK
      <3> HIDE DEF kept
      <3>3. \A q \in Ranks : KeptPast(q, snaps'[q])
        BY <3>1, <3>2 DEF BehindInv, KeptBehind
      <3>4. \A q \in Ranks : KeptPast(q, whole'[q])
        BY <2>2, <3>3 DEF PostStepEffect, BehindInv, KeptBehind
      <3> QED
        BY <3>3, <3>4 DEF KeptBehind, KeptPast, Past
    <2> QED
      BY <2>1, <2>2
      DEF LocalEffect, LoadEffect, BeginStepEffect, RunBatchEffect, OverflowEffect, AcceptEffect
  <1> QED
    BY <1>3, <1>4, <1>5 DEF BehindInv

\* What collectives do to the hands: nothing, a cut, or a new pass.
LEMMA CollectiveHands ==
    ASSUME StepsTypeOK, InHand, CollectiveEffect, NEW r \in Ranks
    PROVE  Ordered(st'[r]) /\ \A e \in Entry : Lags(e, st[r]) => Lags(e, st'[r])
  <1>0. Ordered(st[r])
    BY DEF InHand
  <1>1. CASE SameData(st[r], st'[r]) /\ st'[r].passes = st[r].passes
    BY <1>0, <1>1 DEF SameData, Ordered, Lags, Past
  <1>2. CASE CountEffect
    <2>1. PICK eod \in BOOLEAN, m \in Nat : CountTo(eod, m)
      BY <1>2 DEF CountEffect
    <2>2. CASE eod
      <3>1. st'[r].batches = <<>> /\ st'[r].passes = st[r].passes + 1
        BY <2>1, <2>2 DEF CountTo
      <3>2. Ordered(st'[r])
        BY <3>1 DEF Ordered
      <3>3. ASSUME NEW e \in Entry, Lags(e, st[r]) PROVE Lags(e, st'[r])
        <4>1. e[2] \in Nat /\ st[r].passes \in Nat /\ e[2] <= st[r].passes
          BY <3>3, EntryIs, HandTyped DEF Lags, Past
        <4>2. e[2] <= st'[r].passes /\ e[2] # st'[r].passes
          BY <3>1, <4>1
        <4> QED
          BY <4>2 DEF Lags, Past
      <3> QED
        BY <3>2, <3>3
    <2>3. CASE ~eod /\ setup.mode = "UNTIL_LAST"
      BY <1>1, <2>1, <2>3 DEF CountTo, SameModel, SameData
    <2>4. CASE ~eod /\ setup.mode = "UNTIL_FIRST"
      <3> DEFINE b == st[r].batches
                 c == st'[r].batches
                 T == 1..Len(Shard(r))
      <3>1. c = SubSeq(b, 1, m) /\ st'[r].read = st[r].read /\ st'[r].passes = st[r].passes
            /\ m <= Len(b)
        BY <2>1, <2>4 DEF CountTo, SameModel
      <3>2. b \in Seq(T)
        BY HandTyped
      <3> HIDE DEF T
      <3>3. DOMAIN c \subseteq DOMAIN b /\ \A i \in DOMAIN c : c[i] = b[i]
        <4> HIDE DEF b, c
        <4>1. DOMAIN b = 1..Len(b) /\ Len(b) \in Nat
          BY <3>2
        <4>2. m \in 0..Len(b)
          BY <3>1, <4>1
        <4>3. c \in Seq(T) /\ Len(c) = m /\ \A i \in 1..m : c[i] = b[i]
          BY <3>1, <3>2, <4>2, CutIs
        <4>4. DOMAIN c = 1..m
          BY <4>3
        <4> QED
          BY <4>1, <4>2, <4>3, <4>4
      <3>4. Ordered(st'[r])
        BY <1>0, <3>1, <3>3 DEF Ordered
      <3>5. \A e \in Entry : Lags(e, st[r]) => Lags(e, st'[r])
        BY <3>1, <3>3 DEF Lags, Past
      <3> QED
        BY <3>4, <3>5
    <2> QED
      BY <2>2, <2>3, <2>4, SetupIs
  <1>3. ~CountEffect => SameData(st[r], st'[r]) /\ st'[r].passes = st[r].passes
    BY DEF CollectiveEffect, ReduceEffect, NormalizeEffect, UnscaleEffect, NormsEffect,
           PublishEffect, BarrierEffect, SameModel, SameData
  <1> QED
    BY <1>1, <1>2, <1>3

\* In a collective the ranks exchange what they hold, and no more.
LEMMA CollectiveHeld ==
    ASSUME StepsTypeOK, CollectiveEffect, NEW r \in Ranks, NEW e \in Held(r)'
    PROVE  \E q \in Ranks : e \in Held(q)
  <1>1. CASE pc'[r] \notin Active /\ st'[r].model = st[r].model
    BY <1>1 DEF Held
  <1>2. CASE CountEffect
    <2>1. PICK eod \in BOOLEAN, m \in Nat : CountTo(eod, m)
      BY <1>2 DEF CountEffect
    <2>2. AfterPass(st[r]) \in {"done", "load", "metrics"}
      BY AfterPassIs DEF StepsTypeOK, IsState, IsKept
    <2>3. pc'[r] \in {"step", "done", "load", "metrics"}
      BY <2>1, <2>2 DEF CountTo
    <2>4. st'[r].model = st[r].model
      BY <2>1 DEF CountTo, SameModel, SameStep
    <2> QED
      BY <1>1, <2>3, <2>4 DEF Active, Within
  <1>3. CASE ReduceEffect
    <2>1. /\ \A q \in Ranks : pc[q] = "reduce"
          /\ st'[r].model = st[r].model /\ st'[r].grads = UNION {st[q].grads : q \in Ranks}
      BY <1>3 DEF ReduceEffect, SameModel, SameStep
    <2>2. \A q \in Ranks : pc[q] \in Active
      BY <2>1 DEF Active, Within
    <2> QED
      BY <2>1, <2>2 DEF Held
  <1>4. CASE NormalizeEffect \/ UnscaleEffect \/ NormsEffect
    <2>1. /\ pc[r] \in Active
          /\ st'[r].model = st[r].model /\ st'[r].grads = st[r].grads
      BY <1>4
      DEF NormalizeEffect, UnscaleEffect, NormsEffect, SameModel, SameStep, Active, Within
    <2> QED
      BY <2>1 DEF Held
  <1>5. CASE PublishEffect \/ BarrierEffect
    <2>1. pc'[r] \in {"barrier", "load", "done"} /\ st'[r].model = st[r].model
      BY <1>5 DEF PublishEffect, BarrierEffect
    <2> QED
      BY <1>1, <2>1 DEF Active, Within
  <1> QED
    BY <1>2, <1>3, <1>4, <1>5 DEF CollectiveEffect

LEMMA CollectiveBehind ==
    ASSUME StepsTypeOK, BehindInv, CollectiveEffect
    PROVE  BehindInv'
  <1>1. InHand'
    BY CollectiveHands DEF BehindInv, InHand
  <1>2. HeldBehind'
    <2> SUFFICES ASSUME NEW r \in Ranks, NEW e \in Held(r)' PROVE Lags(e, st'[e[1]])
      BY DEF HeldBehind
    <2>1. PICK q \in Ranks : e \in Held(q)
      BY CollectiveHeld
    <2>2. e \in Entry /\ e[1] \in Ranks /\ Lags(e, st[e[1]])
      BY <2>1, HeldIs, EntryIs DEF BehindInv, HeldBehind
    <2> QED
      BY <2>2, CollectiveHands DEF BehindInv
  <1>3. Disk
    BY DEF CollectiveEffect, CountEffect, CountTo, ReduceEffect, NormalizeEffect, UnscaleEffect,
           NormsEffect, PublishEffect, BarrierEffect
  <1>4. KeptBehind'
    BY <1>3 DEF Disk, BehindInv, KeptBehind, KeptPast, Past
  <1> QED
    BY <1>1, <1>2, <1>4 DEF BehindInv

\* The parts of a checkpoint hold one model, so each rank's batches in it lie behind the
\* position in its own part.
LEMMA KillJobBehind ==
    ASSUME StepsTypeOK, SnapsOK, BehindInv, KillJobEffect
    PROVE  BehindInv'
  <1>1. /\ snaps' = whole /\ whole' = whole
        /\ \A r \in Ranks : st'[r] = Begin(whole[r]) /\ pc'[r] \in {"load", "done"}
    BY DEF KillJobEffect
  <1>2. ASSUME NEW k
        PROVE  /\ Begin(k).batches = <<>> /\ Begin(k).model = k.model
               /\ \A e : Past(e, k) => Lags(e, Begin(k))
    <2> DEFINE s == Begin(k)
    <2>1. s.batches = <<>> /\ s.model = k.model /\ s.passes = k.passes /\ s.read = k.read
      BY BeginIs
    <2> HIDE DEF s
    <2>2. DOMAIN s.batches = {}
      BY <2>1
    <2>3. ASSUME NEW e, Past(e, k) PROVE Lags(e, s)
      BY <2>1, <2>2, <2>3 DEF Lags, Past
    <2> QED
      BY <2>1, <2>3 DEF s
  <1>3. InHand'
    <2>1. \A r \in Ranks : st'[r].batches = <<>>
      BY <1>1, <1>2
    <2> QED
      BY <2>1 DEF InHand, Ordered
  <1>4. HeldBehind'
    <2> SUFFICES ASSUME NEW r \in Ranks, NEW e \in Held(r)' PROVE Lags(e, st'[e[1]])
      BY DEF HeldBehind
    <2>1. pc'[r] \notin Active /\ st'[r].model = whole[r].model
      BY <1>1, <1>2 DEF Active, Within
    <2>2. e \in Trained(whole[r].model)
      BY <2>1 DEF Held
    <2>3. e[1] \in Ranks
      <3>1. whole[r].model \in Seq(SUBSET Entry)
        BY DEF StepsTypeOK, IsKept
      <3>2. Trained(whole[r].model) \subseteq Entry
        BY <3>1, TrainedIs
      <3> QED
        BY <2>2, <3>2, EntryIs
    <2>4. whole[e[1]].model = whole[r].model
      BY <2>3 DEF SnapsOK, Alike
    <2>5. Past(e, whole[e[1]])
      BY <2>2, <2>3, <2>4 DEF BehindInv, KeptBehind, KeptPast
    <2> QED
      BY <1>1, <1>2, <2>3, <2>5
  <1>5. KeptBehind'
    BY <1>1 DEF BehindInv, KeptBehind, KeptPast, Past
  <1> QED
    BY <1>3, <1>4, <1>5 DEF BehindInv

-----------------------------------------------------------------------------
(***************************************************************************)
(* Every rank has its share in a step.                                     *)
(***************************************************************************)
InStep(r) == Training /\ pc[r] \in {"step"} \cup Within

\* Of this step's gradient, what the rank itself has added; and how many batches it will
\* have in hand at the next reduction.
Own(r) == IF pc[r] = "step" THEN {} ELSE {e \in st[r].grads : e[1] = r}
Left(r) == IF pc[r] \in {"step", "batch"} THEN Len(st[r].batches) - 1 ELSE Len(st[r].batches)

\* What a rank has run and has in hand is as many batches as another's, and as many are
\* left at a reduction; nobody holds batches of a rank that the rank has not run.
Even(q, r) ==
    /\ Cardinality(Own(q)) + Len(st[q].batches) = Cardinality(Own(r)) + Len(st[r].batches)
    /\ ~setup.noSync => Left(q) = Left(r)
    /\ pc[q] # "step" => \A e \in st[q].grads : e[1] = r => e \in Own(r)

SharesOK == \A q, r \in Ranks : InStep(q) /\ InStep(r) => Even(q, r)

\* With no_sync there is one reduction, after the last batch.
OwnOK ==
    \A r \in Ranks : InStep(r) =>
        /\ IsFiniteSet(Own(r))
        /\ setup.noSync /\ pc[r] = "reduce" => st[r].batches = <<>>

\* A gradient to which all ranks have contributed as much.
Balanced(g) ==
    \A q, r \in Ranks : Cardinality({e \in g : e[1] = q}) = Cardinality({e \in g : e[1] = r})

BalanceOK ==
    \A r \in Ranks : pc[r] \in {"normalize", "unscale", "norms", "update"} => Balanced(st[r].grads)

ShareInv == SharesOK /\ OwnOK /\ BalanceOK

\* A step that leaves a rank its share, and adds to its gradient only batches of its own or
\* of others' gradients.
Carries(r) ==
    InStep(r)' =>
      /\ InStep(r) /\ Own(r) \subseteq Own(r)' /\ IsFiniteSet(Own(r)')
      /\ Cardinality(Own(r)') + Len(st'[r].batches) = Cardinality(Own(r)) + Len(st[r].batches)
      /\ setup.noSync /\ pc'[r] = "reduce" => st'[r].batches = <<>>
      /\ pc'[r] # "step" =>
           \A e \in st'[r].grads :
              \/ e[1] = r /\ e \in Own(r)'
              \/ \E q \in Ranks : InStep(q) /\ pc[q] # "step" /\ e \in st[q].grads

LeftStays(r) == InStep(r)' => InStep(r) /\ (Left(r)' = Left(r) \/ setup.noSync)

LeftEven == \A q, r \in Ranks : InStep(q) /\ InStep(r) /\ ~setup.noSync => Left(q) = Left(r)

LEMMA LeftKeeps ==
    ASSUME ShareInv, Job, \A r \in Ranks : LeftStays(r)
    PROVE  LeftEven'
  BY DEF LeftStays, LeftEven, ShareInv, SharesOK, Even, Job

LEMMA EvenStays ==
    ASSUME ShareInv, Job, LeftEven', \A r \in Ranks : Carries(r)
    PROVE  SharesOK' /\ OwnOK'
  <1>1. setup' = setup
    BY DEF Job
  <1>2. OwnOK'
    BY <1>1 DEF OwnOK, Carries
  <1>3. ASSUME NEW q \in Ranks, NEW r \in Ranks, InStep(q)', InStep(r)' PROVE Even(q, r)'
    <2> USE DEF Carries
    <2>1. InStep(q) /\ InStep(r) /\ Even(q, r)
      BY <1>3 DEF ShareInv, SharesOK
    <2>2. Cardinality(Own(q)') + Len(st'[q].batches) = Cardinality(Own(r)') + Len(st'[r].batches)
      BY <1>3, <2>1 DEF Even
    <2>3. ~setup.noSync => Left(q)' = Left(r)'
      BY <1>1, <1>3 DEF LeftEven
    <2>4. ASSUME pc'[q] # "step", NEW e \in st'[q].grads, e[1] = r PROVE e \in Own(r)'
      <3>1. CASE e[1] = q /\ e \in Own(q)'
        BY <2>4, <3>1
      <3>2. CASE \E p \in Ranks : InStep(p) /\ pc[p] # "step" /\ e \in st[p].grads
        <4>1. PICK p \in Ranks : InStep(p) /\ pc[p] # "step" /\ e \in st[p].grads
          BY <3>2
        <4>2. e \in Own(r)
          BY <2>1, <2>4, <4>1 DEF ShareInv, SharesOK, Even
        <4> QED
          BY <1>3, <4>2
      <3> QED
        BY <1>3, <2>4, <3>1, <3>2
    <2> QED
      BY <1>1, <2>2, <2>3, <2>4 DEF Even
  <1> QED
    BY <1>2, <1>3 DEF SharesOK

LEMMA OthersCarry ==
    ASSUME ShareInv, Job, NEW r \in Ranks, pc'[r] = pc[r], st'[r].grads = st[r].grads,
           st'[r].batches = st[r].batches
    PROVE  Carries(r) /\ LeftStays(r)
  <1>1. Own(r)' = Own(r) /\ Left(r)' = Left(r) /\ (InStep(r)' <=> InStep(r))
    BY DEF Own, Left, InStep, Training, Job
  <1>2. InStep(r) =>
          IsFiniteSet(Own(r)) /\ (setup.noSync /\ pc[r] = "reduce" => st[r].batches = <<>>)
    BY DEF ShareInv, OwnOK
  <1> QED
    BY <1>1, <1>2 DEF Carries, LeftStays

LEMMA BeginStepCarries ==
    ASSUME StepsTypeOK, ShareInv, NEW r \in Ranks, BeginStepEffect(r)
    PROVE  Carries(r) /\ LeftStays(r)
  <1> SUFFICES ASSUME InStep(r)' PROVE Carries(r) /\ LeftStays(r)
    BY DEF Carries, LeftStays
  <1>1. Training
    BY DEF InStep, Training, BeginStepEffect, Job
  <1>2. /\ pc[r] = "step" /\ pc'[r] = "batch" /\ st'[r].grads = {}
        /\ st'[r].batches = st[r].batches
    BY <1>1 DEF BeginStepEffect
  <1>3. Own(r)' = {} /\ Own(r) = {} /\ Left(r)' = Left(r) /\ InStep(r)
    BY <1>1, <1>2 DEF Own, Left, InStep
  <1> QED
    BY <1>2, <1>3, FS_EmptySet DEF Carries, LeftStays

LEMMA RunBatchCarries ==
    ASSUME StepsTypeOK, StepsTypeOK', HandOK, InHand, HeldBehind, ShareInv, NEW r \in Ranks,
           RunBatchEffect(r)
    PROVE  Carries(r) /\ LeftStays(r)
  <1> DEFINE b == st[r].batches
             e == <<r, st[r].passes, Head(b)>>
  <1>1. /\ pc[r] = "batch" /\ st'[r].grads = st[r].grads \cup {e} /\ st'[r].batches = Tail(b)
        /\ pc'[r] = IF setup.noSync /\ Len(b) > 1 THEN "batch" ELSE "reduce"
    BY DEF RunBatchEffect
  <1>2. Training /\ b # <<>>
    BY <1>1 DEF HandOK
  <1>3. InStep(r)
    BY <1>1, <1>2 DEF InStep, Within
  <1>4. b \in Seq(1..Len(Shard(r)))
    BY HandTyped
  <1>5. Len(b) \in Nat /\ Len(b) >= 1 /\ Len(Tail(b)) = Len(b) - 1
    <2> HIDE DEF b
    <2> QED
      BY <1>2, <1>4, TailIs
  <1>6. e \notin Own(r) /\ e[1] = r
    <2>1. ~Lags(e, st[r]) /\ e[1] = r
      BY RunIsNew
    <2>2. e \notin Held(r)
      BY <2>1 DEF HeldBehind
    <2>3. pc[r] \in Active
      BY <1>1 DEF Active, Within
    <2> QED
      BY <2>1, <2>2, <2>3 DEF Held, Own
  <1> HIDE DEF e
  <1>7. Own(r)' = Own(r) \cup {e}
    BY <1>1, <1>6 DEF Own
  <1>8. IsFiniteSet(Own(r))
    BY <1>3 DEF ShareInv, OwnOK
  <1>9. IsFiniteSet(Own(r)') /\ Cardinality(Own(r)') = Cardinality(Own(r)) + 1
    BY <1>6, <1>7, <1>8, FS_AddElement
  <1>10. Cardinality(Own(r)) \in Nat
    BY <1>8, FS_CardinalityType
  <1>11. Cardinality(Own(r)') + Len(st'[r].batches) = Cardinality(Own(r)) + Len(b)
    <2> HIDE DEF b
    <2> QED
      BY <1>1, <1>5, <1>9, <1>10
  <1>12. Left(r)' = Left(r) \/ setup.noSync
    <2>1. CASE ~setup.noSync
      <3>1. pc'[r] = "reduce"
        BY <1>1, <2>1
      <3> QED
        BY <1>1, <1>5, <3>1 DEF Left
    <2> QED
      BY <2>1
  <1>13. setup.noSync /\ pc'[r] = "reduce" => st'[r].batches = <<>>
    <2> SUFFICES ASSUME setup.noSync, pc'[r] = "reduce" PROVE Tail(b) = <<>>
      BY <1>1
    <2>1. ~(Len(b) > 1)
      BY <1>1
    <2>2. Len(Tail(b)) = 0
      <3> HIDE DEF b
      <3> QED
        BY <1>5, <2>1
    <2> DEFINE c == Tail(b)
    <2>3. c \in Seq(1..Len(Shard(r))) /\ Len(c) = 0
      <3> HIDE DEF b
      <3> QED
        BY <1>2, <1>4, <2>2, TailIs
    <2>4. c = <<>>
      <3> HIDE DEF c
      <3> QED
        BY <2>3
    <2> QED
      BY <2>4
  <1>14. \A d \in st'[r].grads : (d[1] = r /\ d \in Own(r)') \/ d \in st[r].grads
    BY <1>1, <1>6, <1>7
  <1> QED
    BY <1>1, <1>3, <1>7, <1>9, <1>11, <1>12, <1>13, <1>14 DEF Carries, LeftStays

LEMMA LocalShares ==
    ASSUME StepsTypeOK, StepsTypeOK', HandOK, InHand, HeldBehind, ShareInv, NEW r \in Ranks,
           LocalEffect(r)
    PROVE  ShareInv'
  <1>1. Others(r) /\ Job /\ pc'[r] \notin {"normalize", "unscale", "norms"}
    BY LocalAhead
  <1>2. \A q \in Ranks \ {r} : Carries(q) /\ LeftStays(q)
    BY <1>1, OthersCarry DEF Others
  <1>3. Carries(r) /\ LeftStays(r)
    <2>1. CASE pc'[r] \notin {"step"} \cup Within
      BY <2>1 DEF Carries, LeftStays, InStep
    <2>2. LoadEffect(r) \/ OverflowEffect(r) \/ AcceptEffect(r) \/ PostStepEffect(r)
            => pc'[r] \in {"count", "failed", "load", "post", "metrics"}
      BY DEF LoadEffect, OverflowEffect, AcceptEffect, PostStepEffect
    <2> QED
      BY <2>1, <2>2, BeginStepCarries, RunBatchCarries DEF LocalEffect, Within
  <1>4. SharesOK' /\ OwnOK'
    BY <1>1, <1>2, <1>3, LeftKeeps, EvenStays
  <1>5. pc'[r] # "update"
    BY DEF LocalEffect, LoadEffect, BeginStepEffect, RunBatchEffect, OverflowEffect, AcceptEffect,
           PostStepEffect
  <1>6. BalanceOK'
    BY <1>1, <1>5 DEF ShareInv, BalanceOK, Balanced, Others
  <1> QED
    BY <1>4, <1>6 DEF ShareInv

LEMMA CountShares ==
    ASSUME StepsTypeOK, CountEffect
    PROVE  ShareInv'
  <1>1. PICK eod \in BOOLEAN, m \in Nat : CountTo(eod, m)
    BY DEF CountEffect
  <1>2. Training' <=> Training
    BY <1>1 DEF CountTo, Job, Training
  <1>3. CASE eod \/ ~Training
    <2>1. \A r \in Ranks : AfterPass(st[r]) \in {"done", "load", "metrics"}
      BY AfterPassIs DEF StepsTypeOK, IsState, IsKept
    <2>2. \A r \in Ranks : ~InStep(r)' /\ pc'[r] \in {"step", "done", "load", "metrics"}
      BY <1>1, <1>2, <1>3, <2>1 DEF CountTo, InStep, Within
    <2> QED
      BY <2>2 DEF ShareInv, SharesOK, OwnOK, BalanceOK
  <1>4. CASE ~eod /\ Training
    <2>1. \A r \in Ranks : pc'[r] = "step" /\ Len(st'[r].batches) = m
      <3> SUFFICES ASSUME NEW r \in Ranks PROVE pc'[r] = "step" /\ Len(st'[r].batches) = m
        OBVIOUS
      <3> DEFINE b == st[r].batches
                 T == 1..Len(Shard(r))
      <3>1. pc'[r] = "step" /\ st'[r].batches = SubSeq(b, 1, m) /\ m <= Len(b)
        BY <1>1, <1>4, SetupIs DEF CountTo
      <3>2. b \in Seq(T)
        BY HandTyped
      <3> HIDE DEF b, T
      <3>3. m \in 0..Len(b)
        BY <3>1, <3>2
      <3> QED
        BY <3>1, <3>2, <3>3, CutIs
    <2>2. \A r \in Ranks : Own(r)' = {} /\ Left(r)' = m - 1
      BY <2>1 DEF Own, Left
    <2>3. SharesOK'
      BY <2>1, <2>2 DEF SharesOK, Even
    <2>4. OwnOK' /\ BalanceOK'
      BY <2>1, <2>2, FS_EmptySet DEF OwnOK, BalanceOK
    <2> QED
      BY <2>3, <2>4 DEF ShareInv
  <1> QED
    BY <1>3, <1>4

LEMMA ReduceShares ==
    ASSUME StepsTypeOK, HandOK, ShareInv, ReduceEffect
    PROVE  ShareInv'
  <1> DEFINE U == UNION {st[q].grads : q \in Ranks}
  <1>1. \A r \in Ranks :
           /\ pc[r] = "reduce" /\ st'[r].batches = st[r].batches /\ st'[r].grads = U
           /\ pc'[r] \in {"batch", "normalize", "unscale", "norms"}
           /\ pc'[r] = "batch" <=> st[r].batches # <<>>
    BY DEF ReduceEffect, SameData
  <1>2. Job /\ \A r \in Ranks : Training /\ InStep(r)
    BY <1>1 DEF ReduceEffect, HandOK, InStep, Within
  <1>3. \A q, r \in Ranks : Even(q, r)
    BY <1>2 DEF ShareInv, SharesOK
  <1>4. \A q \in Ranks : \A e \in st[q].grads : \A r \in Ranks : e[1] = r => e \in Own(r)
    BY <1>1, <1>3 DEF Even
  <1>5. \A r \in Ranks : Own(r)' = Own(r) /\ Own(r)' = {e \in U : e[1] = r}
    <2> SUFFICES ASSUME NEW r \in Ranks
                 PROVE  Own(r)' = Own(r) /\ Own(r)' = {e \in U : e[1] = r}
      OBVIOUS
    <2>1. Own(r)' = {e \in U : e[1] = r}
      BY <1>1 DEF Own
    <2>2. Own(r) = {e \in st[r].grads : e[1] = r} /\ st[r].grads \subseteq U
      BY <1>1 DEF Own
    <2>3. \A e \in U : e[1] = r => e \in Own(r)
      BY <1>4
    <2> QED
      BY <2>1, <2>2, <2>3
  <1>6. \A q, r \in Ranks : Len(st[q].batches) = Len(st[r].batches)
    <2>1. CASE setup.noSync
      BY <1>1, <1>2, <2>1 DEF ShareInv, OwnOK
    <2>2. CASE ~setup.noSync
      BY <1>1, <1>3, <2>2 DEF Even, Left
    <2> QED
      BY <2>1, <2>2
  <1>7. \A q, r \in Ranks : st[r].batches = <<>> => st[q].batches = <<>>
    <2> SUFFICES ASSUME NEW q \in Ranks, NEW r \in Ranks, st[r].batches = <<>>
                 PROVE  st[q].batches = <<>>
      OBVIOUS
    <2> DEFINE b == st[q].batches
    <2>1. Len(b) = 0 /\ b \in Seq(1..Len(Shard(q)))
      BY <1>6, HandTyped
    <2> HIDE DEF b
    <2>2. b = <<>>
      BY <2>1
    <2> QED
      BY <2>2 DEF b
  <1>8. LeftEven'
    BY <1>1, <1>6, <1>7 DEF LeftEven, Left
  <1>9. \A r \in Ranks : Carries(r)
    <2> SUFFICES ASSUME NEW r \in Ranks PROVE Carries(r)
      OBVIOUS
    <2>1. IsFiniteSet(Own(r))
      BY <1>2 DEF ShareInv, OwnOK
    <2>2. \A e \in st'[r].grads : \E q \in Ranks : InStep(q) /\ pc[q] # "step" /\ e \in st[q].grads
      BY <1>1, <1>2
    <2>3. pc'[r] # "reduce"
      BY <1>1
    <2> QED
      BY <1>1, <1>2, <1>5, <2>1, <2>2, <2>3 DEF Carries
  <1>10. SharesOK' /\ OwnOK'
    BY <1>2, <1>8, <1>9, EvenStays
  <1>11. BalanceOK'
    <2> SUFFICES ASSUME NEW r \in Ranks, pc'[r] # "batch" PROVE Balanced(st'[r].grads)
      BY <1>1 DEF BalanceOK, Balanced
    <2>1. \A q \in Ranks : st[q].batches = <<>>
      BY <1>1, <1>7
    <2>2. \A q \in Ranks : IsFiniteSet(Own(q)) /\ Cardinality(Own(q)) \in Nat
      BY <1>2, FS_CardinalityType DEF ShareInv, OwnOK
    <2>3. \A p, q \in Ranks : Cardinality(Own(p)) = Cardinality(Own(q))
      <3> SUFFICES ASSUME NEW p \in Ranks, NEW q \in Ranks
                   PROVE  Cardinality(Own(p)) = Cardinality(Own(q))
        OBVIOUS
      <3>1. /\ Cardinality(Own(p)) + Len(st[p].batches) = Cardinality(Own(q)) + Len(st[q].batches)
            /\ Len(st[p].batches) = 0 /\ Len(st[q].batches) = 0
        BY <1>3, <2>1 DEF Even
      <3> QED
        BY <2>2, <3>1
    <2>4. \A q \in Ranks : {e \in U : e[1] = q} = Own(q)
      BY <1>5
    <2>5. Balanced(U)
      <3> HIDE DEF U
      <3> QED
        BY <2>3, <2>4 DEF Balanced
    <2> QED
      BY <1>1, <2>5
  <1> QED
    BY <1>10, <1>11 DEF ShareInv

LEMMA CollectiveShares ==
    ASSUME StepsTypeOK, HandOK, ShareInv, CollectiveEffect
    PROVE  ShareInv'
  <1>1. CASE NormalizeEffect \/ UnscaleEffect
    <2>1. /\ Job
          /\ \A r \in Ranks :
               /\ pc[r] \in {"normalize", "unscale"} /\ pc'[r] \in {"unscale", "norms"}
               /\ st'[r].grads = st[r].grads /\ st'[r].batches = st[r].batches
      BY <1>1 DEF NormalizeEffect, UnscaleEffect, SameData
    <2>2. \A r \in Ranks : Own(r)' = Own(r) /\ Left(r)' = Left(r) /\ (InStep(r)' <=> InStep(r))
      BY <2>1 DEF Own, Left, InStep, Within, Training, Job
    <2>3. \A r \in Ranks : LeftStays(r)
      BY <2>2 DEF LeftStays
    <2>4. \A r \in Ranks : Carries(r)
      BY <2>1, <2>2 DEF Carries, ShareInv, OwnOK
    <2>5. SharesOK' /\ OwnOK'
      BY <2>1, <2>3, <2>4, LeftKeeps, EvenStays
    <2>6. BalanceOK'
      BY <2>1 DEF ShareInv, BalanceOK, Balanced
    <2> QED
      BY <2>5, <2>6 DEF ShareInv
  <1>2. CASE NormsEffect
    <2>1. \A r \in Ranks : pc[r] = "norms" /\ pc'[r] = "update" /\ st'[r] = st[r]
      BY <1>2 DEF NormsEffect
    <2> QED
      BY <2>1 DEF ShareInv, SharesOK, OwnOK, BalanceOK, Balanced, InStep, Within
  <1>3. CASE PublishEffect \/ BarrierEffect
    <2>1. \A r \in Ranks : pc'[r] \in {"barrier", "load", "done"}
      BY <1>3 DEF PublishEffect, BarrierEffect
    <2> QED
      BY <2>1 DEF ShareInv, SharesOK, OwnOK, BalanceOK, InStep, Within
  <1> QED
    BY <1>1, <1>2, <1>3, CountShares, ReduceShares DEF CollectiveEffect

LEMMA KillJobShares ==
    ASSUME StepsTypeOK, KillJobEffect
    PROVE  ShareInv'
  <1>1. \A r \in Ranks : pc'[r] \in {"load", "done"}
    BY DEF KillJobEffect
  <1> QED
    BY <1>1 DEF ShareInv, SharesOK, OwnOK, BalanceOK, InStep, Within

-----------------------------------------------------------------------------
(***************************************************************************)
(* The models.                                                             *)
(***************************************************************************)
\* No batch is in two steps of a model, and to each step the ranks contributed alike.
Sound(m) ==
    /\ \A k, l \in DOMAIN m : l < k => m[k] \cap m[l] = {}
    /\ \A k \in DOMAIN m : Balanced(m[k])

ModelsSound == \A r \in Ranks : Sound(st[r].model) /\ Sound(snaps[r].model) /\ Sound(whole[r].model)

GradsNew == \A r \in Ranks : pc[r] \in Active => st[r].grads \cap Trained(st[r].model) = {}

OnceOK == ModelsSound /\ GradsNew

LEMMA SoundGrows ==
    ASSUME NEW m \in Seq(SUBSET Entry), NEW g \in SUBSET Entry, Sound(m), Balanced(g),
           g \cap Trained(m) = {}
    PROVE  Sound(Append(m, g))
  <1> DEFINE n == Append(m, g)
             last == Len(m) + 1
  <1>1. /\ DOMAIN m = 1..Len(m) /\ DOMAIN n = 1..last /\ n[last] = g /\ Len(m) \in Nat
        /\ \A k \in 1..Len(m) : n[k] = m[k]
    BY AppendIs
  <1>2. \A k \in DOMAIN m : k < last /\ n[k] = m[k] /\ m[k] \subseteq Trained(m)
    BY <1>1 DEF Trained
  <1> HIDE DEF n
  <1>3. \A k \in DOMAIN n : k \in DOMAIN m \/ k = last
    BY <1>1
  <1> HIDE DEF last
  <1>4. ASSUME NEW k \in DOMAIN n, NEW l \in DOMAIN n, l < k PROVE n[k] \cap n[l] = {}
    <2>1. CASE k \in DOMAIN m /\ l \in DOMAIN m
      BY <1>2, <1>4, <2>1 DEF Sound
    <2>2. CASE k = last /\ l \in DOMAIN m
      BY <1>1, <1>2, <2>2
    <2>3. CASE l = last
      <3>1. last \in Int /\ k <= last
        BY <1>1 DEF last
      <3> QED
        BY <1>1, <1>4, <2>3, <3>1
    <2> QED
      BY <1>3, <2>1, <2>2, <2>3
  <1>5. \A k \in DOMAIN n : Balanced(n[k])
    BY <1>1, <1>2, <1>3 DEF Sound
  <1>6. Sound(n)
    BY <1>4, <1>5 DEF Sound
  <1> QED
    BY <1>6 DEF n

LEMMA LocalOnce ==
    ASSUME StepsTypeOK, StepsTypeOK', HandOK, BehindInv, ShareInv, OnceOK, NEW r \in Ranks,
           LocalEffect(r)
    PROVE  OnceOK'
  <1>1. Others(r) /\ Job
    BY LocalAhead
  <1>2. st'[r].model = st[r].model \/ AcceptEffect(r)
    BY DEF LocalEffect, LoadEffect, BeginStepEffect, RunBatchEffect, OverflowEffect,
           PostStepEffect, SameModel, SameStep
  <1>3. Sound(st'[r].model)
    <2>1. CASE AcceptEffect(r)
      <3>1. pc[r] = "update" /\ st'[r].model = Append(st[r].model, st[r].grads)
        BY <2>1 DEF AcceptEffect
      <3>2. pc[r] \in Active
        BY <3>1 DEF Active
      <3> DEFINE m == st[r].model
                 g == st[r].grads
      <3>3. m \in Seq(SUBSET Entry) /\ g \in SUBSET Entry
        BY HeldIs
      <3>4. Sound(m) /\ Balanced(g) /\ g \cap Trained(m) = {}
        BY <3>1, <3>2 DEF OnceOK, ModelsSound, GradsNew, ShareInv, BalanceOK
      <3> HIDE DEF m, g
      <3>5. Sound(Append(m, g))
        BY <3>3, <3>4, SoundGrows
      <3> QED
        BY <3>1, <3>5 DEF m, g
    <2> QED
      BY <1>2, <2>1 DEF OnceOK, ModelsSound
  <1>4. \A q \in Ranks : Sound(st'[q].model)
    BY <1>1, <1>3 DEF Others, OnceOK, ModelsSound
  <1>5. \A q \in Ranks : Sound(snaps'[q].model) /\ Sound(whole'[q].model)
    <2>1. CASE Disk
      BY <2>1 DEF Disk, OnceOK, ModelsSound
    <2>2. CASE PostStepEffect(r)
      <3> DEFINE kept == Keep(st[r])
      <3>1. Sound(kept.model)
        BY KeepIs DEF OnceOK, ModelsSound
      <3>2. \A q \in Ranks : snaps'[q] = snaps[q] \/ snaps'[q] = kept
        BY <2>2 DEF PostStepEffect, StepsTypeOK
      <3> HIDE DEF kept
      <3>3. \A q \in Ranks : Sound(snaps'[q].model)
        BY <3>1, <3>2 DEF OnceOK, ModelsSound
      <3>4. \A q \in Ranks : Sound(whole'[q].model)
        BY <2>2, <3>3 DEF PostStepEffect, OnceOK, ModelsSound
      <3> QED
        BY <3>3, <3>4
    <2> QED
      BY <2>1, <2>2
      DEF LocalEffect, LoadEffect, BeginStepEffect, RunBatchEffect, OverflowEffect, AcceptEffect
  <1>6. ModelsSound'
    BY <1>4, <1>5 DEF ModelsSound, Sound, Balanced
  <1>7. pc'[r] \in Active => st'[r].grads \cap Trained(st'[r].model) = {}
    <2>1. CASE RunBatchEffect(r)
      <3> DEFINE e == <<r, st[r].passes, Head(st[r].batches)>>
      <3>1. pc[r] = "batch" /\ st'[r].model = st[r].model /\ st'[r].grads = st[r].grads \cup {e}
        BY <2>1 DEF RunBatchEffect, SameModel, SameStep
      <3>2. ~Lags(e, st[r]) /\ e[1] = r
        BY <2>1, RunIsNew DEF BehindInv
      <3> HIDE DEF e
      <3>3. e \notin Trained(st[r].model)
        BY <3>2 DEF BehindInv, HeldBehind, Held
      <3>4. st[r].grads \cap Trained(st[r].model) = {}
        BY <3>1 DEF OnceOK, GradsNew, Active, Within
      <3> QED
        BY <3>1, <3>3, <3>4
    <2>2. CASE BeginStepEffect(r)
      <3>1. CASE Training
        <4>1. st'[r].grads = {}
          BY <2>2, <3>1 DEF BeginStepEffect
        <4> QED
          BY <4>1
      <3>2. CASE ~Training
        BY <2>2, <3>2 DEF BeginStepEffect, Active, Within
      <3> QED
        BY <3>1, <3>2
    <2>3. CASE LoadEffect(r) \/ OverflowEffect(r) \/ AcceptEffect(r) \/ PostStepEffect(r)
      <3>1. pc'[r] \in {"count", "failed", "load", "post", "metrics"}
        BY <2>3 DEF LoadEffect, OverflowEffect, AcceptEffect, PostStepEffect
      <3> QED
        BY <3>1 DEF Active, Within
    <2> QED
      BY <2>1, <2>2, <2>3 DEF LocalEffect
  <1>8. GradsNew'
    BY <1>1, <1>7 DEF GradsNew, Others, OnceOK
  <1> QED
    BY <1>6, <1>8 DEF OnceOK

LEMMA CollectiveOnce ==
    ASSUME StepsTypeOK, AheadOK, OnceOK, CollectiveEffect
    PROVE  OnceOK'
  <1>1. Disk /\ \A r \in Ranks : st'[r].model = st[r].model
    BY DEF CollectiveEffect, CountEffect, CountTo, ReduceEffect, NormalizeEffect, UnscaleEffect,
           NormsEffect, PublishEffect, BarrierEffect, SameModel, SameStep
  <1>2. ModelsSound'
    BY <1>1 DEF Disk, OnceOK, ModelsSound, Sound, Balanced
  <1>3. CASE CountEffect \/ PublishEffect \/ BarrierEffect
    <2>1. \A r \in Ranks : AfterPass(st[r]) \in {"done", "load", "metrics"}
      BY AfterPassIs DEF StepsTypeOK, IsState, IsKept
    <2>2. \A r \in Ranks : pc'[r] \in {"step", "done", "load", "metrics", "barrier"}
      BY <1>3, <2>1 DEF CountEffect, CountTo, PublishEffect, BarrierEffect
    <2> QED
      BY <1>2, <2>2 DEF OnceOK, GradsNew, Active, Within
  <1>4. CASE NormalizeEffect \/ UnscaleEffect \/ NormsEffect
    <2>1. \A r \in Ranks : st'[r].grads = st[r].grads /\ pc[r] \in {"normalize", "unscale", "norms"}
      BY <1>4 DEF NormalizeEffect, UnscaleEffect, NormsEffect
    <2> QED
      BY <1>1, <1>2, <2>1 DEF OnceOK, GradsNew, Active, Within
  <1>5. CASE ReduceEffect
    <2>1. \A r \in Ranks : /\ pc[r] = "reduce"
                           /\ st'[r].grads = UNION {st[q].grads : q \in Ranks}
      BY <1>5 DEF ReduceEffect
    <2>2. \A q, r \in Ranks : st[q].model = st[r].model
      BY <2>1, MetAlike DEF Alike
    <2>3. \A q \in Ranks : st[q].grads \cap Trained(st[q].model) = {}
      BY <2>1 DEF OnceOK, GradsNew, Active, Within
    <2> QED
      BY <1>1, <1>2, <2>1, <2>2, <2>3 DEF OnceOK, GradsNew
  <1> QED
    BY <1>3, <1>4, <1>5 DEF CollectiveEffect

LEMMA KillJobOnce ==
    ASSUME StepsTypeOK, OnceOK, KillJobEffect
    PROVE  OnceOK'
  <1>1. /\ snaps' = whole /\ whole' = whole
        /\ \A r \in Ranks : st'[r] = Begin(whole[r]) /\ pc'[r] \in {"load", "done"}
    BY DEF KillJobEffect
  <1>2. \A k : Begin(k).model = k.model
    BY BeginIs
  <1>3. \A r \in Ranks : st'[r].model = whole[r].model
    BY <1>1, <1>2
  <1> QED
    BY <1>1, <1>3 DEF OnceOK, ModelsSound, GradsNew, Sound, Balanced, Active, Within

OnceInv == AgreeInv /\ BehindInv /\ ShareInv /\ OnceOK

LEMMA OnceInit == StepsInit => OnceInv
  <1> SUFFICES ASSUME StepsInit PROVE OnceInv
    OBVIOUS
  <1>1. \A r \in Ranks : /\ pc[r] = "load" /\ st[r] = Begin(Fresh)
                         /\ snaps[r] = Fresh /\ whole[r] = Fresh
    BY DEF StepsInit
  <1> DEFINE s == Begin(Fresh)
  <1>2. s.batches = <<>> /\ s.model = <<>> /\ Fresh.model = <<>>
    BY BeginIs, FreshIs
  <1> HIDE DEF s
  <1>3. \A r \in Ranks : st[r].batches = <<>> /\ st[r].model = <<>>
                         /\ snaps[r].model = <<>> /\ whole[r].model = <<>>
    BY <1>1, <1>2 DEF s
  <1>4. \A r \in Ranks : pc[r] \notin Active \cup {"step"}
    BY <1>1 DEF Active, Within
  <1>5. Trained(<<>>) = {}
    BY DEF Trained
  <1>6. BehindInv
    BY <1>3, <1>4, <1>5 DEF BehindInv, InHand, Ordered, HeldBehind, Held, KeptBehind, KeptPast
  <1>7. ShareInv
    BY <1>1 DEF ShareInv, SharesOK, OwnOK, BalanceOK, InStep, Within
  <1>8. OnceOK
    BY <1>3, <1>4 DEF OnceOK, ModelsSound, Sound, GradsNew
  <1> QED
    BY <1>6, <1>7, <1>8, AgreeInit DEF OnceInv

LEMMA OnceNext == ASSUME OnceInv, [StepsNext]_stepVars PROVE OnceInv'
  <1>1. AgreeInv /\ AgreeInv'
    BY AgreeNext DEF OnceInv
  <1>2. StepsTypeOK /\ HandOK /\ StepsTypeOK' /\ AheadOK /\ SnapsOK
    BY <1>1 DEF AgreeInv, TypeInv
  <1>3. BehindInv /\ InHand /\ HeldBehind /\ ShareInv /\ OnceOK
    BY DEF OnceInv, BehindInv
  <1>4. CASE UNCHANGED stepVars
    <2>1. setup' = setup /\ pc' = pc /\ st' = st /\ snaps' = snaps /\ whole' = whole
      BY <1>4 DEF stepVars
    <2>2. BehindInv'
      BY <1>3, <2>1
      DEF BehindInv, InHand, HeldBehind, Held, KeptBehind, KeptPast, Past, Lags, Ordered
    <2>3. ShareInv'
      <3>1. Job
        BY <1>4 DEF stepVars, Job
      <3>2. \A r \in Ranks : Carries(r) /\ LeftStays(r)
        BY <1>3, <2>1, <3>1, OthersCarry
      <3>3. BalanceOK'
        BY <1>3, <2>1 DEF ShareInv, BalanceOK, Balanced
      <3> QED
        BY <1>3, <3>1, <3>2, <3>3, LeftKeeps, EvenStays DEF ShareInv
    <2>4. OnceOK'
      BY <1>3, <2>1 DEF OnceOK, ModelsSound, GradsNew, Sound, Balanced
    <2> QED
      BY <1>1, <2>2, <2>3, <2>4 DEF OnceInv
  <1>5. ASSUME NEW r \in Ranks, LocalEffect(r) PROVE OnceInv'
    BY <1>1, <1>2, <1>3, <1>5, LocalBehind, LocalShares, LocalOnce DEF OnceInv
  <1>6. ASSUME CollectiveEffect PROVE OnceInv'
    BY <1>1, <1>2, <1>3, <1>6, CollectiveBehind, CollectiveShares, CollectiveOnce DEF OnceInv
  <1>7. ASSUME KillJobEffect PROVE OnceInv'
    BY <1>1, <1>2, <1>3, <1>7, KillJobBehind, KillJobShares, KillJobOnce DEF OnceInv
  <1> QED
    BY <1>2, <1>4, <1>5, <1>6, <1>7, NextDoes

\* No batch is trained on twice in a pass, and every rank contributes as many batches to a
\* step, whatever the shards, the overflows, the accumulation and the jobs killed.
THEOREM NoBatchTwice == StepsSpec => []BatchesOnce
  <1>1. OnceInv => BatchesOnce
    <2> SUFFICES ASSUME OnceInv, NEW r \in Ranks, NEW k \in 1..Len(st[r].model)
                 PROVE  /\ \A l \in 1..(k - 1) : st[r].model[k] \cap st[r].model[l] = {}
                        /\ \A q \in Ranks : Cardinality({g \in st[r].model[k] : g[1] = q}) =
                                            Cardinality({g \in st[r].model[k] : g[1] = r})
      BY DEF BatchesOnce
    <2> DEFINE m == st[r].model
    <2>1. Sound(m)
      BY DEF OnceInv, OnceOK, ModelsSound
    <2>2. m \in Seq(SUBSET Entry)
      BY HeldIs DEF OnceInv, AgreeInv, TypeInv
    <2>3. k \in DOMAIN m /\ \A l \in 1..(k - 1) : l \in DOMAIN m /\ l < k
      <3>1. k \in 1..Len(m)
        OBVIOUS
      <3> HIDE DEF m
      <3>2. DOMAIN m = 1..Len(m) /\ Len(m) \in Nat
        BY <2>2
      <3> QED
        BY <3>1, <3>2
    <2>4. \A l \in 1..(k - 1) : m[k] \cap m[l] = {}
      BY <2>1, <2>3 DEF Sound
    <2>5. Balanced(m[k])
      BY <2>1, <2>3 DEF Sound
    <2> QED
      BY <2>4, <2>5 DEF Balanced
  <1>2. OnceInv /\ [StepsNext]_stepVars => OnceInv'
    BY OnceNext
  <1> QED
    BY <1>1, <1>2, OnceInit, PTL DEF StepsSpec

-----------------------------------------------------------------------------
(***************************************************************************)
(* The metrics count the batches of the steps that were made.              *)
(***************************************************************************)
\* The batches of a rank in a gradient.
Of(r, g) == {e \in g : e[1] = r}

LEMMA GivenIs ==
    ASSUME NEW r, NEW m, NEW n
    PROVE  \A x : x \in Given(r, m, n) <=>
                    \E k \in n..Len(m) : \E e \in Of(r, m[k]) : x = <<k, e>>
  BY DEF Given, Of

\* Later steps are some of all steps, and after the last one there is none.
LEMMA GivenPart ==
    ASSUME NEW r, NEW m, Len(m) \in Nat, NEW n \in 1..(Len(m) + 1), IsFiniteSet(Given(r, m, 1))
    PROVE  /\ Given(r, m, n) \subseteq Given(r, m, 1) /\ IsFiniteSet(Given(r, m, n))
           /\ Cardinality(Given(r, m, n)) \in Nat
           /\ n = Len(m) + 1 => Cardinality(Given(r, m, n)) = 0
  <1>1. \A k \in n..Len(m) : k \in 1..Len(m)
    OBVIOUS
  <1>2. Given(r, m, n) \subseteq Given(r, m, 1)
    BY <1>1, GivenIs
  <1>3. n = Len(m) + 1 => Given(r, m, n) = {}
    <2>1. n = Len(m) + 1 => \A k : k \notin n..Len(m)
      OBVIOUS
    <2> QED
      BY <2>1, GivenIs
  <1> QED
    BY <1>2, <1>3, FS_Subset, FS_EmptySet, FS_CardinalityType

\* Of no step at all there are none.
LEMMA GivenNone ==
    ASSUME NEW r
    PROVE  IsFiniteSet(Given(r, <<>>, 1)) /\ Cardinality(Given(r, <<>>, 1)) = 0
  <1>1. \A k : k \notin 1..Len(<<>>)
    OBVIOUS
  <1>2. Given(r, <<>>, 1) = {}
    BY <1>1, GivenIs
  <1> QED
    BY <1>2, FS_EmptySet

\* A model that makes one more step.
LEMMA GivenGrows ==
    ASSUME NEW r, NEW m \in Seq(SUBSET Entry), NEW g \in SUBSET Entry, IsFiniteSet(Of(r, g)),
           IsFiniteSet(Given(r, m, 1)), NEW n \in 1..(Len(m) + 1)
    PROVE  /\ IsFiniteSet(Given(r, Append(m, g), n))
           /\ Cardinality(Given(r, Append(m, g), n)) =
                Cardinality(Given(r, m, n)) + Cardinality(Of(r, g))
  <1> DEFINE c == Append(m, g)
             last == Len(m) + 1
             New == {last} \X Of(r, g)
             Old == Given(r, m, n)
  <1>1. Len(m) \in Nat /\ Len(c) = last /\ c[last] = g /\ \A k \in 1..Len(m) : c[k] = m[k]
    BY AppendIs
  <1> HIDE DEF c
  <1>2. \A k : k \in n..last <=> k \in n..Len(m) \/ k = last
    BY <1>1
  <1>3. \A k \in n..Len(m) : c[k] = m[k] /\ k # last
    BY <1>1
  <1> HIDE DEF last
  <1>4. \A x : x \in New <=> \E e \in Of(r, g) : x = <<last, e>>
    OBVIOUS
  <1>5. Given(r, c, n) = Old \cup New
    <2>1. \A x : x \in Given(r, c, n) <=> x \in Old \/ x \in New
      BY <1>1, <1>2, <1>3, <1>4, GivenIs
    <2> QED
      BY <2>1
  <1>6. Old \cap New = {}
    BY <1>3, <1>4, GivenIs
  <1>7. IsFiniteSet(Old) /\ Cardinality(Old) \in Nat
    BY <1>1, GivenPart
  <1>8. IsFiniteSet(New) /\ Cardinality(New) = Cardinality(Of(r, g)) /\ Cardinality(Of(r, g)) \in Nat
    <2> DEFINE One == {last}
               Its == Of(r, g)
    <2>1. IsFiniteSet(One) /\ Cardinality(One) = 1
      BY FS_Singleton
    <2>2. IsFiniteSet(Its) /\ Cardinality(Its) \in Nat
      BY FS_CardinalityType
    <2> HIDE DEF One, Its
    <2>3. IsFiniteSet(One \X Its) /\ Cardinality(One \X Its) = Cardinality(One) * Cardinality(Its)
      BY <2>1, <2>2, FS_Product
    <2>4. Cardinality(One \X Its) = Cardinality(Its)
      BY <2>1, <2>2, <2>3
    <2> QED
      BY <2>2, <2>3, <2>4 DEF One, Its
  <1> HIDE DEF New, Old
  <1>9. /\ IsFiniteSet(Old \cup New)
        /\ Cardinality(Old \cup New) = Cardinality(Old) + Cardinality(New) - Cardinality(Old \cap New)
    BY <1>7, <1>8, FS_Union
  <1>10. Cardinality(Old \cap New) = 0
    BY <1>6, FS_EmptySet
  <1>11. Cardinality(Given(r, c, n)) = Cardinality(Old) + Cardinality(Of(r, g))
    BY <1>5, <1>7, <1>8, <1>9, <1>10
  <1> QED
    BY <1>5, <1>9, <1>11 DEF c, Old

\* `counts' are the batches of the rank in the steps of its model, in the lapse and in all,
\* and `more' besides.
Sums(r, s, counts, more) ==
    /\ counts.now = Cardinality(Given(r, s.model, s.since + 1)) + more
    /\ counts.total = Cardinality(Given(r, s.model, 1)) + more

\* A rank of task t in place p.  Within a step the metrics have counted what it has added to
\* the gradient, and an overflow, which only fp16 has, can be undone.
Tallied(t, r, p, s) ==
    /\ s.since \in 0..Len(s.model) /\ IsFiniteSet(Given(r, s.model, 1))
    /\ s.inf => t.fp16
    /\ p \notin Active \cup {"failed"} => Sums(r, s, s.bag, 0)
    /\ p \in Active =>
         /\ IsFiniteSet(Of(r, s.grads)) /\ Sums(r, s, s.bag, Cardinality(Of(r, s.grads)))
         /\ t.fp16 => Sums(r, s, s.original, 0)

KeptTallied(r, k) ==
    IsFiniteSet(Given(r, k.model, 1)) /\ k.total = Cardinality(Given(r, k.model, 1))

TallyOK ==
    Training => \A r \in Ranks : /\ Tallied(setup, r, pc[r], st[r])
                                 /\ KeptTallied(r, snaps[r]) /\ KeptTallied(r, whole[r])

\* A rank that goes elsewhere outside a step, its counts and its model as they were.
LEMMA StayTally ==
    ASSUME NEW t, NEW r, NEW p, NEW q, NEW s, NEW u, Tallied(t, r, p, s),
           u.model = s.model, u.since = s.since, u.bag = s.bag, u.inf = s.inf,
           p \notin Active \cup {"failed"}, q \notin Active
    PROVE  Tallied(t, r, q, u)
  BY DEF Tallied, Sums

\* The same within a step, where the gradient keeps what the rank has added.
LEMMA StepTally ==
    ASSUME NEW t, NEW r, NEW p, NEW q, NEW s, NEW u, Tallied(t, r, p, s),
           u.model = s.model, u.since = s.since, SameBags(s, u), Of(r, u.grads) = Of(r, s.grads),
           u.inf => t.fp16, p \in Active, q \in Active
    PROVE  Tallied(t, r, q, u)
  <1>1. "failed" \notin Active
    BY DEF Active, Within
  <1> QED
    BY <1>1 DEF Tallied, Sums, SameBags

LEMMA BeginStepTally ==
    ASSUME NEW r \in Ranks, Training, StepsTypeOK, Tallied(setup, r, pc[r], st[r]), BeginStepEffect(r)
    PROVE  Tallied(setup, r, pc'[r], st'[r])
  <1> DEFINE s == st[r]
             u == st'[r]
  <1>1. /\ pc[r] \notin Active \cup {"failed"} /\ pc'[r] \in Active /\ pc'[r] # "failed"
        /\ u.model = s.model /\ u.since = s.since /\ u.bag = s.bag
        /\ setup.fp16 => u.original = s.bag
        /\ u.grads = {} /\ u.inf = FALSE
    BY DEF BeginStepEffect, Active, Within
  <1>2. Of(r, u.grads) = {}
    BY <1>1 DEF Of
  <1>3. IsFiniteSet(Of(r, u.grads)) /\ Cardinality(Of(r, u.grads)) = 0
    BY <1>2, FS_EmptySet
  <1> HIDE DEF s, u
  <1>4. Tallied(setup, r, pc[r], s)
    BY DEF s
  <1>5. Sums(r, u, u.bag, 0) /\ (setup.fp16 => Sums(r, u, u.original, 0))
    BY <1>1, <1>4 DEF Tallied, Sums
  <1>6. Tallied(setup, r, pc'[r], u)
    BY <1>1, <1>3, <1>4, <1>5 DEF Tallied
  <1> QED
    BY <1>6 DEF u

LEMMA RunBatchTally ==
    ASSUME NEW r \in Ranks, Training, StepsTypeOK, StepsTypeOK', HandOK, InHand, HeldBehind,
           Tallied(setup, r, pc[r], st[r]), RunBatchEffect(r)
    PROVE  Tallied(setup, r, pc'[r], st'[r])
  <1> DEFINE s == st[r]
             u == st'[r]
             e == <<r, s.passes, Head(s.batches)>>
  <1>1. /\ pc[r] \in Active /\ pc'[r] \in Active /\ pc'[r] # "failed"
        /\ u.model = s.model /\ u.since = s.since /\ u.original = s.original
        /\ u.bag = Counted(s.bag, 1) /\ u.grads = s.grads \cup {e}
        /\ u.inf => s.inf \/ setup.fp16
    BY DEF RunBatchEffect, Active, Within, SameModel, SameStep
  <1>2. e[1] = r /\ e \notin Of(r, s.grads)
    <2>1. ~Lags(e, s) /\ e[1] = r
      BY RunIsNew
    <2>2. e \notin Held(r)
      BY <2>1 DEF HeldBehind
    <2> QED
      BY <1>1, <2>1, <2>2 DEF Held, Of
  <1> HIDE DEF e
  <1>3. Of(r, u.grads) = Of(r, s.grads) \cup {e}
    BY <1>1, <1>2 DEF Of
  <1> DEFINE n == Cardinality(Of(r, s.grads))
  <1>4. IsFiniteSet(Of(r, s.grads)) /\ n \in Nat
    BY <1>1, FS_CardinalityType DEF Tallied
  <1>5. IsFiniteSet(Of(r, u.grads)) /\ Cardinality(Of(r, u.grads)) = n + 1
    BY <1>2, <1>3, <1>4, FS_AddElement
  <1>6. Len(s.model) \in Nat /\ s.since + 1 \in 1..(Len(s.model) + 1) /\ 1 \in 1..(Len(s.model) + 1)
    BY HeldIs DEF Tallied
  <1>7. /\ Cardinality(Given(r, s.model, s.since + 1)) \in Nat
        /\ Cardinality(Given(r, s.model, 1)) \in Nat
    BY <1>6, GivenPart DEF Tallied
  <1>8. u.bag.now = s.bag.now + 1 /\ u.bag.total = s.bag.total + 1
    BY <1>1 DEF Counted
  <1> HIDE DEF s, u, n
  <1>9. Tallied(setup, r, pc[r], s)
    BY DEF s
  <1>10. Sums(r, s, s.bag, n)
    BY <1>1, <1>9 DEF Tallied, n
  <1>11. Sums(r, u, u.bag, n + 1)
    BY <1>1, <1>4, <1>7, <1>8, <1>10 DEF Sums
  <1>12. Tallied(setup, r, pc'[r], u)
    BY <1>1, <1>5, <1>9, <1>11 DEF Tallied, Sums
  <1> QED
    BY <1>12 DEF u

LEMMA AcceptTally ==
    ASSUME NEW r \in Ranks, StepsTypeOK, Tallied(setup, r, pc[r], st[r]), AcceptEffect(r)
    PROVE  Tallied(setup, r, pc'[r], st'[r])
  <1> DEFINE s == st[r]
             u == st'[r]
             m == s.model
             g == s.grads
             from == s.since + 1
  <1>1. /\ pc[r] \in Active /\ pc'[r] \notin Active
        /\ u.model = Append(m, g) /\ u.since = s.since /\ u.bag = s.bag /\ u.inf = s.inf
    BY DEF AcceptEffect, Active, Within, SameGrads
  <1>2. m \in Seq(SUBSET Entry) /\ g \in SUBSET Entry /\ Len(m) \in Nat
    BY HeldIs
  <1> HIDE DEF s, u
  <1>3. Tallied(setup, r, pc[r], s)
    BY DEF s
  <1>4. /\ IsFiniteSet(Of(r, g)) /\ IsFiniteSet(Given(r, m, 1))
        /\ Sums(r, s, s.bag, Cardinality(Of(r, g)))
    BY <1>1, <1>3 DEF Tallied
  <1>5. s.since \in 0..Len(m)
    BY <1>3 DEF Tallied
  <1> HIDE DEF m, g
  <1>6. from \in 1..(Len(m) + 1) /\ 1 \in 1..(Len(m) + 1)
    BY <1>2, <1>5
  <1> HIDE DEF from
  <1> DEFINE n == Append(m, g)
  <1>7. /\ IsFiniteSet(Given(r, n, 1))
        /\ Cardinality(Given(r, n, 1)) = Cardinality(Given(r, m, 1)) + Cardinality(Of(r, g))
        /\ Cardinality(Given(r, n, from)) = Cardinality(Given(r, m, from)) + Cardinality(Of(r, g))
    BY <1>2, <1>4, <1>6, GivenGrows
  <1>8. Len(n) = Len(m) + 1
    BY <1>2, AppendIs
  <1> HIDE DEF n
  <1>9. u.model = n
    BY <1>1 DEF n
  <1>10. Cardinality(Given(r, m, 1)) \in Nat /\ Cardinality(Given(r, m, from)) \in Nat
    BY <1>2, <1>4, <1>6, GivenPart
  <1>11. Cardinality(Of(r, g)) \in Nat
    BY <1>4, FS_CardinalityType
  <1>12. /\ s.bag.now = Cardinality(Given(r, m, from)) + Cardinality(Of(r, g))
         /\ s.bag.total = Cardinality(Given(r, m, 1)) + Cardinality(Of(r, g))
    BY <1>4 DEF Sums, m, from
  <1>13. /\ u.bag.now = Cardinality(Given(r, n, from)) + 0
         /\ u.bag.total = Cardinality(Given(r, n, 1)) + 0
    BY <1>1, <1>7, <1>10, <1>11, <1>12
  <1>14. Sums(r, u, u.bag, 0)
    BY <1>1, <1>9, <1>13 DEF Sums, from
  <1>15. u.since \in 0..Len(u.model)
    BY <1>1, <1>2, <1>5, <1>8, <1>9
  <1>16. u.inf => setup.fp16
    BY <1>1, <1>3 DEF Tallied
  <1>17. Tallied(setup, r, pc'[r], u)
    BY <1>1, <1>7, <1>9, <1>14, <1>15, <1>16 DEF Tallied
  <1> QED
    BY <1>17 DEF u

LEMMA OverflowTally ==
    ASSUME NEW r \in Ranks, Tallied(setup, r, pc[r], st[r]), OverflowEffect(r)
    PROVE  Tallied(setup, r, pc'[r], st'[r])
  <1> DEFINE s == st[r]
             u == st'[r]
  <1>1. /\ pc[r] \in Active /\ s.inf /\ pc'[r] \notin Active
        /\ u.model = s.model /\ u.since = s.since /\ u.inf = s.inf
        /\ pc'[r] # "failed" => u.bag = s.original
    BY DEF OverflowEffect, Active, Within, SameGrads
  <1> HIDE DEF s, u
  <1>2. Tallied(setup, r, pc[r], s)
    BY DEF s
  <1>3. setup.fp16 /\ Sums(r, s, s.original, 0)
    BY <1>1, <1>2 DEF Tallied
  <1>4. Tallied(setup, r, pc'[r], u)
    BY <1>1, <1>2, <1>3 DEF Tallied, Sums
  <1> QED
    BY <1>4 DEF u

LEMMA LocalTally ==
    ASSUME NEW r \in Ranks, Training, StepsTypeOK, StepsTypeOK', HandOK, InHand, HeldBehind,
           Tallied(setup, r, pc[r], st[r]), LocalEffect(r)
    PROVE  Tallied(setup, r, pc'[r], st'[r])
  <1>1. ASSUME LoadEffect(r) \/ PostStepEffect(r)
        PROVE  Tallied(setup, r, pc'[r], st'[r])
    <2>1. /\ pc[r] \in {"load", "post"} /\ pc'[r] \in {"count", "metrics", "load"}
          /\ st'[r].model = st[r].model /\ st'[r].since = st[r].since
          /\ st'[r].bag = st[r].bag /\ st'[r].inf = st[r].inf
      BY <1>1 DEF LoadEffect, PostStepEffect, SameModel, SameStep, SameBags, SameGrads
    <2>2. pc[r] \notin Active \cup {"failed"} /\ pc'[r] \notin Active
      BY <2>1 DEF Active, Within
    <2> QED
      BY <2>1, <2>2, StayTally
  <1> QED
    BY <1>1, BeginStepTally, RunBatchTally, OverflowTally, AcceptTally DEF LocalEffect

LEMMA LocalTallyOK ==
    ASSUME StepsTypeOK, StepsTypeOK', HandOK, InHand, HeldBehind, TallyOK,
           NEW r \in Ranks, LocalEffect(r)
    PROVE  TallyOK'
  <1>1. Others(r) /\ Job
    BY LocalAhead
  <1> SUFFICES ASSUME Training, NEW q \in Ranks
               PROVE  /\ Tallied(setup, q, pc'[q], st'[q])
                      /\ KeptTallied(q, snaps'[q]) /\ KeptTallied(q, whole'[q])
    <2>1. setup' = setup /\ (Training' <=> Training)
      BY <1>1 DEF Job, Training
    <2>2. Training' => \A q \in Ranks : /\ Tallied(setup', q, pc'[q], st'[q])
                                        /\ KeptTallied(q, snaps'[q]) /\ KeptTallied(q, whole'[q])
      BY <2>1
    <2> QED
      BY <2>2 DEF TallyOK, Tallied, Sums, KeptTallied
  <1>2. \A p \in Ranks : /\ Tallied(setup, p, pc[p], st[p])
                         /\ KeptTallied(p, snaps[p]) /\ KeptTallied(p, whole[p])
    BY DEF TallyOK
  <1>3. Tallied(setup, q, pc'[q], st'[q])
    <2>1. Tallied(setup, r, pc'[r], st'[r])
      BY <1>2, LocalTally
    <2> QED
      BY <1>1, <1>2, <2>1 DEF Others
  <1>4. CASE Disk
    BY <1>2, <1>3, <1>4 DEF Disk
  <1>5. CASE PostStepEffect(r)
    <2> DEFINE kept == Keep(st[r])
    <2>1. kept.model = st[r].model /\ kept.total = st[r].bag.total
      BY KeepIs
    <2>2. pc[r] \notin Active \cup {"failed"}
      BY <1>5 DEF PostStepEffect, Active, Within
    <2>3. /\ IsFiniteSet(Given(r, st[r].model, 1))
          /\ st[r].bag.total = Cardinality(Given(r, st[r].model, 1)) + 0
      BY <1>2, <2>2 DEF Tallied, Sums
    <2>4. Cardinality(Given(r, st[r].model, 1)) \in Nat
      BY <2>3, FS_CardinalityType
    <2>5. KeptTallied(r, kept)
      <3> HIDE DEF kept
      <3> QED
        BY <2>1, <2>3, <2>4 DEF KeptTallied
    <2>6. \A p \in Ranks : snaps'[p] = IF p = r /\ snaps' # snaps THEN kept ELSE snaps[p]
      BY <1>5 DEF PostStepEffect, StepsTypeOK
    <2> HIDE DEF kept
    <2>7. \A p \in Ranks : KeptTallied(p, snaps'[p])
      BY <1>2, <2>5, <2>6
    <2>8. whole' = whole \/ whole' = snaps'
      BY <1>5 DEF PostStepEffect
    <2> QED
      BY <1>2, <1>3, <2>7, <2>8
  <1> QED
    BY <1>4, <1>5
    DEF LocalEffect, LoadEffect, BeginStepEffect, RunBatchEffect, OverflowEffect, AcceptEffect

\* A gradient that is reduced has of each rank what the rank has added itself.
LEMMA ReduceTally ==
    ASSUME StepsTypeOK, HandOK, ShareInv, ReduceEffect, Training,
           \A q \in Ranks : Tallied(setup, q, pc[q], st[q]), NEW r \in Ranks
    PROVE  Tallied(setup, r, pc'[r], st'[r])
  <1> DEFINE U == UNION {st[q].grads : q \in Ranks}
  <1>1. \A q \in Ranks : pc[q] = "reduce" /\ InStep(q)
    BY DEF ReduceEffect, InStep, Within
  <1>2. \A q \in Ranks : \A e \in st[q].grads : e[1] = r => e \in st[r].grads
    <2> SUFFICES ASSUME NEW q \in Ranks, NEW e \in st[q].grads, e[1] = r PROVE e \in st[r].grads
      OBVIOUS
    <2>1. Even(q, r)
      BY <1>1 DEF ShareInv, SharesOK
    <2>2. e \in Own(r)
      BY <1>1, <2>1 DEF Even
    <2> QED
      BY <1>1, <2>2 DEF Own
  <1>3. Of(r, U) = Of(r, st[r].grads)
    BY <1>2 DEF Of
  <1> HIDE DEF U
  <1>4. /\ st'[r].model = st[r].model /\ st'[r].since = st[r].since /\ SameBags(st[r], st'[r])
        /\ st'[r].grads = U /\ pc[r] \in Active /\ pc'[r] \in Active
    BY DEF ReduceEffect, SameModel, SameStep, Active, Within, U
  <1>5. st'[r].inf => setup.fp16
    <2>1. \A q \in Ranks : st[q].inf => setup.fp16
      BY DEF Tallied
    <2> QED
      BY <2>1 DEF ReduceEffect
  <1> QED
    BY <1>3, <1>4, <1>5, StepTally

\* The lapse begins anew where the step number counts the steps of the model.
LEMMA BarrierTally ==
    ASSUME StepsTypeOK, Training, NEW r \in Ranks, Counts(r), Tallied(setup, r, pc[r], st[r]),
           BarrierEffect
    PROVE  Tallied(setup, r, pc'[r], st'[r])
  <1> DEFINE s == st[r]
             u == st'[r]
             m == s.model
  <1>1. /\ pc[r] \notin Active \cup {"failed"} /\ pc'[r] \notin Active
        /\ u.model = m /\ u.since = s.stepNr /\ u.inf = s.inf /\ u.bag = [s.bag EXCEPT !.now = 0]
    BY DEF BarrierEffect, Active, Within, SameGrads
  <1>2. s.stepNr = Len(m)
    BY <1>1 DEF Counts
  <1>3. m \in Seq(SUBSET Entry) /\ Len(m) \in Nat
    BY HeldIs
  <1>4. s.bag \in Tally
    BY DEF StepsTypeOK, IsState
  <1> HIDE DEF s, u
  <1>5. Tallied(setup, r, pc[r], s)
    BY DEF s
  <1>6. u.bag.now = 0 /\ u.bag.total = s.bag.total
    BY <1>1, <1>4 DEF Tally
  <1>7. /\ IsFiniteSet(Given(r, m, 1)) /\ s.bag.total = Cardinality(Given(r, m, 1)) + 0
        /\ s.inf => setup.fp16
    BY <1>1, <1>5 DEF Tallied, Sums
  <1> HIDE DEF m
  <1>8. Cardinality(Given(r, m, Len(m) + 1)) = 0
    BY <1>3, <1>7, GivenPart
  <1>9. u.since \in 0..Len(m)
    BY <1>1, <1>2, <1>3
  <1>10. Sums(r, u, u.bag, 0)
    BY <1>1, <1>2, <1>6, <1>7, <1>8 DEF Sums
  <1>11. Tallied(setup, r, pc'[r], u)
    BY <1>1, <1>7, <1>9, <1>10 DEF Tallied
  <1> QED
    BY <1>11 DEF u

LEMMA CollectiveTally ==
    ASSUME StepsTypeOK, HandOK, ShareInv, CountersOK, TallyOK, CollectiveEffect
    PROVE  TallyOK'
  <1>1. Disk /\ Job
    BY DEF CollectiveEffect, CountEffect, CountTo, ReduceEffect, NormalizeEffect, UnscaleEffect,
           NormsEffect, PublishEffect, BarrierEffect
  <1> SUFFICES ASSUME Training, NEW r \in Ranks
               PROVE  Tallied(setup, r, pc'[r], st'[r])
    <2>1. setup' = setup /\ (Training' <=> Training) /\ snaps' = snaps /\ whole' = whole
      BY <1>1 DEF Job, Disk, Training
    <2>2. Training' => \A r \in Ranks : /\ Tallied(setup', r, pc'[r], st'[r])
                                        /\ KeptTallied(r, snaps'[r]) /\ KeptTallied(r, whole'[r])
      BY <2>1 DEF TallyOK
    <2> QED
      BY <2>2 DEF TallyOK, Tallied, Sums, KeptTallied
  <1>2. \A q \in Ranks : Tallied(setup, q, pc[q], st[q])
    BY DEF TallyOK
  <1>3. CASE CountEffect \/ PublishEffect
    <2>1. AfterPass(st[r]) \in {"done", "load", "metrics"}
      BY AfterPassIs DEF StepsTypeOK, IsState, IsKept
    <2>2. /\ pc[r] \in {"count", "metrics"} /\ pc'[r] \in {"step", "done", "load", "metrics", "barrier"}
          /\ st'[r].model = st[r].model /\ st'[r].since = st[r].since
          /\ st'[r].bag = st[r].bag /\ st'[r].inf = st[r].inf
      BY <1>3, <2>1
      DEF CountEffect, CountTo, PublishEffect, SameModel, SameStep, SameBags, SameGrads
    <2>3. pc[r] \notin Active \cup {"failed"} /\ pc'[r] \notin Active
      BY <2>2 DEF Active, Within
    <2> QED
      BY <1>2, <2>2, <2>3, StayTally
  <1>4. CASE NormalizeEffect \/ UnscaleEffect \/ NormsEffect
    <2>1. /\ pc[r] \in Active /\ pc'[r] \in Active
          /\ st'[r].model = st[r].model /\ st'[r].since = st[r].since /\ SameBags(st[r], st'[r])
          /\ st'[r].grads = st[r].grads
          /\ st'[r].inf => \E q \in Ranks : st[q].inf
      BY <1>4 DEF NormalizeEffect, UnscaleEffect, NormsEffect, SameModel, SameStep, SameBags,
                  Active, Within
    <2>2. st'[r].inf => setup.fp16
      BY <1>2, <2>1 DEF Tallied
    <2> QED
      BY <1>2, <2>1, <2>2, StepTally
  <1>5. CASE ReduceEffect
    BY <1>2, <1>5, ReduceTally
  <1>6. CASE BarrierEffect
    BY <1>2, <1>6, BarrierTally DEF CountersOK
  <1> QED
    BY <1>3, <1>4, <1>5, <1>6 DEF CollectiveEffect

\* A process that starts from what was kept.
LEMMA BeginTally ==
    ASSUME NEW t, NEW r, NEW p, NEW k, KeptTallied(r, k), k.stepNr = Len(k.model),
           Len(k.model) \in Nat, p \in {"load", "done"}
    PROVE  Tallied(t, r, p, Begin(k))
  <1> DEFINE u == Begin(k)
             m == k.model
  <1>1. /\ u.model = m /\ u.since = Len(m) /\ u.inf = FALSE /\ u.bag.now = 0
        /\ u.bag.total = k.total
    <2>1. /\ u.model = k.model /\ u.since = k.stepNr /\ u.inf = FALSE
          /\ u.bag = [now |-> 0, total |-> k.total]
      BY BeginIs
    <2> HIDE DEF u
    <2> QED
      BY <2>1
  <1> HIDE DEF u
  <1>2. /\ IsFiniteSet(Given(r, m, 1)) /\ k.total = Cardinality(Given(r, m, 1))
        /\ Len(m) \in Nat
    BY DEF KeptTallied
  <1> HIDE DEF m
  <1>3. Cardinality(Given(r, m, Len(m) + 1)) = 0 /\ Cardinality(Given(r, m, 1)) \in Nat
    BY <1>2, GivenPart, FS_CardinalityType
  <1>4. Sums(r, u, u.bag, 0)
    BY <1>1, <1>2, <1>3 DEF Sums
  <1>5. p \notin Active
    BY DEF Active, Within
  <1>6. Tallied(t, r, p, u)
    BY <1>1, <1>2, <1>4, <1>5 DEF Tallied
  <1> QED
    BY <1>6 DEF u

LEMMA KillJobTally ==
    ASSUME StepsTypeOK, CountersOK, TallyOK, KillJobEffect
    PROVE  TallyOK'
  <1>1. /\ Training /\ setup' = setup /\ snaps' = whole /\ whole' = whole
        /\ \A r \in Ranks : st'[r] = Begin(whole[r]) /\ pc'[r] \in {"load", "done"}
    BY DEF KillJobEffect
  <1>2. \A r \in Ranks : KeptTallied(r, whole[r])
    BY <1>1 DEF TallyOK
  <1>3. \A r \in Ranks : whole[r].stepNr = Len(whole[r].model) /\ Len(whole[r].model) \in Nat
    BY <1>1 DEF CountersOK, Keeps, StepsTypeOK, IsKept
  <1>4. \A r \in Ranks : Tallied(setup, r, pc'[r], st'[r])
    BY <1>1, <1>2, <1>3, BeginTally
  <1>5. \A r \in Ranks : /\ Tallied(setup', r, pc'[r], st'[r])
                         /\ KeptTallied(r, snaps'[r]) /\ KeptTallied(r, whole'[r])
    BY <1>1, <1>2, <1>4
  <1> QED
    BY <1>5 DEF TallyOK, Tallied, Sums, KeptTallied

TallyInv == OnceInv /\ TallyOK

LEMMA TallyInit == StepsInit => TallyInv
  <1> SUFFICES ASSUME StepsInit PROVE TallyOK
    BY OnceInit DEF TallyInv
  <1>1. \A r \in Ranks : /\ pc[r] = "load" /\ st[r] = Begin(Fresh)
                         /\ snaps[r] = Fresh /\ whole[r] = Fresh
    BY DEF StepsInit
  <1>2. Fresh.model = <<>> /\ Fresh.stepNr = 0 /\ Fresh.total = 0
    BY FreshIs
  <1>3. Len(<<>>) = 0
    OBVIOUS
  <1>4. \A r \in Ranks : KeptTallied(r, Fresh)
    BY <1>2, GivenNone DEF KeptTallied
  <1>5. \A r \in Ranks : Tallied(setup, r, "load", Begin(Fresh))
    BY <1>2, <1>3, <1>4, BeginTally
  <1> QED
    BY <1>1, <1>4, <1>5 DEF TallyOK

LEMMA TallyNext == ASSUME TallyInv, [StepsNext]_stepVars PROVE TallyInv'
  <1>1. OnceInv /\ OnceInv'
    BY OnceNext DEF TallyInv
  <1>2. StepsTypeOK /\ HandOK /\ StepsTypeOK' /\ CountersOK /\ InHand /\ HeldBehind /\ ShareInv
    BY <1>1 DEF OnceInv, AgreeInv, TypeInv, BehindInv
  <1>3. TallyOK
    BY DEF TallyInv
  <1>4. CASE UNCHANGED stepVars
    <2>1. setup' = setup /\ pc' = pc /\ st' = st /\ snaps' = snaps /\ whole' = whole
      BY <1>4 DEF stepVars
    <2> QED
      BY <1>1, <1>3, <2>1 DEF TallyInv, TallyOK, Tallied, Sums, KeptTallied, Training
  <1>5. ASSUME NEW r \in Ranks, LocalEffect(r) PROVE TallyInv'
    BY <1>1, <1>2, <1>3, <1>5, LocalTallyOK DEF TallyInv
  <1>6. ASSUME CollectiveEffect PROVE TallyInv'
    BY <1>1, <1>2, <1>3, <1>6, CollectiveTally DEF TallyInv
  <1>7. ASSUME KillJobEffect PROVE TallyInv'
    BY <1>1, <1>2, <1>3, <1>7, KillJobTally DEF TallyInv
  <1> QED
    BY <1>2, <1>4, <1>5, <1>6, <1>7, NextDoes

\* Outside a step the metrics have counted the batches of the steps that were made, in the
\* lapse and in all, whatever has overflowed, been published, or been lost with a killed job.
THEOREM MetricsCountSteps == StepsSpec => []MetricsExact
  <1>1. TallyInv => MetricsExact
    <2> SUFFICES ASSUME TallyInv, Training, NEW r \in Ranks,
                        pc[r] \in {"load", "count", "step", "post", "metrics", "done"}
                 PROVE  st[r].bag = [now |-> InSteps(r, st[r].since + 1), total |-> InSteps(r, 1)]
      BY DEF MetricsExact
    <2> DEFINE m == st[r].model
               b == st[r].bag
               from == st[r].since + 1
    <2>1. Tallied(setup, r, pc[r], st[r]) /\ pc[r] \notin Active \cup {"failed"}
      BY DEF TallyInv, TallyOK, Active, Within
    <2>2. /\ IsFiniteSet(Given(r, m, 1)) /\ st[r].since \in 0..Len(m)
          /\ b.now = Cardinality(Given(r, m, from)) + 0
          /\ b.total = Cardinality(Given(r, m, 1)) + 0
      BY <2>1 DEF Tallied, Sums
    <2>3. StepsTypeOK /\ Len(m) \in Nat /\ b \in Tally
      BY HeldIs DEF TallyInv, OnceInv, AgreeInv, TypeInv, StepsTypeOK, IsState
    <2>4. from \in 1..(Len(m) + 1) /\ 1 \in 1..(Len(m) + 1)
      BY <2>2, <2>3
    <2> HIDE DEF m, b, from
    <2>5. Cardinality(Given(r, m, from)) \in Nat /\ Cardinality(Given(r, m, 1)) \in Nat
      BY <2>2, <2>3, <2>4, GivenPart
    <2>6. b = [now |-> b.now, total |-> b.total]
      BY <2>3 DEF Tally
    <2>7. b = [now |-> Cardinality(Given(r, m, from)), total |-> Cardinality(Given(r, m, 1))]
      BY <2>2, <2>5, <2>6
    <2> QED
      BY <2>7 DEF InSteps, m, b, from
  <1>2. TallyInv /\ [StepsNext]_stepVars => TallyInv'
    BY TallyNext
  <1> QED
    BY <1>1, <1>2, TallyInit, PTL DEF StepsSpec

-----------------------------------------------------------------------------
(***************************************************************************)
(* A pass runs the data it should.                                         *)
(***************************************************************************)
Multiple(a, n) == \E i \in Nat : n = a * i

\* 1, 2, 3, ...: the batches a rank has run in this pass, in its shard's order.
InOrder(s) == \A i \in DOMAIN s : s[i] = i

\* How many of its shard's batches a rank will have run when it next loads some.
DueOf(p, s) == IF p = "count" THEN Len(s.ran) ELSE Len(s.ran) + Len(s.batches)

\* A data reader's position b, when d batches of its shard will have been run: with the task
\* t it has gone further only if the shortest shard has been run, or if the rest of
\* its own shard, less than a full accumulation, was dropped.
Fits(t, r, d, b) ==
    /\ d \in Nat /\ b \in Nat /\ d <= b /\ b <= Len(t.shards[r])
    /\ t.drop => Multiple(t.acc, d)
    /\ \/ b = d
       \/ t.mode = "UNTIL_FIRST" /\ ~t.drop /\ \E q \in Ranks : Len(t.shards[q]) = d
       \/ t.mode = "UNTIL_LAST" /\ t.drop /\ b = Len(t.shards[r]) /\ b < d + t.acc

\* What was loaded at the position b.
Drawn(t, r, b, s) ==
    \E n \in Nat :
        /\ n <= t.acc /\ (n = t.acc \/ b + n = Len(t.shards[r])) /\ s.read = b + n
        /\ Len(s.batches) = IF t.drop /\ n # t.acc THEN 0 ELSE n
        /\ \A i \in 1..Len(s.batches) : s.batches[i] = b + i

Orderly(t, r, p, s) ==
    /\ InOrder(s.ran)
    /\ p # "count" => /\ Fits(t, r, DueOf(p, s), s.read)
                      /\ \A i \in 1..Len(s.batches) : s.batches[i] = Len(s.ran) + i
    /\ p = "count" => \E b \in Nat : Fits(t, r, DueOf(p, s), b) /\ Drawn(t, r, b, s)
    /\ p \notin {"count", "step", "batch", "reduce"} => s.batches = <<>>

DataOK == \A r \in Ranks : Orderly(setup, r, pc[r], st[r])

\* Until the first shard ends, the ranks run as many batches as one another.
DueOK ==
    setup.mode = "UNTIL_FIRST" => \A q, r \in Ranks : DueOf(pc[q], st[q]) = DueOf(pc[r], st[r])

LEMMA MultipleIs ==
    ASSUME NEW a \in Nat, NEW n \in Nat, Multiple(a, n)
    PROVE  Multiple(a, n + a)
  <1>1. PICK i \in Nat : n = a * i
    BY DEF Multiple
  <1>2. i + 1 \in Nat /\ a * (i + 1) = a * i + a
    OBVIOUS
  <1> QED
    BY <1>1, <1>2 DEF Multiple

\* Rounding down to a multiple.
LEMMA FullIs ==
    ASSUME NEW a \in Nat, a # 0, NEW n \in Nat, NEW k \in Nat, Multiple(a, k), k <= n, n < k + a
    PROVE  (n \div a) * a = k
  <1>1. PICK i \in Nat : k = a * i
    BY DEF Multiple
  <1> DEFINE j == n \div a
             m == n % a
  <1>2. n = a * j + m /\ 0 <= m /\ m < a /\ j \in Int /\ m \in Int
    OBVIOUS
  <1> HIDE DEF j, m
  <1>3. a * j < a * (i + 1) /\ a * i < a * (j + 1)
    BY <1>1, <1>2
  <1>4. j < i + 1 /\ i < j + 1
    BY <1>2, <1>3
  <1>5. i = j
    BY <1>2, <1>4
  <1> QED
    BY <1>1, <1>2, <1>5 DEF j

LEMMA DataTyped ==
    ASSUME StepsTypeOK, NEW r \in Ranks
    PROVE  /\ st[r].ran \in Seq(Nat) /\ st[r].batches \in Seq(1..Len(Shard(r)))
           /\ Len(Shard(r)) \in Nat /\ st[r].read \in Nat /\ st[r].read <= Len(Shard(r))
           /\ setup.acc \in Nat /\ setup.acc # 0 /\ Shard(r) = setup.shards[r]
  <1>1. IsState(r, st[r]) /\ IsKept(r, st[r])
    BY DEF StepsTypeOK, IsState
  <1>2. st[r].ran \in Seq(Nat) /\ st[r].read \in 0..Len(Shard(r))
    BY <1>1 DEF IsKept
  <1>3. st[r].batches \in Seq(1..Len(Shard(r)))
    BY <1>1 DEF IsState
  <1>4. Len(Shard(r)) \in Nat /\ setup.acc \in Nat /\ setup.acc # 0
    BY SetupIs
  <1>5. st[r].read \in Nat /\ st[r].read <= Len(Shard(r))
    BY <1>2, <1>4
  <1>6. Shard(r) = setup.shards[r]
    BY DEF Shard
  <1> QED
    BY <1>2, <1>3, <1>4, <1>5, <1>6

LEMMA HandLens ==
    ASSUME StepsTypeOK, NEW r \in Ranks
    PROVE  Len(st[r].ran) \in Nat /\ Len(st[r].batches) \in Nat
  BY DataTyped

\* Steps that leave the data of a rank alone.
LEMMA StayOrder ==
    ASSUME NEW t, NEW r, NEW p, NEW s, NEW p2, NEW s2, Orderly(t, r, p, s), SameData(s, s2),
           p # "count", p2 # "count",
           p2 \notin {"step", "batch", "reduce"} => s.batches = <<>>
    PROVE  Orderly(t, r, p2, s2) /\ DueOf(p2, s2) = DueOf(p, s)
  <1>1. DueOf(p2, s2) = DueOf(p, s)
    BY DEF DueOf, SameData
  <1> QED
    BY <1>1 DEF Orderly, SameData

LEMMA LoadOrder ==
    ASSUME StepsTypeOK, NEW r \in Ranks, LoadEffect(r), Orderly(setup, r, pc[r], st[r])
    PROVE  Orderly(setup, r, pc'[r], st'[r]) /\ DueOf(pc'[r], st'[r]) = DueOf(pc[r], st[r])
  <1>1. pc[r] = "load" /\ pc'[r] = "count" /\ st'[r].ran = st[r].ran
    BY DEF LoadEffect
  <1>2. /\ st[r].batches = <<>> /\ Fits(setup, r, DueOf(pc[r], st[r]), st[r].read)
        /\ InOrder(st[r].ran)
    BY <1>1 DEF Orderly
  <1>3. DueOf(pc[r], st[r]) = Len(st[r].ran) /\ DueOf(pc'[r], st'[r]) = Len(st[r].ran)
    <2>1. Len(st[r].ran) \in Nat /\ Len(<<>>) = 0
      BY HandLens
    <2>2. DueOf(pc[r], st[r]) = Len(st[r].ran) + Len(st[r].batches)
      BY <1>1 DEF DueOf
    <2>3. Len(st[r].batches) = 0
      BY <1>2, <2>1
    <2>4. DueOf(pc'[r], st'[r]) = Len(st[r].ran)
      BY <1>1 DEF DueOf
    <2> DEFINE n == Len(st[r].ran)
               d == DueOf(pc[r], st[r])
               k == Len(st[r].batches)
    <2>5. n \in Nat /\ d = n + k /\ k = 0
      BY <2>1, <2>2, <2>3
    <2> HIDE DEF n, d, k
    <2>6. d = n
      BY <2>5
    <2> QED
      BY <2>4, <2>6 DEF n, d
  <1>4. st[r].read \in Nat /\ Shard(r) = setup.shards[r]
    BY DataTyped
  <1>5. Drawn(setup, r, st[r].read, st'[r])
    BY <1>4 DEF LoadEffect, Drawn
  <1>6. \E b \in Nat : Fits(setup, r, DueOf(pc'[r], st'[r]), b) /\ Drawn(setup, r, b, st'[r])
    BY <1>2, <1>3, <1>4, <1>5
  <1> QED
    BY <1>1, <1>2, <1>3, <1>6 DEF Orderly

\* The batches in hand follow those that were run.
LEMMA OrderGrows ==
    ASSUME NEW a \in Seq(Nat), NEW T, NEW b \in Seq(T), T \subseteq Nat, InOrder(a),
           \A i \in 1..Len(b) : b[i] = Len(a) + i
    PROVE  InOrder(a \o b) /\ Len(a \o b) = Len(a) + Len(b)
  <1>1. b \in Seq(Nat)
    OBVIOUS
  <1>2. Len(a \o b) = Len(a) + Len(b) /\ DOMAIN (a \o b) = 1..(Len(a) + Len(b))
    BY <1>1
  <1>3. \A i \in 1..(Len(a) + Len(b)) : (a \o b)[i] = IF i <= Len(a) THEN a[i] ELSE b[i - Len(a)]
    BY <1>1
  <1>4. ASSUME NEW i \in 1..(Len(a) + Len(b)) PROVE (a \o b)[i] = i
    <2>1. CASE i <= Len(a)
      <3>1. i \in DOMAIN a
        BY <2>1
      <3> QED
        BY <1>3, <2>1, <3>1 DEF InOrder
    <2>2. CASE ~(i <= Len(a))
      <3>1. i - Len(a) \in 1..Len(b)
        BY <1>1, <2>2
      <3>2. b[i - Len(a)] = Len(a) + (i - Len(a))
        BY <3>1
      <3> QED
        BY <1>3, <2>2, <3>2
    <2> QED
      BY <2>1, <2>2
  <1> QED
    BY <1>2, <1>4 DEF InOrder

LEMMA BeginStepOrder ==
    ASSUME StepsTypeOK, NEW r \in Ranks, BeginStepEffect(r), Orderly(setup, r, pc[r], st[r])
    PROVE  Orderly(setup, r, pc'[r], st'[r]) /\ DueOf(pc'[r], st'[r]) = DueOf(pc[r], st[r])
  <1>1. CASE Training
    <2>1. pc[r] = "step" /\ pc'[r] = "batch" /\ SameData(st[r], st'[r])
      BY <1>1 DEF BeginStepEffect, SameData
    <2> QED
      BY <2>1, StayOrder
  <1>2. CASE ~Training
    <2> DEFINE a == st[r].ran
               b == st[r].batches
               T == 1..Len(Shard(r))
    <2>1. /\ pc[r] = "step" /\ pc'[r] = "load" /\ st'[r].read = st[r].read
          /\ st'[r].batches = <<>> /\ st'[r].ran = a \o b
      BY <1>2 DEF BeginStepEffect
    <2>2. a \in Seq(Nat) /\ b \in Seq(T) /\ T \subseteq Nat /\ Len(a) \in Nat /\ Len(b) \in Nat
      BY DataTyped
    <2>3. /\ InOrder(a) /\ \A i \in 1..Len(b) : b[i] = Len(a) + i
          /\ Fits(setup, r, Len(a) + Len(b), st[r].read)
      BY <2>1 DEF Orderly, DueOf
    <2> HIDE DEF a, b, T
    <2>4. InOrder(a \o b) /\ Len(a \o b) = Len(a) + Len(b)
      BY <2>2, <2>3, OrderGrows
    <2>5. DueOf(pc'[r], st'[r]) = Len(a) + Len(b)
      BY <2>1, <2>2, <2>4 DEF DueOf
    <2>6. DueOf(pc[r], st[r]) = Len(a) + Len(b)
      BY <2>1 DEF DueOf, a, b
    <2>7. \A i \in 1..Len(st'[r].batches) : st'[r].batches[i] = Len(st'[r].ran) + i
      BY <2>1
    <2> QED
      BY <2>1, <2>3, <2>4, <2>5, <2>6, <2>7 DEF Orderly
  <1> QED
    BY <1>1, <1>2

LEMMA RunBatchOrder ==
    ASSUME StepsTypeOK, HandOK, NEW r \in Ranks, RunBatchEffect(r), Orderly(setup, r, pc[r], st[r])
    PROVE  Orderly(setup, r, pc'[r], st'[r]) /\ DueOf(pc'[r], st'[r]) = DueOf(pc[r], st[r])
  <1> DEFINE a == st[r].ran
             b == st[r].batches
             h == Head(b)
             T == 1..Len(Shard(r))
  <1>1. /\ pc[r] = "batch" /\ pc'[r] \in {"batch", "reduce"} /\ st'[r].read = st[r].read
        /\ st'[r].batches = Tail(b) /\ st'[r].ran = Append(a, h)
    BY DEF RunBatchEffect
  <1>2. b # <<>>
    BY <1>1 DEF HandOK, RunBatchEffect
  <1>3. a \in Seq(Nat) /\ b \in Seq(T) /\ T \subseteq Nat /\ Len(a) \in Nat /\ DOMAIN a = 1..Len(a)
    BY DataTyped
  <1>4. /\ InOrder(a) /\ \A i \in 1..Len(b) : b[i] = Len(a) + i
        /\ Fits(setup, r, Len(a) + Len(b), st[r].read)
    BY <1>1 DEF Orderly, DueOf
  <1> HIDE DEF a, b, T
  <1>5. /\ h = b[1] /\ Len(b) \in Nat /\ Len(b) >= 1 /\ Len(Tail(b)) = Len(b) - 1
        /\ \A i \in 1..(Len(b) - 1) : Tail(b)[i] = b[i + 1]
    BY <1>2, <1>3, TailIs
  <1>6. h = Len(a) + 1
    BY <1>4, <1>5
  <1> HIDE DEF h
  <1>7. /\ Len(Append(a, h)) = Len(a) + 1 /\ DOMAIN Append(a, h) = 1..(Len(a) + 1)
        /\ \A i \in 1..Len(a) : Append(a, h)[i] = a[i]
        /\ Append(a, h)[Len(a) + 1] = h
    BY <1>3, <1>6, AppendIs
  <1>8. InOrder(Append(a, h))
    <2> SUFFICES ASSUME NEW i \in 1..(Len(a) + 1) PROVE Append(a, h)[i] = i
      BY <1>7 DEF InOrder
    <2>1. CASE i = Len(a) + 1
      BY <1>6, <1>7, <2>1
    <2>2. CASE i # Len(a) + 1
      <3>1. i \in 1..Len(a)
        BY <1>3, <2>2
      <3> QED
        BY <1>3, <1>4, <1>7, <3>1 DEF InOrder
    <2> QED
      BY <2>1, <2>2
  <1>9. \A i \in 1..Len(Tail(b)) : Tail(b)[i] = Len(Append(a, h)) + i
    <2> SUFFICES ASSUME NEW i \in 1..(Len(b) - 1) PROVE b[i + 1] = (Len(a) + 1) + i
      BY <1>5, <1>7
    <2>1. i + 1 \in 1..Len(b)
      BY <1>5
    <2>2. b[i + 1] = Len(a) + (i + 1)
      BY <1>4, <2>1
    <2> QED
      BY <1>3, <2>2
  <1>10. Len(Append(a, h)) + Len(Tail(b)) = Len(a) + Len(b)
    <2> DEFINE n == Len(a)
               k == Len(b)
               l == Len(Tail(b))
               j == Len(Append(a, h))
    <2>1. n \in Nat /\ k \in Nat /\ l = k - 1 /\ j = n + 1
      BY <1>3, <1>5, <1>7
    <2> HIDE DEF n, k, l, j
    <2>2. j + l = n + k
      BY <2>1
    <2> QED
      BY <2>2 DEF n, k, l, j
  <1>11. DueOf(pc'[r], st'[r]) = Len(a) + Len(b)
    <2>1. DueOf(pc'[r], st'[r]) = Len(Append(a, h)) + Len(Tail(b))
      BY <1>1 DEF DueOf
    <2> QED
      BY <1>10, <2>1
  <1>12. DueOf(pc[r], st[r]) = Len(a) + Len(b)
    BY <1>1 DEF DueOf, a, b
  <1> QED
    BY <1>1, <1>4, <1>8, <1>9, <1>11, <1>12 DEF Orderly

LEMMA LocalOrder ==
    ASSUME StepsTypeOK, HandOK, DataOK, NEW r \in Ranks, LocalEffect(r)
    PROVE  \A q \in Ranks : /\ Orderly(setup, q, pc'[q], st'[q])
                            /\ DueOf(pc'[q], st'[q]) = DueOf(pc[q], st[q])
  <1>1. \A q \in Ranks : Orderly(setup, q, pc[q], st[q])
    BY DEF DataOK
  <1>2. Others(r)
    BY DEF LocalEffect, LoadEffect, BeginStepEffect, RunBatchEffect, OverflowEffect,
           AcceptEffect, PostStepEffect
  <1>3. Orderly(setup, r, pc'[r], st'[r]) /\ DueOf(pc'[r], st'[r]) = DueOf(pc[r], st[r])
    <2>1. CASE LoadEffect(r) \/ BeginStepEffect(r) \/ RunBatchEffect(r)
      BY <1>1, <2>1, LoadOrder, BeginStepOrder, RunBatchOrder
    <2>2. CASE OverflowEffect(r) \/ AcceptEffect(r) \/ PostStepEffect(r)
      <3>1. /\ pc[r] \in {"update", "post"} /\ SameData(st[r], st'[r])
            /\ pc'[r] \in {"failed", "load", "post", "metrics"}
        BY <2>2 DEF OverflowEffect, AcceptEffect, PostStepEffect, SameData
      <3>2. st[r].batches = <<>>
        BY <1>1, <3>1 DEF Orderly
      <3> QED
        BY <1>1, <3>1, <3>2, StayOrder
    <2> QED
      BY <2>1, <2>2 DEF LocalEffect
  <1> QED
    BY <1>1, <1>2, <1>3 DEF Others

\* A pass begins.
LEMMA FreshOrder ==
    ASSUME NEW t, NEW r, NEW p, NEW s, p # "count", t.acc \in Nat, Len(t.shards[r]) \in Nat,
           s.ran = <<>>, s.batches = <<>>, s.read = 0
    PROVE  Orderly(t, r, p, s) /\ DueOf(p, s) = 0
  <1>1. DueOf(p, s) = 0
    BY DEF DueOf
  <1>2. Multiple(t.acc, 0)
    <2>1. 0 = t.acc * 0
      OBVIOUS
    <2> QED
      BY <2>1 DEF Multiple
  <1>3. Fits(t, r, 0, 0)
    BY <1>2 DEF Fits
  <1> QED
    BY <1>1, <1>3 DEF Orderly, InOrder

\* What was loaded is run, until the last shard ends.
LEMMA FitsLast ==
    ASSUME NEW t, NEW r, NEW d, NEW b, NEW n \in Nat, NEW k, Fits(t, r, d, b),
           t.mode = "UNTIL_LAST", t.acc \in Nat, t.acc # 0, Len(t.shards[r]) \in Nat,
           n <= t.acc, n = t.acc \/ b + n = Len(t.shards[r]), b + n <= Len(t.shards[r]),
           k = IF t.drop /\ n # t.acc THEN 0 ELSE n
    PROVE  Fits(t, r, d + k, b + n) /\ (k = 0 \/ b = d)
  <1> DEFINE a == t.acc
             l == Len(t.shards[r])
  <1>1. /\ d \in Nat /\ b \in Nat /\ d <= b /\ b <= l /\ (t.drop => Multiple(a, d))
        /\ b = d \/ (t.drop /\ b = l /\ b < d + a)
    BY DEF Fits
  <1>2. a \in Nat /\ a # 0 /\ l \in Nat /\ n <= a /\ (n = a \/ b + n = l) /\ b + n <= l
    OBVIOUS
  <1>3. CASE t.drop /\ n # a
    <2>1. k = 0 /\ d + k = d
      BY <1>1, <1>3
    <2>2. b + n = l /\ b + n < d + a
      <3> HIDE DEF a, l
      <3> QED
        BY <1>1, <1>2, <1>3
    <2> QED
      BY <1>1, <1>2, <1>3, <2>1, <2>2 DEF Fits
  <1>4. CASE ~(t.drop /\ n # a)
    <2>1. k = n
      BY <1>4
    <2>2. b = d
      <3> HIDE DEF a, l
      <3> QED
        BY <1>1, <1>2, <1>4
    <2>3. t.drop => Multiple(a, d + n)
      <3> HIDE DEF a, l
      <3> QED
        BY <1>1, <1>2, <1>4, MultipleIs
    <2> QED
      BY <1>1, <1>2, <2>1, <2>2, <2>3 DEF Fits
  <1> QED
    BY <1>3, <1>4

\* As many of them as rank p has loaded are run, until the first shard ends.
LEMMA FitsFirst ==
    ASSUME NEW t, NEW r, NEW p \in Ranks, NEW d, NEW n \in Nat, NEW m \in Nat, Fits(t, r, d, d),
           t.mode = "UNTIL_FIRST", t.acc \in Nat,
           Len(t.shards[r]) \in Nat, Len(t.shards[p]) \in Nat,
           d + n <= Len(t.shards[r]), m <= n, n <= t.acc,
           m = t.acc \/ d + m = Len(t.shards[p]), t.drop => m = t.acc
    PROVE  Fits(t, r, d + m, d + n)
  <1> DEFINE a == t.acc
             l == Len(t.shards[r])
             k == Len(t.shards[p])
  <1>1. d \in Nat /\ (t.drop => Multiple(a, d))
    BY DEF Fits
  <1>2. /\ a \in Nat /\ l \in Nat /\ k \in Nat /\ d + n <= l /\ n <= a
        /\ (m = a \/ d + m = k) /\ (t.drop => m = a)
    OBVIOUS
  <1>3. t.drop => Multiple(a, d + m)
    <2> HIDE DEF a, l, k
    <2> QED
      BY <1>1, <1>2, MultipleIs
  <1>4. d + m \in Nat /\ d + n \in Nat /\ d + m <= d + n
    BY <1>1
  <1>5. d + n = d + m \/ (~t.drop /\ d + m = k)
    <2> HIDE DEF a, l, k
    <2> QED
      BY <1>1, <1>2
  <1> QED
    BY <1>2, <1>3, <1>4, <1>5 DEF Fits

\* Rank r waits with the n batches it has loaded at the position b.
Loaded(r, b, n) ==
    LET t == setup IN
    /\ b \in Nat /\ n \in Nat /\ Fits(t, r, Len(st[r].ran), b)
    /\ n <= t.acc /\ (n = t.acc \/ b + n = Len(t.shards[r])) /\ b + n <= Len(t.shards[r])
    /\ st[r].read = b + n
    /\ Len(st[r].batches) = IF t.drop /\ n # t.acc THEN 0 ELSE n
    /\ \A i \in 1..Len(st[r].batches) : st[r].batches[i] = b + i

LEMMA LoadedIs ==
    ASSUME StepsTypeOK, DataOK, NEW r \in Ranks, pc[r] = "count"
    PROVE  InOrder(st[r].ran) /\ \E b, n \in Nat : Loaded(r, b, n)
  <1>1. Orderly(setup, r, pc[r], st[r])
    BY DEF DataOK
  <1>2. PICK b \in Nat : Fits(setup, r, Len(st[r].ran), b) /\ Drawn(setup, r, b, st[r])
    BY <1>1 DEF Orderly, DueOf
  <1>3. PICK n \in Nat :
           /\ n <= setup.acc /\ (n = setup.acc \/ b + n = Len(setup.shards[r]))
           /\ st[r].read = b + n
           /\ Len(st[r].batches) = IF setup.drop /\ n # setup.acc THEN 0 ELSE n
           /\ \A i \in 1..Len(st[r].batches) : st[r].batches[i] = b + i
    BY <1>2 DEF Drawn
  <1>4. b + n <= Len(setup.shards[r])
    <2>1. st[r].read <= Len(setup.shards[r])
      BY DataTyped
    <2> QED
      BY <1>3, <2>1
  <1>5. Loaded(r, b, n)
    BY <1>2, <1>3, <1>4 DEF Loaded
  <1> QED
    BY <1>1, <1>5 DEF Orderly

LEMMA TaskIs ==
    ASSUME StepsTypeOK
    PROVE  /\ setup.acc \in Nat /\ setup.acc # 0 /\ setup.drop \in BOOLEAN
           /\ setup.mode \in {"UNTIL_FIRST", "UNTIL_LAST"}
           /\ \A r \in Ranks : Len(setup.shards[r]) \in Nat /\ Len(st[r].ran) \in Nat
                               /\ Len(st[r].batches) \in Nat
  BY SetupIs, HandLens DEF Shard

\* If no rank is at its end, no shard has been run when the ranks compare.
LEMMA NoneRun ==
    ASSUME StepsTypeOK, DataOK, DueOK, setup.mode = "UNTIL_FIRST",
           \A q \in Ranks : pc[q] = "count" /\ Len(st[q].batches) # 0,
           NEW r \in Ranks, NEW b, NEW n, Loaded(r, b, n)
    PROVE  b = Len(st[r].ran) /\ Len(st[r].batches) = n /\ ~(setup.drop /\ n # setup.acc)
  <1>1. Len(st[r].batches) = n /\ ~(setup.drop /\ n # setup.acc)
    BY DEF Loaded
  <1>2. ASSUME NEW q \in Ranks, Len(setup.shards[q]) = Len(st[r].ran) PROVE FALSE
    <2>1. PICK c \in Nat, k \in Nat : Loaded(q, c, k)
      BY LoadedIs
    <2>2. Len(st[q].ran) = Len(st[r].ran)
      BY DEF DueOK, DueOf
    <2>3. k # 0
      BY <2>1 DEF Loaded
    <2>4. Len(st[q].ran) <= c /\ c + k <= Len(setup.shards[q])
      BY <2>1 DEF Loaded, Fits
    <2> DEFINE d == Len(st[r].ran)
    <2>5. d \in Nat /\ d <= c /\ c + k <= d
      BY <1>2, <2>2, <2>4, TaskIs
    <2> HIDE DEF d
    <2> QED
      BY <2>1, <2>3, <2>5
  <1>3. Fits(setup, r, Len(st[r].ran), b)
    BY DEF Loaded
  <1>4. b = Len(st[r].ran)
    BY <1>2, <1>3 DEF Fits
  <1> QED
    BY <1>1, <1>4

\* The step that the ranks agreed on.
LEMMA CutOrder ==
    ASSUME StepsTypeOK, DataOK, DueOK, NEW m \in Nat, CountTo(FALSE, m), NEW r \in Ranks
    PROVE  /\ Orderly(setup, r, pc'[r], st'[r])
           /\ setup.mode = "UNTIL_FIRST" => DueOf(pc'[r], st'[r]) = Len(st[r].ran) + m
  <1>1. /\ pc[r] = "count" /\ pc'[r] = "step" /\ st'[r].read = st[r].read
        /\ st'[r].ran = st[r].ran
    BY DEF CountTo, SameModel
  <1>2. InOrder(st[r].ran)
    BY <1>1, LoadedIs
  <1>3. PICK b \in Nat, n \in Nat : Loaded(r, b, n)
    BY <1>1, LoadedIs
  <1> DEFINE d == Len(st[r].ran)
  <1>4. d \in Nat /\ Fits(setup, r, d, b) /\ st[r].read = b + n
    BY <1>3, TaskIs DEF Loaded
  <1>5. DueOf(pc'[r], st'[r]) = d + Len(st'[r].batches)
    BY <1>1 DEF DueOf
  <1>6. CASE setup.mode = "UNTIL_LAST"
    <2>1. st'[r].batches = st[r].batches
      BY <1>6 DEF CountTo
    <2> DEFINE k == Len(st[r].batches)
    <2>2. Fits(setup, r, d + k, b + n) /\ (k = 0 \/ b = d)
      <3>1. k = IF setup.drop /\ n # setup.acc THEN 0 ELSE n
        BY <1>3 DEF Loaded
      <3>2. /\ n <= setup.acc /\ (n = setup.acc \/ b + n = Len(setup.shards[r]))
            /\ b + n <= Len(setup.shards[r])
        BY <1>3 DEF Loaded
      <3> HIDE DEF k, d
      <3> QED
        BY <1>4, <1>6, <3>1, <3>2, TaskIs, FitsLast
    <2>3. \A i \in 1..k : st[r].batches[i] = d + i
      <3>1. \A i \in 1..k : st[r].batches[i] = b + i
        BY <1>3 DEF Loaded
      <3>2. CASE b = d
        BY <3>1, <3>2
      <3>3. CASE k = 0
        BY <3>3
      <3> QED
        BY <2>2, <3>2, <3>3
    <2>4. Fits(setup, r, DueOf(pc'[r], st'[r]), st'[r].read)
      BY <1>1, <1>4, <1>5, <2>1, <2>2
    <2>5. \A i \in 1..Len(st'[r].batches) : st'[r].batches[i] = Len(st'[r].ran) + i
      BY <1>1, <2>1, <2>3
    <2> QED
      BY <1>1, <1>2, <1>6, <2>4, <2>5 DEF Orderly
  <1>7. CASE setup.mode = "UNTIL_FIRST"
    <2>1. st'[r].batches = SubSeq(st[r].batches, 1, m) /\ m # 0
      BY <1>7 DEF CountTo
    <2>2. \A q \in Ranks : pc[q] = "count" /\ Len(st[q].batches) # 0
      <3>1. \A q \in Ranks : pc[q] = "count" /\ m <= Len(st[q].batches)
        BY DEF CountTo
      <3>2. ASSUME NEW q \in Ranks PROVE Len(st[q].batches) # 0
        BY <2>1, <3>1, TaskIs
      <3> QED
        BY <3>1, <3>2
    <2>3. b = d /\ Len(st[r].batches) = n /\ ~(setup.drop /\ n # setup.acc) /\ m <= n
      <3>1. b = d /\ Len(st[r].batches) = n /\ ~(setup.drop /\ n # setup.acc)
        BY <1>3, <1>7, <2>2, NoneRun
      <3>2. m <= Len(st[r].batches)
        BY DEF CountTo
      <3> QED
        BY <3>1, <3>2
    <2>4. PICK p \in Ranks : m = Len(st[p].batches)
      BY DEF CountTo
    <2>5. PICK c \in Nat, k \in Nat : Loaded(p, c, k)
      BY <2>2, LoadedIs
    <2>6. c = Len(st[p].ran) /\ k = m /\ ~(setup.drop /\ k # setup.acc)
      BY <1>7, <2>2, <2>4, <2>5, NoneRun
    <2>7. Len(st[p].ran) = d
      BY <1>1, <1>7, <2>2 DEF DueOK, DueOf
    <2>8. (m = setup.acc \/ d + m = Len(setup.shards[p])) /\ (setup.drop => m = setup.acc)
      BY <2>5, <2>6, <2>7 DEF Loaded
    <2>9. Fits(setup, r, d + m, d + n)
      <3>1. n <= setup.acc /\ d + n <= Len(setup.shards[r])
        BY <1>3, <2>3 DEF Loaded
      <3>2. Fits(setup, r, d, d)
        BY <1>4, <2>3
      <3> HIDE DEF d
      <3> QED
        BY <1>7, <2>3, <2>8, <3>1, <3>2, TaskIs, FitsFirst
    <2>10. Len(st'[r].batches) = m /\ \A i \in 1..m : st'[r].batches[i] = st[r].batches[i]
      <3> DEFINE h == st[r].batches
                 T == 1..Len(Shard(r))
      <3>1. h \in Seq(T) /\ m \in 0..Len(h) /\ st'[r].batches = SubSeq(h, 1, m)
        BY <2>1, <2>3, DataTyped
      <3> HIDE DEF h, T
      <3>2. Len(SubSeq(h, 1, m)) = m /\ \A i \in 1..m : SubSeq(h, 1, m)[i] = h[i]
        BY <3>1, CutIs
      <3> QED
        BY <3>1, <3>2 DEF h
    <2>11. \A i \in 1..Len(st'[r].batches) : st'[r].batches[i] = Len(st'[r].ran) + i
      <3> SUFFICES ASSUME NEW i \in 1..m PROVE st'[r].batches[i] = d + i
        BY <1>1, <2>10
      <3>1. i \in 1..Len(st[r].batches)
        BY <2>3
      <3>2. st[r].batches[i] = b + i
        BY <1>3, <3>1 DEF Loaded
      <3> QED
        BY <2>3, <2>10, <3>2
    <2>12. DueOf(pc'[r], st'[r]) = d + m
      BY <1>5, <2>10
    <2>13. Fits(setup, r, DueOf(pc'[r], st'[r]), st'[r].read)
      BY <1>1, <1>4, <2>3, <2>9, <2>12
    <2> QED
      BY <1>1, <1>2, <2>11, <2>12, <2>13 DEF Orderly
  <1> QED
    BY <1>6, <1>7, TaskIs

LEMMA CountOrder ==
    ASSUME StepsTypeOK, DataOK, DueOK, CountEffect
    PROVE  DataOK' /\ DueOK'
  <1>1. PICK eod \in BOOLEAN, m \in Nat : CountTo(eod, m)
    BY DEF CountEffect
  <1>2. setup' = setup /\ \A r \in Ranks : pc[r] = "count"
    BY <1>1 DEF CountTo, Job
  <1>3. CASE eod
    <2>1. ASSUME NEW r \in Ranks
          PROVE  Orderly(setup, r, pc'[r], st'[r]) /\ DueOf(pc'[r], st'[r]) = 0
      <3>1. AfterPass(st[r]) \in {"done", "load", "metrics"}
        BY AfterPassIs DEF StepsTypeOK, IsState, IsKept
      <3>2. /\ pc'[r] # "count" /\ st'[r].ran = <<>> /\ st'[r].batches = <<>>
            /\ st'[r].read = 0
        BY <1>1, <1>3, <3>1 DEF CountTo
      <3> QED
        BY <3>2, TaskIs, FreshOrder
    <2> QED
      BY <1>2, <2>1 DEF DataOK, DueOK
  <1>4. CASE ~eod
    <2>1. CountTo(FALSE, m)
      <3>1. eod = FALSE
        BY <1>4
      <3> QED
        BY <1>1, <3>1
    <2>2. ASSUME NEW r \in Ranks
          PROVE  /\ Orderly(setup, r, pc'[r], st'[r])
                 /\ setup.mode = "UNTIL_FIRST" => DueOf(pc'[r], st'[r]) = Len(st[r].ran) + m
      BY <2>1, CutOrder
    <2>3. setup.mode = "UNTIL_FIRST" =>
            \A q, r \in Ranks : Len(st[q].ran) = Len(st[r].ran)
      BY <1>2 DEF DueOK, DueOf
    <2>4. DataOK'
      BY <1>2, <2>2 DEF DataOK
    <2>5. ASSUME setup.mode = "UNTIL_FIRST", NEW q \in Ranks, NEW r \in Ranks
          PROVE  DueOf(pc'[q], st'[q]) = DueOf(pc'[r], st'[r])
      BY <2>2, <2>3, <2>5
    <2> QED
      BY <1>2, <2>4, <2>5 DEF DueOK
  <1> QED
    BY <1>3, <1>4

LEMMA CollectiveOrder ==
    ASSUME StepsTypeOK, DataOK, DueOK, CollectiveEffect
    PROVE  DataOK' /\ DueOK'
  <1>1. CASE ~CountEffect
    <2>1. setup' = setup
      BY <1>1 DEF CollectiveEffect, ReduceEffect, NormalizeEffect, UnscaleEffect, NormsEffect,
                  PublishEffect, BarrierEffect, Job
    <2>2. ASSUME NEW r \in Ranks
          PROVE  /\ Orderly(setup, r, pc'[r], st'[r])
                 /\ DueOf(pc'[r], st'[r]) = DueOf(pc[r], st[r])
      <3>1. Orderly(setup, r, pc[r], st[r])
        BY DEF DataOK
      <3>2. CASE ReduceEffect
        <4>1. /\ pc[r] = "reduce" /\ SameData(st[r], st'[r])
              /\ pc'[r] \in {"batch", "normalize", "unscale", "norms"}
              /\ pc'[r] # "batch" => st[r].batches = <<>>
          BY <3>2 DEF ReduceEffect
        <4> QED
          BY <3>1, <4>1, StayOrder
      <3>3. CASE ~ReduceEffect
        <4>1. /\ pc[r] \in {"normalize", "unscale", "norms", "metrics", "barrier"}
              /\ SameData(st[r], st'[r])
              /\ pc'[r] \in {"unscale", "norms", "update", "barrier", "load", "done"}
          BY <1>1, <3>3 DEF CollectiveEffect, NormalizeEffect, UnscaleEffect, NormsEffect,
                            PublishEffect, BarrierEffect, SameData
        <4>2. st[r].batches = <<>>
          BY <3>1, <4>1 DEF Orderly
        <4> QED
          BY <3>1, <4>1, <4>2, StayOrder
      <3> QED
        BY <3>2, <3>3
    <2> QED
      BY <2>1, <2>2 DEF DataOK, DueOK
  <1> QED
    BY <1>1, CountOrder

\* At the end of the data each rank has run what it should.
LEMMA EndLast ==
    ASSUME StepsTypeOK, NEW r \in Ranks, NEW b, NEW n, Loaded(r, b, n),
           setup.mode = "UNTIL_LAST", Len(st[r].batches) = 0
    PROVE  LET l == Len(setup.shards[r]) IN
           Len(st[r].ran) = IF setup.drop THEN (l \div setup.acc) * setup.acc ELSE l
  <1> DEFINE l == Len(setup.shards[r])
             d == Len(st[r].ran)
             a == setup.acc
  <1>1. d \in Nat /\ l \in Nat /\ a \in Nat /\ a # 0 /\ b \in Nat /\ n \in Nat /\ n <= a
    BY TaskIs DEF Loaded
  <1>2. /\ d <= b /\ b <= l /\ (setup.drop => Multiple(a, d))
        /\ b = d \/ (setup.drop /\ b = l /\ b < d + a)
    BY DEF Loaded, Fits
  <1>3. (n = a \/ b + n = l) /\ b + n <= l /\ (IF setup.drop /\ n # a THEN 0 ELSE n) = 0
    BY DEF Loaded
  <1>4. (IF setup.drop THEN (l \div a) * a ELSE l) = d
    <2> HIDE DEF l, d, a
    <2>1. CASE ~setup.drop
      BY <1>1, <1>2, <1>3, <2>1
    <2>2. CASE setup.drop
      <3>1. n # a
        BY <1>1, <1>3
      <3>2. d <= l /\ l < d + a
        BY <1>1, <1>2, <1>3, <3>1
      <3>3. (l \div a) * a = d
        BY <1>1, <1>2, <2>2, <3>2, FullIs
      <3> QED
        BY <2>2, <3>3
    <2> QED
      BY <2>1, <2>2
  <1> QED
    BY <1>4

LEMMA EndFirst ==
    ASSUME StepsTypeOK, DataOK, DueOK, setup.mode = "UNTIL_FIRST",
           \A q \in Ranks : pc[q] = "count",
           NEW p \in Ranks, Len(st[p].batches) = 0, NEW r \in Ranks
    PROVE  LET l == Smallest({Len(Shard(q)) : q \in Ranks}) IN
           Len(st[r].ran) = IF setup.drop THEN (l \div setup.acc) * setup.acc ELSE l
  <1> DEFINE T == {Len(Shard(q)) : q \in Ranks}
             l == Smallest(T)
             d == Len(st[r].ran)
             a == setup.acc
  <1>1. d \in Nat /\ a \in Nat /\ a # 0
    BY TaskIs
  <1>2. \A q \in Ranks : Len(st[q].ran) = d
    BY DEF DueOK, DueOf
  <1>3. l \in T /\ \A k \in T : l <= k
    <2>1. T \in SUBSET Nat /\ T # {}
      BY TaskIs DEF Shard
    <2> QED
      BY <2>1, SmallestIs
  <1>4. l \in Nat /\ (\A q \in Ranks : l <= Len(setup.shards[q]))
        /\ \E q \in Ranks : l = Len(setup.shards[q])
    <2> HIDE DEF l
    <2> QED
      BY <1>3, TaskIs DEF Shard
  <1> HIDE DEF T, l
  <1>5. ASSUME NEW q \in Ranks PROVE d <= Len(setup.shards[q])
    <2>1. PICK b \in Nat, n \in Nat : Loaded(q, b, n)
      BY LoadedIs
    <2>2. Len(st[q].ran) <= b /\ b <= Len(setup.shards[q]) /\ b \in Nat
      BY <2>1 DEF Loaded, Fits
    <2>3. d <= b /\ b <= Len(setup.shards[q])
      BY <1>2, <2>2
    <2> HIDE DEF d
    <2> QED
      BY <1>1, <2>2, <2>3, TaskIs
  <1>6. d <= l
    <2> HIDE DEF d
    <2> QED
      BY <1>4, <1>5
  <1>7. PICK b \in Nat, n \in Nat : Loaded(p, b, n)
    BY LoadedIs
  <1>8. /\ (n = a \/ b + n = Len(setup.shards[p])) /\ b + n <= Len(setup.shards[p]) /\ n <= a
        /\ (IF setup.drop /\ n # a THEN 0 ELSE n) = 0
    BY <1>7 DEF Loaded
  <1>9. /\ setup.drop => Multiple(a, d)
        /\ b = d \/ (~setup.drop /\ \E q \in Ranks : Len(setup.shards[q]) = d)
    <2>1. Fits(setup, p, d, b)
      BY <1>2, <1>7 DEF Loaded
    <2> QED
      BY <2>1 DEF Fits
  <1>10. Len(setup.shards[p]) \in Nat /\ l <= Len(setup.shards[p])
    BY <1>4, TaskIs
  <1>11. (IF setup.drop THEN (l \div a) * a ELSE l) = d
    <2>1. CASE ~setup.drop
      <3>1. \E q \in Ranks : Len(setup.shards[q]) = d
        <4>1. CASE b = d
          <5>1. n = 0 /\ b + n = Len(setup.shards[p])
            BY <1>1, <1>8, <2>1
          <5>2. Len(setup.shards[p]) = b
            BY <5>1
          <5> QED
            BY <4>1, <5>2
        <4> QED
          BY <1>9, <4>1
      <3>2. l <= d
        BY <1>4, <3>1
      <3> HIDE DEF d
      <3>3. l = d
        BY <1>1, <1>4, <1>6, <3>2
      <3> QED
        BY <2>1, <3>3
    <2>2. CASE setup.drop
      <3> HIDE DEF d
      <3>1. n # a /\ b = d
        BY <1>1, <1>8, <1>9, <2>2
      <3> DEFINE k == Len(setup.shards[p])
      <3>2. k \in Nat /\ l <= k /\ d + n = k /\ n <= a /\ n # a
        BY <1>8, <1>10, <3>1
      <3> HIDE DEF k, a
      <3>3. l < d + a
        BY <1>1, <1>4, <3>2
      <3>4. (l \div a) * a = d
        BY <1>1, <1>4, <1>6, <1>9, <2>2, <3>3, FullIs
      <3> QED
        BY <2>2, <3>4
    <2> QED
      BY <2>1, <2>2
  <1> QED
    BY <1>11 DEF l, T

LEMMA EndCovers ==
    ASSUME StepsTypeOK, DataOK, DueOK, NEW m \in Nat, CountTo(TRUE, m), NEW r \in Ranks
    PROVE  st[r].ran = Expected(r)
  <1>1. \A q \in Ranks : pc[q] = "count"
    BY DEF CountTo
  <1> DEFINE l == IF setup.mode = "UNTIL_LAST" THEN Len(Shard(r))
                  ELSE Smallest({Len(Shard(q)) : q \in Ranks})
             full == IF setup.drop THEN (l \div setup.acc) * setup.acc ELSE l
  <1>2. Len(st[r].ran) = full
    <2>1. CASE setup.mode = "UNTIL_LAST"
      <3>1. PICK b \in Nat, n \in Nat : Loaded(r, b, n)
        BY <1>1, LoadedIs
      <3>2. Len(st[r].batches) = 0
        BY <2>1 DEF CountTo
      <3>3. l = Len(setup.shards[r])
        BY <2>1 DEF Shard
      <3> QED
        BY <2>1, <3>1, <3>2, <3>3, EndLast
    <2>2. CASE setup.mode = "UNTIL_FIRST"
      <3>1. PICK p \in Ranks : m = Len(st[p].batches)
        BY DEF CountTo
      <3>2. Len(st[p].batches) = 0
        BY <2>2, <3>1 DEF CountTo
      <3>3. l = Smallest({Len(Shard(q)) : q \in Ranks})
        BY <2>2
      <3> QED
        BY <1>1, <2>2, <3>2, <3>3, EndFirst
    <2> QED
      BY <2>1, <2>2, TaskIs
  <1>3. Expected(r) = [i \in 1..full |-> i]
    BY DEF Expected
  <1> HIDE DEF full
  <1> DEFINE s == st[r].ran
  <1>4. InOrder(s) /\ s \in Seq(Nat)
    BY <1>1, LoadedIs, DataTyped
  <1> HIDE DEF s
  <1>5. s = [i \in 1..Len(s) |-> s[i]] /\ DOMAIN s = 1..Len(s)
    BY <1>4
  <1>6. s = [i \in 1..Len(s) |-> i]
    BY <1>4, <1>5 DEF InOrder
  <1> QED
    BY <1>2, <1>3, <1>6 DEF s

\* A rank's part of a checkpoint, written in pass number p or earlier.
KeptFits(t, r, s, p) == InOrder(s.ran) /\ Fits(t, r, Len(s.ran), s.read) /\ s.passes <= p

\* The parts of a checkpoint lie in order, too, and those of one step equally far.
PartsOK ==
    \A r \in Ranks : /\ KeptFits(setup, r, snaps[r], st[r].passes)
                     /\ KeptFits(setup, r, whole[r], st[r].passes)

PartsEven ==
    /\ \A q, r \in Ranks : Len(whole[q].ran) = Len(whole[r].ran)
    /\ \A q, r \in Ranks :
         snaps[q].stepNr = snaps[r].stepNr => Len(snaps[q].ran) = Len(snaps[r].ran)
    /\ \A q, r \in Ranks :
         Committing(r) /\ snaps[q].stepNr = Ahead(r).stepNr =>
            Len(snaps[q].ran) = DueOf(pc[r], st[r])

KeptOrder == PartsOK /\ PartsEven

\* Steps that write nothing.
LEMMA QuietParts ==
    ASSUME StepsTypeOK, KeptOrder, Job, Disk,
           \A r \in Ranks : /\ st'[r].passes = st[r].passes \/ st'[r].passes = st[r].passes + 1
                            /\ Committing(r)' =>
                                 \/ \A q \in Ranks : snaps[q].stepNr # Ahead(r)'.stepNr
                                 \/ /\ Committing(r) /\ Ahead(r)' = Ahead(r)
                                    /\ DueOf(pc'[r], st'[r]) = DueOf(pc[r], st[r])
    PROVE  KeptOrder'
  <1>1. ASSUME NEW r \in Ranks, NEW s, s.passes \in Nat, KeptFits(setup, r, s, st[r].passes)
        PROVE  KeptFits(setup, r, s, st'[r].passes)
    <2>1. st[r].passes \in Nat
      BY DEF StepsTypeOK, IsState, IsKept
    <2>2. s.passes <= st'[r].passes
      BY <1>1, <2>1 DEF KeptFits
    <2> QED
      BY <1>1, <2>2 DEF KeptFits
  <1>2. \A r \in Ranks : snaps[r].passes \in Nat /\ whole[r].passes \in Nat
    BY DEF StepsTypeOK, IsKept
  <1>3. PartsOK'
    BY <1>1, <1>2 DEF KeptOrder, PartsOK, Job, Disk
  <1>4. ASSUME NEW r \in Ranks, NEW q \in Ranks,
               Committing(r)', snaps[q].stepNr = Ahead(r)'.stepNr
        PROVE  Len(snaps[q].ran) = DueOf(pc'[r], st'[r])
    BY <1>4 DEF KeptOrder, PartsEven
  <1>5. PartsEven'
    BY <1>4 DEF KeptOrder, PartsEven, Disk
  <1> QED
    BY <1>3, <1>5 DEF KeptOrder

LEMMA LocalParts ==
    ASSUME StepsTypeOK, HandOK, AheadOK, DataOK, DueOK, KeptOrder, NEW r \in Ranks, LocalEffect(r)
    PROVE  KeptOrder'
  <1>1. Others(r) /\ Job
    BY DEF LocalEffect, LoadEffect, BeginStepEffect, RunBatchEffect, OverflowEffect,
           AcceptEffect, PostStepEffect
  <1>2. \A q \in Ranks : st'[q].passes = st[q].passes
    <2>1. st'[r].passes = st[r].passes
      BY HandMoves DEF HandMove
    <2> QED
      BY <1>1, <2>1 DEF Others
  <1>3. \A q \in Ranks : Committing(q)' => Committing(q) /\ Ahead(q)' = Ahead(q)
    BY LocalCommits
  <1>4. \A q \in Ranks : DueOf(pc'[q], st'[q]) = DueOf(pc[q], st[q])
    BY LocalOrder
  <1>5. CASE Disk
    BY <1>1, <1>2, <1>3, <1>4, <1>5, QuietParts
  <1>6. CASE PostStepEffect(r) /\ ~Disk
    <2> DEFINE kept == Keep(st[r])
    <2>1. /\ pc[r] = "post" /\ Committing(r) /\ Orderly(setup, r, pc[r], st[r])
          /\ st'[r] = st[r]
      BY <1>6 DEF PostStepEffect, Committing, DataOK
    <2>2. setup.mode = "UNTIL_FIRST"
      <3>1. Training
        BY <2>1 DEF HandOK
      <3> QED
        BY <3>1, SetupIs
    <2>3. Ahead(r).stepNr = st[r].stepNr
      BY <2>1 DEF Ahead
    <2>4. /\ kept.stepNr = Ahead(r).stepNr /\ kept.ran = st[r].ran /\ kept.read = st[r].read
          /\ kept.passes = st[r].passes
      BY <2>3, KeepIs
    <2>5. DueOf(pc[r], st[r]) = Len(st[r].ran)
      <3> DEFINE n == Len(st[r].ran)
                 d == DueOf(pc[r], st[r])
                 k == Len(st[r].batches)
      <3>1. n \in Nat
        BY TaskIs
      <3>2. k = 0
        BY <2>1 DEF Orderly
      <3>3. d = n + k
        BY <2>1 DEF DueOf
      <3> HIDE DEF n, d, k
      <3>4. d = n
        BY <3>1, <3>2, <3>3
      <3> QED
        BY <3>4 DEF d, n
    <2>6. KeptFits(setup, r, kept, st[r].passes)
      <3>1. st[r].passes \in Nat
        BY DEF StepsTypeOK, IsState, IsKept
      <3> HIDE DEF kept
      <3> QED
        BY <2>1, <2>4, <2>5, <3>1 DEF KeptFits, Orderly
    <2>7. Len(kept.ran) = DueOf(pc[r], st[r])
      BY <2>4, <2>5
    <2> HIDE DEF kept
    <2>8. snaps' = snaps \/ (snaps'[r] = kept /\ \A q \in Ranks \ {r} : snaps'[q] = snaps[q])
      BY <1>6 DEF PostStepEffect, StepsTypeOK, kept
    <2>9. \A q \in Ranks : snaps[q].stepNr = kept.stepNr => Len(snaps[q].ran) = Len(kept.ran)
      BY <2>1, <2>4, <2>7 DEF KeptOrder, PartsEven
    <2>10. \A p, q \in Ranks :
             snaps'[p].stepNr = snaps'[q].stepNr => Len(snaps'[p].ran) = Len(snaps'[q].ran)
      <3>1. \A p, q \in Ranks :
              snaps[p].stepNr = snaps[q].stepNr => Len(snaps[p].ran) = Len(snaps[q].ran)
        BY DEF KeptOrder, PartsEven
      <3> QED
        BY <2>8, <2>9, <3>1
    <2>11. \/ whole' = whole
           \/ whole' = snaps' /\ \A q \in Ranks : snaps'[q].stepNr = snaps'[r].stepNr
      BY <1>6 DEF PostStepEffect
    <2>12. \A p, q \in Ranks : Len(whole'[p].ran) = Len(whole'[q].ran)
      <3>1. CASE whole' = whole
        BY <3>1 DEF KeptOrder, PartsEven
      <3>2. CASE whole' = snaps' /\ \A q \in Ranks : snaps'[q].stepNr = snaps'[r].stepNr
        BY <2>10, <3>2
      <3> QED
        BY <2>11, <3>1, <3>2
    <2>13. ASSUME NEW p \in Ranks, NEW q \in Ranks,
                  Committing(p)', snaps'[q].stepNr = Ahead(p)'.stepNr
           PROVE  Len(snaps'[q].ran) = DueOf(pc'[p], st'[p])
      <3>1. Committing(p) /\ Ahead(p)' = Ahead(p) /\ DueOf(pc'[p], st'[p]) = DueOf(pc[p], st[p])
        BY <1>3, <1>4, <2>13
      <3>2. DueOf(pc[p], st[p]) = DueOf(pc[r], st[r])
        BY <2>2 DEF DueOK
      <3>3. CASE snaps'[q] = snaps[q]
        BY <2>13, <3>1, <3>3 DEF KeptOrder, PartsEven
      <3>4. CASE snaps'[q] = kept
        BY <2>7, <3>1, <3>2, <3>4
      <3> QED
        BY <2>8, <3>3, <3>4
    <2>14. PartsEven'
      BY <2>10, <2>12, <2>13 DEF PartsEven
    <2>15. PartsOK'
      <3>1. \A q \in Ranks : KeptFits(setup, q, snaps'[q], st[q].passes)
        BY <2>6, <2>8 DEF KeptOrder, PartsOK
      <3>2. \A q \in Ranks : KeptFits(setup, q, whole'[q], st[q].passes)
        BY <2>11, <3>1 DEF KeptOrder, PartsOK
      <3> QED
        BY <1>1, <1>2, <3>1, <3>2 DEF PartsOK, Job
    <2> QED
      BY <2>14, <2>15 DEF KeptOrder
  <1> QED
    BY <1>5, <1>6
    DEF LocalEffect, LoadEffect, BeginStepEffect, RunBatchEffect, OverflowEffect, AcceptEffect

LEMMA CollectiveParts ==
    ASSUME StepsTypeOK, HandOK, AheadOK, CountersOK, SnapsOK, KeptOrder, CollectiveEffect
    PROVE  KeptOrder'
  <1>1. Job /\ Disk /\ \A r \in Ranks : \/ st'[r].passes = st[r].passes
                                       \/ st'[r].passes = st[r].passes + 1
    <2>1. CASE CountEffect
      <3>1. PICK eod \in BOOLEAN, m \in Nat : CountTo(eod, m)
        BY <2>1 DEF CountEffect
      <3> QED
        BY <3>1 DEF CountTo, SameModel
    <2>2. CASE ~CountEffect
      BY <2>2 DEF CollectiveEffect, ReduceEffect, NormalizeEffect, UnscaleEffect, NormsEffect,
                  PublishEffect, BarrierEffect, SameModel
    <2> QED
      BY <2>1, <2>2
  <1>2. \A r \in Ranks :
          Committing(r)' => \A q \in Ranks : snaps[q].stepNr # Ahead(r)'.stepNr
    BY CollectiveCommits, NumberIsNew
  <1> QED
    BY <1>1, <1>2, QuietParts

\* A new job begins at the parts of a whole checkpoint.
LEMMA KillJobOrder ==
    ASSUME StepsTypeOK, KeptOrder, KillJobEffect
    PROVE  DataOK' /\ DueOK' /\ KeptOrder' /\ \A r \in Ranks : st'[r].passes <= st[r].passes
  <1>1. /\ setup' = setup /\ snaps' = whole /\ whole' = whole
        /\ \A r \in Ranks : st'[r] = Begin(whole[r]) /\ pc'[r] \in {"load", "done"}
    BY DEF KillJobEffect
  <1>2. \A r \in Ranks : KeptFits(setup, r, whole[r], st[r].passes)
    BY DEF KeptOrder, PartsOK
  <1>3. ASSUME NEW r \in Ranks
        PROVE  /\ Orderly(setup, r, pc'[r], st'[r])
               /\ DueOf(pc'[r], st'[r]) = Len(whole[r].ran)
               /\ st'[r].passes = whole[r].passes
    <2> DEFINE k == whole[r]
    <2>1. /\ Begin(k).ran = k.ran /\ Begin(k).batches = <<>> /\ Begin(k).read = k.read
          /\ Begin(k).passes = k.passes
      BY BeginIs
    <2> HIDE DEF k
    <2>2. /\ st'[r].ran = k.ran /\ st'[r].batches = <<>> /\ st'[r].read = k.read
          /\ st'[r].passes = k.passes
      BY <1>1, <2>1 DEF k
    <2>3. DueOf(pc'[r], st'[r]) = Len(k.ran)
      <3>1. DueOf(pc'[r], st'[r]) = Len(k.ran) + 0
        BY <1>1, <2>2 DEF DueOf
      <3>2. Len(k.ran) \in Nat
        BY DEF k, StepsTypeOK, IsKept
      <3> DEFINE n == Len(k.ran)
      <3>3. n \in Nat /\ DueOf(pc'[r], st'[r]) = n + 0
        BY <3>1, <3>2
      <3> HIDE DEF n
      <3>4. DueOf(pc'[r], st'[r]) = n
        BY <3>3
      <3> QED
        BY <3>4 DEF n
    <2>4. InOrder(k.ran) /\ Fits(setup, r, Len(k.ran), k.read)
      BY <1>2 DEF k, KeptFits
    <2>5. Orderly(setup, r, pc'[r], st'[r])
      BY <1>1, <2>2, <2>3, <2>4 DEF Orderly
    <2> QED
      BY <2>2, <2>3, <2>5 DEF k
  <1>4. DataOK'
    BY <1>1, <1>3 DEF DataOK
  <1>5. \A q, r \in Ranks : Len(whole[q].ran) = Len(whole[r].ran)
    BY DEF KeptOrder, PartsEven
  <1>6. DueOK'
    BY <1>1, <1>3, <1>5 DEF DueOK
  <1>7. \A r \in Ranks : st'[r].passes <= st[r].passes
    BY <1>2, <1>3 DEF KeptFits
  <1>8. PartsOK'
    <2>1. ASSUME NEW r \in Ranks PROVE KeptFits(setup, r, whole[r], st'[r].passes)
      <3>1. whole[r].passes \in Nat
        BY DEF StepsTypeOK, IsKept
      <3> QED
        BY <1>2, <1>3, <3>1 DEF KeptFits
    <2> QED
      BY <1>1, <2>1 DEF PartsOK
  <1>9. \A r \in Ranks : ~Committing(r)'
    BY <1>1 DEF Committing
  <1>10. PartsEven'
    BY <1>1, <1>5, <1>9 DEF PartsEven
  <1> QED
    BY <1>4, <1>6, <1>7, <1>8, <1>10 DEF KeptOrder

CoverInv == AgreeInv /\ DataOK /\ DueOK /\ KeptOrder

LEMMA CoverInit == StepsInit => CoverInv
  <1> SUFFICES ASSUME StepsInit PROVE CoverInv
    OBVIOUS
  <1>1. AgreeInv
    BY AgreeInit
  <1>2. StepsTypeOK
    BY <1>1 DEF AgreeInv, TypeInv
  <1> DEFINE s == Begin(Fresh)
             k == Fresh
  <1>3. /\ s.ran = <<>> /\ s.batches = <<>> /\ s.read = 0 /\ s.passes = 0
        /\ k.ran = <<>> /\ k.read = 0 /\ k.passes = 0
    BY BeginIs, FreshIs
  <1> HIDE DEF s, k
  <1>4. \A r \in Ranks : pc[r] = "load" /\ st[r] = s /\ snaps[r] = k /\ whole[r] = k
    BY DEF StepsInit, s, k
  <1>5. ASSUME NEW r \in Ranks
        PROVE  Orderly(setup, r, pc[r], st[r]) /\ DueOf(pc[r], st[r]) = 0
    BY <1>2, <1>3, <1>4, TaskIs, FreshOrder
  <1>6. DataOK /\ DueOK
    BY <1>5 DEF DataOK, DueOK
  <1>7. ASSUME NEW r \in Ranks PROVE KeptFits(setup, r, k, st[r].passes)
    <2>1. Fits(setup, r, 0, 0)
      <3>1. Fits(setup, r, DueOf(pc[r], st[r]), st[r].read)
        BY <1>4, <1>5 DEF Orderly
      <3>2. st[r].read = 0
        BY <1>3, <1>4
      <3> QED
        BY <1>5, <3>1, <3>2
    <2> QED
      BY <1>3, <1>4, <2>1 DEF KeptFits, InOrder
  <1>8. PartsOK
    BY <1>4, <1>7 DEF PartsOK
  <1>9. PartsEven
    BY <1>4 DEF PartsEven, Committing
  <1> QED
    BY <1>1, <1>6, <1>8, <1>9 DEF CoverInv, KeptOrder

LEMMA CoverNext == ASSUME CoverInv, [StepsNext]_stepVars PROVE CoverInv'
  <1>1. AgreeInv /\ AgreeInv' /\ DataOK /\ DueOK /\ KeptOrder
    BY AgreeNext DEF CoverInv
  <1>2. StepsTypeOK /\ HandOK /\ AheadOK /\ CountersOK /\ SnapsOK
    BY <1>1 DEF AgreeInv, TypeInv
  <1>3. CASE UNCHANGED stepVars
    <2>1. setup' = setup /\ pc' = pc /\ st' = st /\ snaps' = snaps /\ whole' = whole
      BY <1>3 DEF stepVars
    <2>2. \A r \in Ranks : Ahead(r)' = Ahead(r) /\ (Committing(r)' <=> Committing(r))
      BY <2>1 DEF Ahead, Grown, Committing
    <2>3. DataOK' /\ DueOK' /\ KeptOrder'
      BY <1>1, <2>1, <2>2 DEF DataOK, DueOK, KeptOrder, PartsOK, PartsEven
    <2> QED
      BY <1>1, <2>3 DEF CoverInv
  <1>4. ASSUME NEW r \in Ranks, LocalEffect(r) PROVE CoverInv'
    <2>1. Job
      BY <1>4 DEF LocalEffect, LoadEffect, BeginStepEffect, RunBatchEffect, OverflowEffect,
                  AcceptEffect, PostStepEffect
    <2>2. \A q \in Ranks : /\ Orderly(setup, q, pc'[q], st'[q])
                           /\ DueOf(pc'[q], st'[q]) = DueOf(pc[q], st[q])
      BY <1>1, <1>2, <1>4, LocalOrder
    <2>3. DataOK' /\ DueOK'
      BY <1>1, <2>1, <2>2 DEF DataOK, DueOK, Job
    <2>4. KeptOrder'
      BY <1>1, <1>2, <1>4, LocalParts
    <2> QED
      BY <1>1, <2>3, <2>4 DEF CoverInv
  <1>5. ASSUME CollectiveEffect PROVE CoverInv'
    BY <1>1, <1>2, <1>5, CollectiveOrder, CollectiveParts DEF CoverInv
  <1>6. ASSUME KillJobEffect PROVE CoverInv'
    BY <1>1, <1>2, <1>6, KillJobOrder DEF CoverInv
  <1> QED
    BY <1>2, <1>3, <1>4, <1>5, <1>6, NextDoes

\* A step that ends a pass is made at the end of the data, by ranks that have run what
\* they should; a new job takes no rank to a later pass.
LEMMA PassEnds ==
    ASSUME CoverInv, [StepsNext]_stepVars, NEW r \in Ranks, st'[r].passes = st[r].passes + 1
    PROVE  st[r].ran = Expected(r)
  <1>1. StepsTypeOK /\ HandOK /\ DataOK /\ DueOK /\ KeptOrder
    BY DEF CoverInv, AgreeInv, TypeInv
  <1>2. st[r].passes \in Nat /\ st'[r].passes # st[r].passes
    <2>1. st[r].passes \in Nat
      BY <1>1 DEF StepsTypeOK, IsState, IsKept
    <2> QED
      BY <2>1
  <1>3. CASE UNCHANGED stepVars
    BY <1>2, <1>3 DEF stepVars
  <1>4. ASSUME NEW q \in Ranks, LocalEffect(q) PROVE FALSE
    <2>1. Others(q)
      BY <1>4 DEF LocalEffect, LoadEffect, BeginStepEffect, RunBatchEffect, OverflowEffect,
                  AcceptEffect, PostStepEffect
    <2>2. st'[q].passes = st[q].passes
      BY <1>1, <1>4, HandMoves DEF HandMove
    <2> QED
      BY <1>2, <2>1, <2>2 DEF Others
  <1>5. ASSUME CollectiveEffect PROVE st[r].ran = Expected(r)
    <2>1. CountEffect
      BY <1>2, <1>5 DEF CollectiveEffect, ReduceEffect, NormalizeEffect, UnscaleEffect,
                        NormsEffect, PublishEffect, BarrierEffect, SameModel
    <2>2. PICK eod \in BOOLEAN, m \in Nat : CountTo(eod, m)
      BY <2>1 DEF CountEffect
    <2>3. eod = TRUE
      BY <1>2, <2>2 DEF CountTo, SameModel
    <2>4. CountTo(TRUE, m)
      BY <2>2, <2>3
    <2> QED
      BY <1>1, <2>4, EndCovers
  <1>6. ASSUME KillJobEffect PROVE FALSE
    <2>1. st'[r].passes <= st[r].passes
      BY <1>1, <1>6, KillJobOrder
    <2> QED
      BY <1>2, <2>1
  <1> QED
    BY <1>1, <1>3, <1>4, <1>5, <1>6, NextDoes

\* SyncMode: a pass ends, on every rank, after exactly the batches it should run, in order:
\* all of its shard, or as much as there is of the shortest, without the remainder
\* if that is dropped; in training also where overflows or killed jobs interrupt it.
THEOREM PassesAreCovered == StepsSpec => PassCovers
  <1>1. CoverInv /\ [StepsNext]_stepVars =>
           [\A r \in Ranks : st'[r].passes = st[r].passes + 1 => st[r].ran = Expected(r)]_stepVars
    BY PassEnds
  <1>2. CoverInv /\ [StepsNext]_stepVars => CoverInv'
    BY CoverNext
  <1> QED
    BY <1>1, <1>2, CoverInit, PTL DEF StepsSpec, PassCovers
=============================================================================
