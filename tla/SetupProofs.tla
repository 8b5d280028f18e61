----------------------------- MODULE SetupProofs ------------------------------
(***************************************************************************)
(* Proofs about what a process does before it trains.                      *)
(*                                                                         *)
(* Downloads, for any number of jobs and ranks, any of them together, and  *)
(* any number of kills: what lies in the asset directory beside no         *)
(* download is whole, unless the cache was spoiled, and a load or a forced *)
(* download that nothing disturbs makes good what was left.                *)
(*                                                                         *)
(* Container, for any registrations, requests and errors: a registration   *)
(* is marked as being built exactly while its provider is on the stack, a  *)
(* singleton is built at most once, and every request is answered as the   *)
(* registrations say.                                                      *)
(***************************************************************************)
EXTENDS Downloads, Container, SequenceTheorems, FiniteSetTheorems, TLAPS

-----------------------------------------------------------------------------
(***************************************************************************)
(* Downloads.                                                              *)
(***************************************************************************)
Files       == {File(x) : x \in Jobs}
MemberFiles == {Member(k) : k \in Members}

Finished(j)   == job[j].pc \in Over
Started(j)    == ~At(j, "new")
Cleaning(j)   == job[j].why = "clean" /\ job[j].pc \in {"unlink", "cleaned"}
Abandoning(j) == job[j].why = "abandon" /\ At(j, "unlink")
Finishing(j)  == At(j, "finish") \/ (job[j].why = "finish" /\ At(j, "unlink"))

Pcs == Over \cup
       {"check_asset", "clean", "cleaned", "unlink", "check_download", "make_tmp", "open",
        "receive", "publish", "check_extracted", "make_asset", "pick", "extract", "move",
        "drop", "finish", "retrieve", "barrier"}

JobRecords ==
    [pc : Pcs, kind : {"none", "load", "force", "local", "card"}, file : Nat, step : 0..4,
     todo : SUBSET (Files \cup MemberFiles), dir : Dirs \cup {"none"},
     why : {"none", "clean", "finish", "abandon"}, alone : BOOLEAN, fault : BOOLEAN,
     got : [Ranks -> {"none", "whole", "partial"}]]

JobsOK == job \in [Jobs -> JobRecords]

CacheOK ==
    /\ DOMAIN cache = Dirs
    /\ \A d \in {"download", "tmp"} : cache[d] = Absent \/ cache[d] \subseteq Files
    /\ cache["asset"] = Absent \/ cache["asset"] \subseteq Files \cup MemberFiles

TypeOK ==
    /\ format \in Formats /\ JobsOK /\ CacheOK
    /\ received \in [Jobs -> 0..Chunks] /\ named \in [Jobs -> BOOLEAN]
    /\ members \in [Members -> {"none", "partial", "whole"}]
    /\ spoiled \in BOOLEAN

\* Where a job is, and what it has set by then.
PlaceOK(j) ==
    /\ ~Finished(j) => job[j].kind \in {"load", "force", "local"}
    /\ At(j, "unlink") => job[j].why # "none" /\ job[j].dir \in Dirs
    /\ At(j, "cleaned") => job[j].why = "clean" /\ job[j].dir \in Dirs
    /\ Finishing(j) /\ At(j, "unlink") => job[j].dir = "download"
    /\ Abandoning(j) => job[j].dir = "tmp"
    /\ job[j].pc \in {"extract", "move", "drop"} => job[j].file \in Jobs
    /\ At(j, "clean") \/ Cleaning(j) => job[j].kind = "force"
    /\ At(j, "barrier") => job[j].kind = "load"
    /\ At(j, "new") => job[j].why = "none"
    /\ job[j].fault => Abandoning(j) \/ job[j].pc \in {"failed", "killed"}
    /\ job[j].pc \in {"done", "failed", "killed", "barrier"}
         \/ \A r \in Ranks : job[j].got[r] = "none"
    /\ named[j] => received[j] = Chunks
    /\ At(j, "publish") => named[j]

PlacesOK == \A j \in Jobs : PlaceOK(j)

\* Jobs start in order, and only a job that started leaves a file.
OrderOK ==
    /\ \A i, j \in Jobs : Started(j) /\ i < j => Started(i)
    /\ \A x \in Jobs : File(x) \in cache["tmp"] \cup cache["download"] => Started(x)
    /\ \A x, j \in Jobs : Abandoning(j) /\ File(x) \in job[j].todo => Started(x)

\* A job is alone while the earlier ones are over and no later one runs.
AloneOK ==
    \A j \in Jobs : job[j].alone /\ Started(j) /\ job[j].kind # "card" =>
        /\ \A i \in Jobs : i < j => Finished(i)
        /\ ~Finished(j) => \A i \in Jobs \ {j} : Finished(i)

\* The cache is only cleaned alone, or it is spoiled.
ForceOK ==
    \A j \in Jobs : job[j].kind = "force" /\ ~Finished(j) /\ ~job[j].alone => spoiled

\* A job that cleans the cache alone empties it, one directory after another.
CleansOK(j) ==
    Cleaning(j) /\ job[j].alone =>
        /\ job[j].dir = "download" => ~Exists("asset")
        /\ job[j].dir = "tmp" => ~Exists("asset") /\ ~Exists("download")
        /\ At(j, "cleaned") => ~Exists(job[j].dir)
        /\ At(j, "unlink") => job[j].todo = cache[job[j].dir] /\ Exists(job[j].dir)

CleanOK == \A j \in Jobs : CleansOK(j)

\* The asset directory is what the properties ask for, or will be as soon as the job
\* that writes it again is through with its member; or the download is still there.
Steady(k) ==
    members[k] = "whole" \/ \E i \in Jobs : At(i, "extract") /\ job[i].step = 2 * k - 1

Moved     == \E f \in Jobs : named[f] /\ cache["asset"] = {File(f)}
Extracted == cache["asset"] = MemberFiles /\ \A k \in Members : Steady(k)

Complete ==
    /\ format = "plain" => Moved
    /\ format \in {"zip", "tar"} => Extracted
    /\ format # "tgz"

Downloaded == \E f \in Jobs : named[f] /\ File(f) \in cache["download"]
Ready      == Downloaded \/ Complete

\* A whole file in the temporary directory that no job is about to remove.
Received ==
    \E f \in Jobs :
        /\ named[f] /\ File(f) \in cache["tmp"]
        /\ \A i \in Jobs : Abandoning(i) => File(f) \notin job[i].todo

DataOK ==
    /\ format = "plain" => cache["asset"] \in {Absent, {}} \/ Moved
    /\ format # "plain" => cache["asset"] = Absent \/ cache["asset"] \subseteq MemberFiles
    /\ format = "tgz" => cache["asset"] \in {Absent, {}}
    /\ Ready \/ (~Exists("asset") /\ ~Exists("download"))

ExtractsOK(j) ==
    At(j, "extract") =>
        /\ format # "plain" /\ (format = "tgz" => job[j].step = 0)
        /\ \A k \in Members : job[j].step >= 2 * k - 1 => Member(k) \in cache["asset"] /\ Steady(k)
        /\ job[j].alone => File(job[j].file) \in cache["download"]

JobOK(j) ==
    /\ ExtractsOK(j)
    /\ job[j].pc \in {"extract", "move"} => named[job[j].file]
    /\ At(j, "move") => format = "plain"
    /\ ~At(j, "drop")
    /\ job[j].pc \in {"make_asset", "pick", "move", "extract"} => Ready
    /\ At(j, "publish") => Ready \/ Received
    /\ Finishing(j) => Complete
    /\ Abandoning(j) => \A x \in Jobs \ {j} : ~Finished(x) => File(x) \notin job[j].todo

\* While the cache is not spoiled, nor being cleaned.
Sound   == ~spoiled /\ \A j \in Jobs : ~Cleaning(j)
SoundOK == Sound => DataOK /\ \A j \in Jobs : JobOK(j)

\* A job that runs alone, or was the last to run, alone and without a failure of the
\* server or the file system, after it cleaned the cache if it had to.
Latest(j) ==
    /\ job[j].alone /\ ~job[j].fault /\ job[j].kind \in {"load", "force"}
    /\ Started(j) /\ ~Cleaning(j) /\ ~At(j, "killed")
    /\ \A i \in Jobs : i > j => At(i, "new")

\* What it has found and made by then.
PathOK(j) ==
    /\ ~Abandoning(j)
    /\ At(j, "check_download") => ~Exists("asset")
    /\ job[j].pc \in {"make_tmp", "open", "receive", "publish"} =>
         ~Exists("asset") /\ ~Exists("download")
    /\ job[j].pc \in {"open", "receive", "publish"} => Exists("tmp")
    /\ At(j, "receive") => File(j) \in cache["tmp"]
    /\ At(j, "check_extracted") => Exists("download") \/ Exists("asset")
    /\ job[j].pc \in {"make_asset", "pick", "move", "extract", "finish"} => Exists("download")
    /\ job[j].pc \in {"pick", "move", "extract"} => Exists("asset")
    /\ job[j].pc \in {"move", "extract"} => File(job[j].file) \in cache["download"]
    /\ At(j, "unlink") => Exists("download") /\ job[j].todo = cache["download"]
    /\ job[j].pc \in {"retrieve", "barrier"} => Complete
    /\ At(j, "failed") => format = "tgz"
    /\ job[j].kind = "load" => \A r \in Ranks : job[j].got[r] # "partial"
    /\ At(j, "done") /\ job[j].kind = "load" => \A r \in Ranks : job[j].got[r] = "whole"
    /\ At(j, "done") /\ job[j].kind = "force" => job[j].got[0] = "whole"

LatestOK == \A j \in Jobs : Latest(j) /\ ~spoiled => PathOK(j)

\* A forced call has cleaned the cache: what it downloads is the only file.
FreshOK(j) ==
    /\ ~spoiled
    /\ ~Finished(j) => \A x \in Jobs : /\ File(x) \in cache["tmp"] => x = j
                                       /\ File(x) \in cache["download"] => x = j /\ named[j]

HealedOK ==
    \A j \in Jobs : Latest(j) /\ job[j].kind = "force" /\ ~At(j, "clean") => FreshOK(j)

BaseOK == TypeOK /\ PlacesOK /\ OrderOK /\ AloneOK /\ ForceOK /\ CleanOK

\* The inductive invariant.
DownloadsOK == BaseOK /\ SoundOK /\ LatestOK /\ HealedOK

-----------------------------------------------------------------------------
(* The entries of the directories, and the steps of a job. *)

USE JobAssumption

\* No file is a member of an archive, and no directory looks like an absent one.
LEMMA EntriesDiffer ==
    /\ \A x, y : File(x) = File(y) => x = y
    /\ \A x, k : File(x) # Member(k) /\ File(x) \notin Absent /\ Member(k) \notin Absent
    /\ Absent # {} /\ Absent \notin SUBSET Files /\ Absent \notin SUBSET MemberFiles
    /\ Absent \notin SUBSET (Files \cup MemberFiles)
    /\ \A f : Absent # {File(f)}
    /\ Absent # MemberFiles /\ MemberFiles # {}
    /\ \A f : {File(f)} # {}
<1>1. ASSUME NEW x, NEW y, File(x) = File(y) PROVE x = y
  <2>1. File(x)[2] = x /\ File(y)[2] = y
    BY DEF File
  <2> QED BY <1>1, <2>1
<1>2. \A x, k : File(x) # Member(k) /\ File(x) \notin Absent /\ Member(k) \notin Absent
  <2>1. "file" # "member" /\ "file" # "absent" /\ "member" # "absent"
    OBVIOUS
  <2> QED BY <2>1 DEF File, Member, Absent
<1>3. Absent # {} /\ <<"absent", 0>> \in Absent
  BY DEF Absent
<1>4. <<"absent", 0>> \notin Files \cup MemberFiles
  BY <1>2, <1>3 DEF Files, MemberFiles
<1>5. Member(1) \in MemberFiles
  BY DEF Members, MemberFiles
<1>6. Absent \notin SUBSET (Files \cup MemberFiles)
  BY <1>3, <1>4
<1>7. Absent \notin SUBSET Files /\ Absent \notin SUBSET MemberFiles /\ Absent # MemberFiles
  BY <1>6
<1>8. \A f : Absent # {File(f)}
  BY <1>2
<1>9. MemberFiles # {} /\ \A f : {File(f)} # {}
  BY <1>5
<1>10. \A x, y : File(x) = File(y) => x = y
  BY <1>1
<1> QED BY <1>2, <1>3, <1>6, <1>7, <1>8, <1>9, <1>10

\* What every step of a job that runs does to the jobs.
Moves(j) ==
    /\ JobsOK'
    /\ \A i \in Jobs \ {j} : job'[i] = job[i]
    /\ job'[j].kind = job[j].kind /\ job'[j].alone = job[j].alone
    /\ ~Finished(j) /\ Started(j)'

\* Most steps only go on to the next place.
GoesTo(j, pc) ==
    /\ Moves(j) /\ job'[j].pc = pc
    /\ job'[j].file = job[j].file /\ job'[j].step = job[j].step /\ job'[j].todo = job[j].todo
    /\ job'[j].dir = job[j].dir /\ job'[j].why = job[j].why /\ job'[j].fault = job[j].fault
    /\ job'[j].got = job[j].got

LEMMA Updated ==
    ASSUME JobsOK, NEW j \in Jobs, NEW p \in JobRecords, ~Finished(j), p.pc # "new",
           p.kind = job[j].kind, p.alone = job[j].alone, job' = [job EXCEPT ![j] = p]
    PROVE  Moves(j) /\ job'[j] = p
<1>1. job'[j] = p /\ \A i \in Jobs \ {j} : job'[i] = job[i]
  BY DEF JobsOK
<1>2. JobsOK'
  BY DEF JobsOK
<1> QED BY <1>1, <1>2 DEF Moves, Started, At

LEMMA GoDoes ==
    ASSUME JobsOK, NEW j \in Jobs, NEW pc \in Pcs \ {"new"}, ~Finished(j), Go(j, pc)
    PROVE  GoesTo(j, pc)
<1> DEFINE p == [job[j] EXCEPT !.pc = pc]
<1>1. job[j] \in JobRecords
  BY DEF JobsOK
<1>2. p \in JobRecords
  BY <1>1 DEF JobRecords
<1>3. /\ p.pc = pc /\ p.kind = job[j].kind /\ p.alone = job[j].alone
      /\ p.file = job[j].file /\ p.step = job[j].step /\ p.todo = job[j].todo
      /\ p.dir = job[j].dir /\ p.why = job[j].why /\ p.fault = job[j].fault
      /\ p.got = job[j].got
  BY <1>1 DEF JobRecords
<1>4. job' = [job EXCEPT ![j] = p]
  BY <1>1 DEF Go, JobRecords
<1> HIDE DEF p
<1>5. Moves(j) /\ job'[j] = p
  BY <1>2, <1>3, <1>4, Updated
<1> QED BY <1>3, <1>5 DEF GoesTo

LEMMA RemovalDoes ==
    ASSUME JobsOK, CacheOK, NEW j \in Jobs, ~Finished(j), NEW d \in Dirs,
           NEW why \in {"clean", "finish"}, Removal(j, d, why)
    PROVE  /\ Moves(j) /\ job'[j].why = why /\ job'[j].dir = d
           /\ job'[j].fault = job[j].fault /\ job'[j].got = job[j].got
           /\ ~Exists(d) /\ why = "clean" => job'[j].pc = "cleaned"
           /\ ~Exists(d) /\ why = "finish" => job'[j].pc = "failed"
           /\ Exists(d) => job'[j].pc = "unlink" /\ job'[j].todo = cache[d]
<1>1. job[j] \in JobRecords
  BY DEF JobsOK
<1>2. CASE ~Exists(d)
  <2> DEFINE c == IF why = "clean" THEN "cleaned" ELSE "failed"
             p == [job[j] EXCEPT !.pc = c, !.dir = d, !.why = why]
  <2>1. c \in Pcs /\ c # "new"
    BY DEF Pcs, Over
  <2> HIDE DEF c
  <2>2. p \in JobRecords
    BY <1>1, <2>1 DEF JobRecords
  <2>3. /\ p.pc = c /\ p.kind = job[j].kind /\ p.alone = job[j].alone
        /\ p.dir = d /\ p.why = why /\ p.fault = job[j].fault /\ p.got = job[j].got
    BY <1>1 DEF JobRecords
  <2>4. job' = [job EXCEPT ![j] = p]
    BY <1>1, <1>2 DEF Removal, JobRecords, c
  <2> HIDE DEF p
  <2>5. Moves(j) /\ job'[j] = p
    BY <2>1, <2>2, <2>3, <2>4, Updated
  <2> QED BY <1>2, <2>3, <2>5 DEF c
<1>3. CASE Exists(d)
  <2> DEFINE p == [job[j] EXCEPT !.pc = "unlink", !.todo = cache[d], !.dir = d, !.why = why]
  <2>1. cache[d] \in SUBSET (Files \cup MemberFiles)
    BY <1>3 DEF CacheOK, Exists, Dirs
  <2>2. p \in JobRecords
    BY <1>1, <2>1 DEF JobRecords, Pcs
  <2>3. /\ p.pc = "unlink" /\ p.kind = job[j].kind /\ p.alone = job[j].alone
        /\ p.dir = d /\ p.why = why /\ p.fault = job[j].fault /\ p.got = job[j].got
        /\ p.todo = cache[d]
    BY <1>1 DEF JobRecords
  <2>4. job' = [job EXCEPT ![j] = p]
    BY <1>1, <1>3 DEF Removal, JobRecords
  <2> HIDE DEF p
  <2>5. Moves(j) /\ job'[j] = p
    BY <2>2, <2>3, <2>4, Updated
  <2> QED BY <1>3, <2>3, <2>5
<1> QED BY <1>2, <1>3

LEMMA AbandonDoes ==
    ASSUME JobsOK, CacheOK, NEW j \in Jobs, ~Finished(j), NEW fault \in BOOLEAN,
           Abandon(j, fault)
    PROVE  /\ Moves(j) /\ job'[j].why = "abandon" /\ job'[j].dir = "tmp"
           /\ job'[j].fault = fault /\ job'[j].got = job[j].got
           /\ ~Exists("tmp") => job'[j].pc = "failed"
           /\ Exists("tmp") => job'[j].pc = "unlink" /\ job'[j].todo = cache["tmp"]
           /\ spoiled' <=> spoiled \/ ~job[j].alone
<1>1. job[j] \in JobRecords
  BY DEF JobsOK
<1>2. CASE ~Exists("tmp")
  <2> DEFINE p == [job[j] EXCEPT !.fault = fault, !.dir = "tmp", !.why = "abandon",
                                 !.pc = "failed"]
  <2>1. p \in JobRecords
    BY <1>1 DEF JobRecords, Pcs, Over, Dirs
  <2>2. /\ p.pc = "failed" /\ p.kind = job[j].kind /\ p.alone = job[j].alone
        /\ p.dir = "tmp" /\ p.why = "abandon" /\ p.fault = fault /\ p.got = job[j].got
    BY <1>1 DEF JobRecords
  <2>3. job' = [job EXCEPT ![j] = p]
    BY <1>1, <1>2 DEF Abandon, JobRecords
  <2> HIDE DEF p
  <2>4. Moves(j) /\ job'[j] = p
    BY <2>1, <2>2, <2>3, Updated
  <2> QED BY <1>2, <2>2, <2>4 DEF Abandon
<1>3. CASE Exists("tmp")
  <2> DEFINE p == [job[j] EXCEPT !.fault = fault, !.dir = "tmp", !.why = "abandon",
                                 !.pc = "unlink", !.todo = cache["tmp"]]
  <2>1. cache["tmp"] \in SUBSET (Files \cup MemberFiles)
    BY <1>3 DEF CacheOK, Exists
  <2>2. p \in JobRecords
    BY <1>1, <2>1 DEF JobRecords, Pcs, Dirs
  <2>3. /\ p.pc = "unlink" /\ p.kind = job[j].kind /\ p.alone = job[j].alone
        /\ p.dir = "tmp" /\ p.why = "abandon" /\ p.fault = fault /\ p.got = job[j].got
        /\ p.todo = cache["tmp"]
    BY <1>1 DEF JobRecords
  <2>4. job' = [job EXCEPT ![j] = p]
    BY <1>1, <1>3 DEF Abandon, JobRecords
  <2> HIDE DEF p
  <2>5. Moves(j) /\ job'[j] = p
    BY <2>2, <2>3, <2>4, Updated
  <2> QED BY <1>3, <2>3, <2>5 DEF Abandon
<1> QED BY <1>2, <1>3

LEMMA TodoDoes ==
    ASSUME JobsOK, NEW j \in Jobs, ~Finished(j), NEW e,
           job' = [job EXCEPT ![j].todo = @ \ {e}]
    PROVE  /\ Moves(j) /\ job'[j].pc = job[j].pc /\ job'[j].todo = job[j].todo \ {e}
           /\ job'[j].dir = job[j].dir /\ job'[j].why = job[j].why
           /\ job'[j].fault = job[j].fault /\ job'[j].got = job[j].got
<1> DEFINE p == [job[j] EXCEPT !.todo = @ \ {e}]
<1>1. job[j] \in JobRecords
  BY DEF JobsOK
<1>2. p \in JobRecords
  BY <1>1 DEF JobRecords
<1>3. /\ p.pc = job[j].pc /\ p.kind = job[j].kind /\ p.alone = job[j].alone
      /\ p.todo = job[j].todo \ {e} /\ p.dir = job[j].dir /\ p.why = job[j].why
      /\ p.fault = job[j].fault /\ p.got = job[j].got
  BY <1>1 DEF JobRecords
<1>4. job' = [job EXCEPT ![j] = p]
  BY <1>1 DEF JobRecords
<1> HIDE DEF p
<1>5. p.pc # "new"
  BY <1>3 DEF Finished, Over
<1>6. Moves(j) /\ job'[j] = p
  BY <1>2, <1>3, <1>4, <1>5, Updated
<1> QED BY <1>3, <1>6

LEMMA PickDoes ==
    ASSUME JobsOK, NEW j \in Jobs, ~Finished(j), NEW c \in {"extract", "move"}, NEW f \in Jobs,
           job' = [job EXCEPT ![j].pc = c, ![j].file = f, ![j].step = 0]
    PROVE  /\ Moves(j) /\ job'[j].pc = c /\ job'[j].file = f /\ job'[j].step = 0
           /\ job'[j].fault = job[j].fault /\ job'[j].got = job[j].got
<1> DEFINE p == [job[j] EXCEPT !.pc = c, !.file = f, !.step = 0]
<1>1. job[j] \in JobRecords
  BY DEF JobsOK
<1>0. c \in Pcs /\ f \in Nat /\ 0 \in 0..4 /\ c # "new"
  BY DEF Pcs
<1>2. p \in JobRecords
  BY <1>0, <1>1 DEF JobRecords
<1>3. /\ p.pc = c /\ p.kind = job[j].kind /\ p.alone = job[j].alone
      /\ p.file = f /\ p.step = 0 /\ p.fault = job[j].fault /\ p.got = job[j].got
  BY <1>1 DEF JobRecords
<1>4. job' = [job EXCEPT ![j] = p]
  BY <1>1 DEF JobRecords
<1> HIDE DEF p
<1>5. Moves(j) /\ job'[j] = p
  BY <1>0, <1>2, <1>3, <1>4, Updated
<1> QED BY <1>3, <1>5

LEMMA StepDoes ==
    ASSUME JobsOK, NEW j \in Jobs, At(j, "extract"), job[j].step < 4,
           job' = [job EXCEPT ![j].step = @ + 1]
    PROVE  /\ Moves(j) /\ job'[j].pc = "extract" /\ job'[j].file = job[j].file
           /\ job'[j].step = job[j].step + 1
           /\ job'[j].fault = job[j].fault /\ job'[j].got = job[j].got
<1> DEFINE p == [job[j] EXCEPT !.step = @ + 1]
<1>1. job[j] \in JobRecords /\ ~Finished(j)
  BY DEF JobsOK, At, Finished, Over
<1>2. job[j].step \in 0..4
  BY <1>1 DEF JobRecords
<1>3. job[j].step + 1 \in 0..4
  BY <1>2
<1>4. p \in JobRecords
  BY <1>1, <1>3 DEF JobRecords
<1>5. /\ p.pc = "extract" /\ p.kind = job[j].kind /\ p.alone = job[j].alone
      /\ p.file = job[j].file /\ p.step = job[j].step + 1
      /\ p.fault = job[j].fault /\ p.got = job[j].got
  BY <1>1 DEF JobRecords, At
<1>6. job' = [job EXCEPT ![j] = p]
  BY <1>1 DEF JobRecords
<1> HIDE DEF p
<1>7. Moves(j) /\ job'[j] = p
  BY <1>1, <1>4, <1>5, <1>6, Updated
<1> QED BY <1>5, <1>7

LEMMA BreakDoes ==
    ASSUME JobsOK, NEW j \in Jobs, ~Finished(j),
           job' = [job EXCEPT ![j].pc = "failed", ![j].fault = TRUE]
    PROVE  Moves(j) /\ job'[j].pc = "failed" /\ job'[j].fault
<1> DEFINE p == [job[j] EXCEPT !.pc = "failed", !.fault = TRUE]
<1>1. job[j] \in JobRecords
  BY DEF JobsOK
<1>2. p \in JobRecords
  BY <1>1 DEF JobRecords, Pcs, Over
<1>3. p.pc = "failed" /\ p.kind = job[j].kind /\ p.alone = job[j].alone /\ p.fault
  BY <1>1 DEF JobRecords
<1>4. job' = [job EXCEPT ![j] = p]
  BY <1>1 DEF JobRecords
<1> HIDE DEF p
<1>5. Moves(j) /\ job'[j] = p
  BY <1>2, <1>3, <1>4, Updated
<1> QED BY <1>3, <1>5

LEMMA LookDoes ==
    ASSUME JobsOK, NEW j \in Jobs, ~Finished(j), NEW r \in Ranks,
           NEW then \in {"done", "barrier"}, Look(j, r, then)
    PROVE  /\ Moves(j) /\ job'[j].pc = then /\ job'[j].fault = job[j].fault
           /\ job'[j].got[r] = IF Whole THEN "whole" ELSE "partial"
           /\ \A q \in Ranks \ {r} : job'[j].got[q] = job[j].got[q]
<1> DEFINE v == IF Whole THEN "whole" ELSE "partial"
           g == [job[j].got EXCEPT ![r] = v]
           p == [job[j] EXCEPT !.pc = then, !.got = g]
<1>1. job[j] \in JobRecords
  BY DEF JobsOK
<1>2. job[j].got \in [Ranks -> {"none", "whole", "partial"}] /\ v \in {"whole", "partial"}
  BY <1>1 DEF JobRecords
<1> HIDE DEF v
<1>3. /\ g \in [Ranks -> {"none", "whole", "partial"}] /\ g[r] = v
      /\ \A q \in Ranks \ {r} : g[q] = job[j].got[q]
  BY <1>2
<1>4. job' = [job EXCEPT ![j].pc = then, ![j].got[r] = v]
  BY DEF Look, v
<1>5. job' = [job EXCEPT ![j] = p]
  BY <1>1, <1>4 DEF JobRecords
<1> HIDE DEF g
<1>6. p \in JobRecords
  BY <1>1, <1>3 DEF JobRecords, Pcs, Over
<1>7. /\ p.pc = then /\ p.kind = job[j].kind /\ p.alone = job[j].alone
      /\ p.fault = job[j].fault /\ p.got = g
  BY <1>1 DEF JobRecords
<1> HIDE DEF p
<1>8. Moves(j) /\ job'[j] = p
  BY <1>5, <1>6, <1>7, Updated
<1> QED BY <1>3, <1>7, <1>8 DEF v

\* A job starts: the others that run are not alone any more.
Starts(j) ==
    /\ JobsOK' /\ At(j, "new") /\ Started(j)'
    /\ job'[j].why = job[j].why /\ job'[j].fault = job[j].fault /\ job'[j].got = job[j].got
    /\ job'[j].alone <=> Finished(j)' \/ Active = {}
    /\ \A i \in Jobs \ {j} :
         /\ job'[i].pc = job[i].pc /\ job'[i].kind = job[i].kind
         /\ job'[i].file = job[i].file /\ job'[i].step = job[i].step
         /\ job'[i].todo = job[i].todo /\ job'[i].dir = job[i].dir
         /\ job'[i].why = job[i].why /\ job'[i].fault = job[i].fault
         /\ job'[i].got = job[i].got /\ (job'[i].alone => job[i].alone)
         /\ Finished(j)' \/ Finished(i) \/ ~job'[i].alone
         /\ Finished(j)' => job'[i].alone = job[i].alone

LEMMA BeginDoes ==
    ASSUME JobsOK, NEW j \in Jobs, At(j, "new"),
           NEW kind \in {"card", "load", "force", "local"}, NEW pc \in Pcs \ {"new"},
           Begin(j, kind, pc)
    PROVE  Starts(j) /\ job'[j].pc = pc /\ job'[j].kind = kind
<1> DEFINE others == IF pc \in Over THEN {} ELSE Active
           p(i) == IF i = j THEN [job[j] EXCEPT !.pc = pc, !.kind = kind, !.alone = others = {}]
                   ELSE [job[i] EXCEPT !.alone = @ /\ i \notin others]
<1>1. \A i \in Jobs : job[i] \in JobRecords
  BY DEF JobsOK
<1>2. job' = [i \in Jobs |-> p(i)]
  BY DEF Begin
<1> HIDE DEF others
<1>3. ASSUME NEW i \in Jobs, i # j
      PROVE  /\ p(i) \in JobRecords /\ p(i).pc = job[i].pc /\ p(i).kind = job[i].kind
             /\ p(i).file = job[i].file /\ p(i).step = job[i].step
             /\ p(i).todo = job[i].todo /\ p(i).dir = job[i].dir
             /\ p(i).why = job[i].why /\ p(i).fault = job[i].fault
             /\ p(i).got = job[i].got /\ (p(i).alone <=> job[i].alone /\ i \notin others)
  <2> DEFINE a == job[i].alone /\ i \notin others
             q == [job[i] EXCEPT !.alone = a]
  <2>1. job[i] \in JobRecords /\ a \in BOOLEAN
    BY <1>1
  <2>2. p(i) = q
    BY <1>3
  <2>3. job[i].alone \in BOOLEAN
    BY <2>1 DEF JobRecords
  <2> HIDE DEF a
  <2>4. /\ q \in JobRecords /\ q.pc = job[i].pc /\ q.kind = job[i].kind
        /\ q.file = job[i].file /\ q.step = job[i].step
        /\ q.todo = job[i].todo /\ q.dir = job[i].dir
        /\ q.why = job[i].why /\ q.fault = job[i].fault
        /\ q.got = job[i].got /\ q.alone = a
    BY <2>1 DEF JobRecords
  <2> HIDE DEF q, p
  <2> QED BY <2>2, <2>4 DEF a
<1>4. /\ p(j) \in JobRecords /\ p(j).pc = pc /\ p(j).kind = kind
      /\ p(j).why = job[j].why /\ p(j).fault = job[j].fault /\ p(j).got = job[j].got
      /\ (p(j).alone <=> others = {})
  <2> DEFINE a == (others = {})
             q == [job[j] EXCEPT !.pc = pc, !.kind = kind, !.alone = a]
  <2>1. job[j] \in JobRecords /\ a \in BOOLEAN /\ p(j) = q
    BY <1>1
  <2> HIDE DEF a
  <2>2. /\ q \in JobRecords /\ q.pc = pc /\ q.kind = kind
        /\ q.why = job[j].why /\ q.fault = job[j].fault /\ q.got = job[j].got
        /\ q.alone = a
    BY <2>1 DEF JobRecords
  <2> HIDE DEF q, p
  <2> QED BY <2>1, <2>2 DEF a
<1> HIDE DEF p
<1>5. JobsOK' /\ \A i \in Jobs : job'[i] = p(i)
  BY <1>2, <1>3, <1>4 DEF JobsOK
<1>6. Finished(j)' <=> pc \in Over
  BY <1>4, <1>5 DEF Finished
<1>7. \A i \in Jobs : i \in others => ~(pc \in Over)
  BY DEF others
<1>8. \A i \in Jobs : pc \notin Over /\ ~Finished(i) => i \in others
  BY DEF others, Active, Finished
<1>9. others = {} <=> pc \in Over \/ Active = {}
  BY DEF others
<1>10. Started(j)'
  BY <1>4, <1>5 DEF Started, At
<1>11. \A i \in Jobs : job[i].alone \in BOOLEAN /\ job'[i].alone \in BOOLEAN
  BY <1>1, <1>5 DEF JobsOK, JobRecords
<1>12. ASSUME NEW i \in Jobs, i # j
       PROVE  /\ Finished(j)' \/ Finished(i) \/ ~job'[i].alone
              /\ (Finished(j)' => job'[i].alone = job[i].alone)
              /\ (job'[i].alone => job[i].alone)
  <2>1. job'[i].alone <=> job[i].alone /\ i \notin others
    BY <1>3, <1>5, <1>12
  <2>2. Finished(j)' \/ Finished(i) \/ i \in others
    BY <1>6, <1>8
  <2>3. Finished(j)' => i \notin others
    BY <1>6, <1>7
  <2> QED BY <1>11, <2>1, <2>2, <2>3
<1>13. job'[j].alone <=> Finished(j)' \/ Active = {}
  BY <1>4, <1>5, <1>6, <1>9
<1> QED BY <1>3, <1>4, <1>5, <1>10, <1>12, <1>13 DEF Starts

-----------------------------------------------------------------------------
(* What each step keeps of the types and of the order of the jobs. *)

\* What each step of a job shows of BaseOK.
BaseStep(j) ==
    /\ Moves(j) /\ TypeOK' /\ PlaceOK(j)' /\ CleansOK(j)'
    /\ \A i \in Jobs \ {j} : named'[i] = named[i] /\ received'[i] = received[i]
    /\ \A x \in Jobs : File(x) \in cache'["tmp"] \cup cache'["download"] =>
           x = j \/ File(x) \in cache["tmp"] \cup cache["download"]
    /\ Abandoning(j)' => \/ job'[j].todo \subseteq cache["tmp"]
                         \/ Abandoning(j) /\ job'[j].todo \subseteq job[j].todo
    /\ spoiled => spoiled' \/ (job[j].alone /\ job[j].kind = "force")

LEMMA CacheSet ==
    ASSUME CacheOK, NEW d \in Dirs, NEW S, cache' = [cache EXCEPT ![d] = S],
           \/ S = Absent \/ S \subseteq Files
           \/ d = "asset" /\ S \subseteq Files \cup MemberFiles
    PROVE  CacheOK' /\ cache'[d] = S /\ \A e \in Dirs \ {d} : cache'[e] = cache[e]
<1>1. DOMAIN cache' = Dirs /\ cache'[d] = S /\ \A e \in Dirs \ {d} : cache'[e] = cache[e]
  BY DEF CacheOK
<1>2. CASE d = "asset"
  BY <1>1, <1>2 DEF CacheOK, Dirs
<1>3. CASE d # "asset"
  BY <1>1, <1>3 DEF CacheOK, Dirs
<1> QED BY <1>1, <1>2, <1>3

\* Only a job that failed, or is about to, has met a fault.
LEMMA NoFault ==
    ASSUME PlacesOK, NEW j \in Jobs, ~Finished(j), ~At(j, "unlink")
    PROVE  ~job[j].fault
<1>1. job[j].pc \notin {"failed", "killed"}
  BY DEF Finished, Over
<1> QED BY <1>1 DEF PlacesOK, PlaceOK, Abandoning

\* The places of which PlaceOK and CleansOK ask nothing.
Passes == {"check_asset", "check_download", "make_tmp", "open", "receive", "check_extracted",
           "make_asset", "pick", "retrieve", "finish", "done", "failed", "killed"}

LEMMA GoBase ==
    ASSUME BaseOK, NEW j \in Jobs, NEW pc \in Passes, GoesTo(j, pc),
           job[j].fault => pc \in {"failed", "killed"},
           At(j, "barrier") => pc \in {"failed", "killed"},
           format' = format, received' = received, named' = named, CacheOK',
           members' \in [Members -> {"none", "partial", "whole"}], spoiled' \in BOOLEAN,
           \A x \in Jobs : File(x) \in cache'["tmp"] \cup cache'["download"] =>
               x = j \/ File(x) \in cache["tmp"] \cup cache["download"],
           spoiled => spoiled'
    PROVE  BaseStep(j)
<1> USE DEF BaseOK
<1>1. Moves(j)
  BY DEF GoesTo
<1>2. TypeOK'
  BY <1>1 DEF TypeOK, Moves
<1>3. /\ job'[j].pc = pc /\ pc # "new"
      /\ pc \notin {"unlink", "cleaned", "clean", "extract", "move", "drop", "barrier", "publish"}
  BY DEF GoesTo, Passes
<1>4. ~Cleaning(j)' /\ ~Abandoning(j)' /\ ~At(j, "unlink")'
  BY <1>3 DEF Cleaning, Abandoning, At
<1>5. CleansOK(j)'
  BY <1>4 DEF CleansOK
<1>6. PlaceOK(j)
  BY DEF PlacesOK
<1>7. job'[j].kind \in {"load", "force", "local"}
  BY <1>1, <1>6 DEF PlaceOK, Moves
<1>8. job'[j].fault => job'[j].pc \in {"failed", "killed"}
  BY <1>3 DEF GoesTo
<1>9. job'[j].pc \in {"done", "failed", "killed", "barrier"}
        \/ \A r \in Ranks : job'[j].got[r] = "none"
  <2>1. CASE pc \in {"done", "failed", "killed"}
    BY <1>3, <2>1
  <2>2. CASE pc \notin {"done", "failed", "killed"}
    <3>1. job[j].pc \notin {"done", "failed", "killed", "barrier"}
      BY <1>1, <2>2 DEF Moves, Finished, Over, At
    <3>2. \A r \in Ranks : job[j].got[r] = "none"
      BY <1>6, <3>1 DEF PlaceOK
    <3> QED BY <3>2 DEF GoesTo
  <2> QED BY <2>1, <2>2
<1>10. PlaceOK(j)'
  <2>1. named'[j] => received'[j] = Chunks
    BY <1>6 DEF PlaceOK
  <2>2. /\ ~At(j, "cleaned")' /\ ~At(j, "clean")' /\ ~Cleaning(j)'
        /\ ~At(j, "barrier")' /\ ~At(j, "new")' /\ ~At(j, "publish")'
        /\ job'[j].pc \notin {"extract", "move", "drop"}
    BY <1>3, <1>4 DEF At
  <2> QED BY <1>4, <1>7, <1>8, <1>9, <2>1, <2>2 DEF PlaceOK
<1> QED BY <1>1, <1>2, <1>4, <1>5, <1>10 DEF BaseStep

\* So it is for a step that leaves the cache alone.
LEMMA GoKeeps ==
    ASSUME BaseOK, NEW j \in Jobs, ~Finished(j), NEW pc \in Passes, Go(j, pc),
           job[j].fault => pc \in {"failed", "killed"},
           At(j, "barrier") => pc \in {"failed", "killed"},
           UNCHANGED <<format, cacheVars>>, spoiled' \in BOOLEAN, spoiled => spoiled'
    PROVE  BaseStep(j) /\ GoesTo(j, pc)
<1>1. pc \in Pcs \ {"new"}
  BY DEF Passes, Pcs, Over
<1>2. GoesTo(j, pc)
  BY <1>1, GoDoes DEF BaseOK, TypeOK
<1>3. /\ format' = format /\ received' = received /\ named' = named /\ cache' = cache
      /\ members' = members
  BY DEF cacheVars
<1>4. CacheOK' /\ members' \in [Members -> {"none", "partial", "whole"}]
  BY <1>3 DEF BaseOK, TypeOK, CacheOK
<1> QED BY <1>2, <1>3, <1>4, GoBase

LEMMA GoesBase ==
    ASSUME BaseOK, NEW j \in Jobs,
           CheckAsset(j) \/ CheckDownload(j) \/ CheckExtracted(j) \/ Kill(j)
    PROVE  BaseStep(j)
<1> USE DEF BaseOK
<1>1. spoiled \in BOOLEAN /\ PlacesOK
  BY DEF TypeOK
<1>2. CASE CheckAsset(j)
  <2>1. ~Finished(j) /\ ~At(j, "unlink") /\ ~At(j, "barrier")
    BY <1>2 DEF CheckAsset, At, Finished, Over
  <2>2. PICK pc \in {"check_extracted", "check_download"} : Go(j, pc)
    BY <1>2 DEF CheckAsset
  <2> QED BY <1>1, <1>2, <2>1, <2>2, NoFault, GoKeeps DEF CheckAsset, Passes
<1>3. CASE CheckDownload(j)
  <2>1. ~Finished(j) /\ ~At(j, "unlink") /\ ~At(j, "barrier")
    BY <1>3 DEF CheckDownload, At, Finished, Over
  <2>2. PICK pc \in {"check_extracted", "make_tmp"} : Go(j, pc)
    BY <1>3 DEF CheckDownload
  <2> QED BY <1>1, <1>3, <2>1, <2>2, NoFault, GoKeeps DEF CheckDownload, Passes
<1>4. CASE CheckExtracted(j)
  <2>1. ~Finished(j) /\ ~At(j, "unlink") /\ ~At(j, "barrier")
    BY <1>4 DEF CheckExtracted, At, Finished, Over
  <2>2. PICK pc \in {"make_asset", "retrieve"} : Go(j, pc)
    BY <1>4 DEF CheckExtracted
  <2> QED BY <1>1, <1>4, <2>1, <2>2, NoFault, GoKeeps DEF CheckExtracted, Passes
<1>5. CASE Kill(j)
  <2>1. ~Finished(j)
    BY <1>5 DEF Kill, Active, Finished
  <2>2. spoiled' \in BOOLEAN /\ (spoiled => spoiled')
    BY <1>1, <1>5 DEF Kill
  <2> QED BY <1>5, <2>1, <2>2, GoKeeps DEF Kill, Passes
<1> QED BY <1>2, <1>3, <1>4, <1>5

\* The removal of a directory begins.
LEMMA CleanBase ==
    ASSUME BaseOK, NEW j \in Jobs, Clean(j) \/ CleanNext(j)
    PROVE  BaseStep(j)
<1> USE DEF BaseOK
<1>1. /\ ~Finished(j) /\ ~At(j, "unlink") /\ ~At(j, "barrier") /\ job[j].kind = "force"
      /\ job[j].pc \in {"clean", "cleaned"}
  <2>1. job[j].pc \in {"clean", "cleaned"}
    BY DEF Clean, CleanNext, At
  <2>2. At(j, "clean") \/ Cleaning(j)
    BY <2>1 DEF PlacesOK, PlaceOK, Cleaning, At
  <2> QED BY <2>1, <2>2 DEF PlacesOK, PlaceOK, At, Finished, Over
<1>2. ~job[j].fault /\ \A r \in Ranks : job[j].got[r] = "none"
  BY <1>1, NoFault DEF PlacesOK, PlaceOK
<1>3. /\ format' = format /\ cache' = cache /\ received' = received /\ named' = named
      /\ members' = members
  BY DEF Clean, CleanNext, cacheVars
<1>4. spoiled' \in BOOLEAN /\ (spoiled => spoiled' \/ job[j].alone)
  BY DEF Clean, CleanNext, TypeOK
<1>5. CacheOK'
  BY <1>3 DEF TypeOK, CacheOK
<1>6. ASSUME NEW d \in Dirs, Removal(j, d, "clean"),
             d = "asset" \/ (Cleaning(j) /\ ((d = "download" /\ job[j].dir = "asset")
                                          \/ (d = "tmp" /\ job[j].dir = "download")))
      PROVE  BaseStep(j)
  <2>1. /\ Moves(j) /\ job'[j].why = "clean" /\ job'[j].dir = d
        /\ job'[j].fault = job[j].fault /\ job'[j].got = job[j].got
        /\ ~Exists(d) => job'[j].pc = "cleaned"
        /\ Exists(d) => job'[j].pc = "unlink" /\ job'[j].todo = cache[d]
    BY <1>1, <1>6, RemovalDoes DEF TypeOK
  <2>2. job'[j].pc \in {"unlink", "cleaned"}
    BY <2>1
  <2>3. TypeOK'
    BY <1>3, <1>4, <1>5, <2>1 DEF TypeOK, Moves
  <2>4. PlaceOK(j)'
    <3>1. named'[j] => received'[j] = Chunks
      BY <1>3 DEF PlacesOK, PlaceOK
    <3>2. /\ ~At(j, "clean")' /\ ~At(j, "barrier")' /\ ~At(j, "new")' /\ ~At(j, "publish")'
          /\ job'[j].pc \notin {"extract", "move", "drop"} /\ ~Finishing(j)' /\ ~Abandoning(j)'
      BY <2>1, <2>2 DEF At, Finishing, Abandoning
    <3>3. job'[j].kind = "force" /\ \A r \in Ranks : job'[j].got[r] = "none"
      BY <1>1, <1>2, <2>1 DEF Moves
    <3> QED BY <1>2, <2>1, <3>1, <3>2, <3>3 DEF PlaceOK
  <2>5. CleansOK(j)'
    <3>1. ASSUME job'[j].alone, Cleaning(j) PROVE job[j].alone /\ CleansOK(j)
      BY <2>1, <3>1 DEF Moves, CleanOK
    <3>2. Exists(d)' = Exists(d) /\ Exists("asset")' = Exists("asset")
          /\ Exists("download")' = Exists("download")
      BY <1>3 DEF Exists
    <3>3. Cleaning(j) => At(j, "cleaned")
      BY <1>1 DEF At, Cleaning
    <3> QED BY <1>3, <1>6, <2>1, <3>1, <3>2, <3>3 DEF CleansOK, At
  <2>6. ~Abandoning(j)'
    BY <2>1 DEF Abandoning
  <2> QED BY <1>1, <1>3, <1>4, <2>1, <2>3, <2>4, <2>5, <2>6 DEF BaseStep
<1>7. CASE Clean(j)
  BY <1>6, <1>7 DEF Clean, Dirs
<1>8. CASE CleanNext(j)
  <2>1. Cleaning(j) /\ job[j].dir \in Dirs
    BY <1>8 DEF CleanNext, PlacesOK, PlaceOK, Cleaning, At
  <2>2. CASE job[j].dir # "tmp"
    BY <1>6, <1>8, <2>1, <2>2 DEF CleanNext, Dirs
  <2>3. CASE job[j].dir = "tmp"
    <3>1. Go(j, "check_asset")
      BY <1>8, <2>3 DEF CleanNext
    <3>2. GoesTo(j, "check_asset")
      BY <1>1, <3>1, GoDoes DEF TypeOK, Pcs
    <3>3. TypeOK'
      BY <1>3, <1>4, <1>5, <3>2 DEF TypeOK, Moves, GoesTo
    <3>4. PlaceOK(j)'
      <4>1. named'[j] => received'[j] = Chunks
        BY <1>3 DEF PlacesOK, PlaceOK
      <4>2. job'[j].pc = "check_asset" /\ job'[j].kind = "force" /\ ~job'[j].fault
            /\ \A r \in Ranks : job'[j].got[r] = "none"
        BY <1>1, <1>2, <3>2 DEF GoesTo, Moves
      <4> QED BY <4>1, <4>2 DEF PlaceOK, At, Finishing, Abandoning, Cleaning
    <3>5. CleansOK(j)' /\ ~Abandoning(j)'
      BY <3>2 DEF CleansOK, Cleaning, GoesTo, Abandoning, At
    <3> QED BY <1>1, <1>3, <1>4, <3>2, <3>3, <3>4, <3>5 DEF BaseStep, GoesTo
  <2> QED BY <2>2, <2>3
<1> QED BY <1>7, <1>8

\* The entries and the directory are removed.
LEMMA CleanedBase ==
    ASSUME BaseOK, NEW j \in Jobs, At(j, "unlink"), job[j].why = "clean", Go(j, "cleaned"),
           format' = format, received' = received, named' = named, members' = members,
           spoiled' = spoiled,
           cache' = cache \/ cache' = [cache EXCEPT ![job[j].dir] = Absent],
           job[j].alone => cache'[job[j].dir] = Absent
    PROVE  BaseStep(j)
<1> USE DEF BaseOK
<1> DEFINE d == job[j].dir
<1>1. d \in Dirs /\ ~Finished(j) /\ Cleaning(j) /\ job[j].kind = "force" /\ ~job[j].fault
      /\ \A r \in Ranks : job[j].got[r] = "none"
  <2>1. job[j].pc = "unlink" /\ ~Finished(j) /\ Cleaning(j) /\ ~Abandoning(j)
    BY DEF Finished, At, Cleaning, Over, Abandoning
  <2> QED BY <2>1 DEF PlacesOK, PlaceOK
<1>2. CacheOK' /\ \A e \in Dirs \ {d} : cache'[e] = cache[e]
  BY <1>1, CacheSet DEF TypeOK, CacheOK
<1>3. cache'[d] = cache[d] \/ cache'[d] = Absent
  BY <1>1, CacheSet DEF TypeOK
<1>4. GoesTo(j, "cleaned")
  BY <1>1, GoDoes DEF TypeOK, Pcs
<1>5. TypeOK'
  BY <1>2, <1>4 DEF TypeOK, GoesTo, Moves
<1>6. PlaceOK(j)'
  <2>1. named'[j] => received'[j] = Chunks
    BY DEF PlacesOK, PlaceOK
  <2>2. /\ job'[j].pc = "cleaned" /\ job'[j].why = "clean" /\ job'[j].dir \in Dirs
        /\ job'[j].kind = "force" /\ ~job'[j].fault /\ \A r \in Ranks : job'[j].got[r] = "none"
    BY <1>1, <1>4 DEF GoesTo, Moves
  <2> QED BY <2>1, <2>2 DEF PlaceOK, At, Finishing, Abandoning, Cleaning
<1>7. CleansOK(j)'
  <2>1. /\ job'[j].pc = "cleaned" /\ job'[j].dir = d /\ job'[j].alone = job[j].alone
    BY <1>4 DEF GoesTo, Moves
  <2>2. job[j].alone => CleansOK(j) /\ cache'[d] = Absent
    BY DEF CleanOK
  <2>3. \A e \in Dirs \ {d} : ~Exists(e) => ~Exists(e)'
    BY <1>2 DEF Exists
  <2> HIDE DEF d
  <2>4. job[j].alone => /\ d = "download" => ~Exists("asset")'
                        /\ d = "tmp" => ~Exists("asset")' /\ ~Exists("download")'
    BY <1>1, <2>2, <2>3 DEF CleansOK, Dirs, d
  <2> QED BY <2>1, <2>2, <2>4 DEF CleansOK, At, Exists
<1>8. \A e \in Dirs : cache'[e] = cache[e] \/ cache'[e] = Absent
  BY <1>2, <1>3
<1> HIDE DEF d
<1>9. \A x \in Jobs : File(x) \in cache'["tmp"] \cup cache'["download"] =>
                        File(x) \in cache["tmp"] \cup cache["download"]
  BY <1>8, EntriesDiffer DEF Dirs
<1>10. ~Abandoning(j)'
  BY <1>4 DEF Abandoning, GoesTo, At
<1> QED BY <1>4, <1>5, <1>6, <1>7, <1>9, <1>10 DEF BaseStep, GoesTo

LEMMA UnlinkBase ==
    ASSUME BaseOK, NEW j \in Jobs, Unlink(j)
    PROVE  BaseStep(j)
<1> USE DEF BaseOK
<1> DEFINE d == job[j].dir
<1>1. PICK e \in job[j].todo :
         IF Has(d, e)
         THEN /\ cache' = [cache EXCEPT ![d] = @ \ {e}]
              /\ job' = [job EXCEPT ![j].todo = @ \ {e}]
         ELSE RemovalMissing(j) /\ UNCHANGED cache
  BY DEF Unlink
<1>2. /\ At(j, "unlink") /\ format' = format /\ received' = received /\ named' = named
      /\ members' = members /\ spoiled' = spoiled
  BY DEF Unlink
<1>3. ~Finished(j) /\ d \in Dirs /\ ~At(j, "barrier") /\ PlaceOK(j)
  BY <1>2 DEF At, Finished, Over, PlacesOK, PlaceOK
<1>4. CASE Has(d, e)
  <2> DEFINE S == cache[d] \ {e}
  <2>1. cache' = [cache EXCEPT ![d] = S] /\ job' = [job EXCEPT ![j].todo = @ \ {e}]
    BY <1>1, <1>4
  <2>2. S \subseteq Files \/ (d = "asset" /\ S \subseteq Files \cup MemberFiles)
    BY <1>3, <1>4 DEF Has, Exists, TypeOK, CacheOK, Dirs
  <2>3. S # Absent
    BY <2>2, EntriesDiffer
  <2> HIDE DEF S
  <2>4. CacheOK' /\ cache'[d] = S /\ \A c \in Dirs \ {d} : cache'[c] = cache[c]
    BY <1>3, <2>1, <2>2, CacheSet DEF TypeOK
  <2>5. /\ Moves(j) /\ job'[j].pc = job[j].pc /\ job'[j].todo = job[j].todo \ {e}
        /\ job'[j].dir = d /\ job'[j].why = job[j].why
        /\ job'[j].fault = job[j].fault /\ job'[j].got = job[j].got
    BY <1>3, <2>1, TodoDoes DEF TypeOK
  <2>6. TypeOK'
    BY <1>2, <2>4, <2>5 DEF TypeOK, Moves
  <2>7. /\ \A c : At(j, c)' = At(j, c)
        /\ Finishing(j)' = Finishing(j) /\ Abandoning(j)' = Abandoning(j)
        /\ Cleaning(j)' = Cleaning(j) /\ job'[j].kind = job[j].kind
        /\ job'[j].alone = job[j].alone /\ job'[j].pc = "unlink" /\ At(j, "unlink")
    BY <1>2, <2>5 DEF At, Finishing, Abandoning, Cleaning, Moves
  <2>8. PlaceOK(j)'
    <3>1. job'[j].kind \in {"load", "force", "local"}
          /\ (Finishing(j)' => job'[j].dir = "download")
          /\ (Abandoning(j)' => job'[j].dir = "tmp")
          /\ (Cleaning(j)' => job'[j].kind = "force")
      BY <1>3, <2>5, <2>7 DEF PlaceOK
    <3>2. /\ job'[j].why # "none" /\ job'[j].dir \in Dirs
          /\ (job'[j].fault => Abandoning(j)')
          /\ \A r \in Ranks : job'[j].got[r] = "none"
          /\ (named'[j] => received'[j] = Chunks)
      BY <1>2, <1>3, <2>5, <2>7 DEF PlaceOK, At
    <3> QED BY <2>7, <3>1, <3>2 DEF PlaceOK, At
  <2>9. CleansOK(j)'
    <3>1. ASSUME Cleaning(j), job[j].alone
          PROVE  /\ d = "download" => ~Exists("asset")'
                 /\ d = "tmp" => ~Exists("asset")' /\ ~Exists("download")'
                 /\ job'[j].todo = cache'[d] /\ cache'[d] # Absent
      <4>1. job[j].todo = cache[d] /\ (d = "download" => ~Exists("asset"))
            /\ (d = "tmp" => ~Exists("asset") /\ ~Exists("download"))
        BY <1>2, <3>1 DEF CleanOK, CleansOK
      <4>2. \A c \in Dirs : c # d => Exists(c)' = Exists(c)
        BY <2>4 DEF Exists
      <4>3. cache'[d] # Absent
        BY <2>3, <2>4
      <4> QED BY <2>4, <2>5, <4>1, <4>2, <4>3 DEF S, Dirs
    <3> QED BY <2>5, <2>7, <3>1 DEF CleansOK, At, Exists
  <2>10. \A x \in Jobs : File(x) \in cache'["tmp"] \cup cache'["download"] =>
                           File(x) \in cache["tmp"] \cup cache["download"]
    BY <2>4, <1>3 DEF S, Dirs
  <2>11. Abandoning(j)' => Abandoning(j) /\ job'[j].todo \subseteq job[j].todo
    BY <2>5, <2>7
  <2> QED BY <1>2, <2>5, <2>6, <2>8, <2>9, <2>10, <2>11 DEF BaseStep
<1>5. CASE ~Has(d, e)
  <2>1. RemovalMissing(j) /\ cache' = cache
    BY <1>1, <1>5
  <2>2. CASE job[j].why = "clean"
    <3>1. ~job[j].alone
      <4>1. SUFFICES ASSUME job[j].alone PROVE FALSE
        OBVIOUS
      <4>2. job[j].todo = cache[d] /\ Exists(d)
        BY <1>2, <2>2, <4>1 DEF CleanOK, CleansOK, Cleaning, At
      <4> QED BY <1>5, <4>2 DEF Has
    <3> QED BY <1>2, <2>1, <2>2, <3>1, CleanedBase DEF RemovalMissing
  <2>3. CASE job[j].why # "clean"
    <3>1. Go(j, "failed")
      BY <2>1, <2>3 DEF RemovalMissing, Fails
    <3>2. UNCHANGED <<format, cacheVars>>
      BY <1>2, <2>1 DEF cacheVars
    <3>3. spoiled' \in BOOLEAN
      BY <1>2 DEF TypeOK
    <3> QED BY <1>2, <1>3, <3>1, <3>2, <3>3, GoKeeps DEF Passes
  <2> QED BY <2>2, <2>3
<1> QED BY <1>4, <1>5

LEMMA RmdirBase ==
    ASSUME BaseOK, NEW j \in Jobs, Rmdir(j)
    PROVE  BaseStep(j)
<1> USE DEF BaseOK
<1> DEFINE d == job[j].dir
<1>1. /\ At(j, "unlink") /\ job[j].todo = {} /\ format' = format /\ received' = received
      /\ named' = named /\ members' = members /\ spoiled' = spoiled
  BY DEF Rmdir
<1>2. ~Finished(j) /\ d \in Dirs /\ ~At(j, "barrier") /\ spoiled' \in BOOLEAN
  BY <1>1 DEF At, Finished, Over, PlacesOK, PlaceOK, TypeOK
<1>3. ASSUME Cleaning(j), job[j].alone PROVE Exists(d) /\ cache[d] = {}
  BY <1>1, <1>3 DEF CleanOK, CleansOK
<1>4. job[j].why = "clean" => Cleaning(j)
  BY <1>1 DEF Cleaning, At
<1>5. ASSUME Go(j, "failed"), cache' = cache PROVE BaseStep(j)
  <2>1. UNCHANGED <<format, cacheVars>>
    BY <1>1, <1>5 DEF cacheVars
  <2> QED BY <1>1, <1>2, <1>5, <2>1, GoKeeps DEF Passes
<1>6. CASE ~Exists(d)
  <2>1. RemovalMissing(j) /\ cache' = cache
    BY <1>6 DEF Rmdir
  <2>2. CASE job[j].why = "clean"
    <3>1. ~job[j].alone
      BY <1>3, <1>4, <1>6, <2>2
    <3> QED BY <1>1, <2>1, <2>2, <3>1, CleanedBase DEF RemovalMissing
  <2>3. CASE job[j].why # "clean"
    BY <1>5, <2>1, <2>3 DEF RemovalMissing, Fails
  <2> QED BY <2>2, <2>3
<1>7. CASE Exists(d) /\ cache[d] # {}
  BY <1>5, <1>7 DEF Rmdir, Fails
<1>8. CASE Exists(d) /\ cache[d] = {}
  <2>1. AfterRemoval(j) /\ cache' = [cache EXCEPT ![d] = Absent]
    BY <1>8 DEF Rmdir
  <2>2. CacheOK' /\ cache'[d] = Absent /\ \A e \in Dirs \ {d} : cache'[e] = cache[e]
    BY <1>2, <2>1, CacheSet DEF TypeOK
  <2>3. CASE job[j].why = "clean"
    <3>1. cache'[job[j].dir] = Absent
      BY <2>2
    <3> QED BY <1>1, <2>1, <2>3, <3>1, CleanedBase DEF AfterRemoval
  <2>4. CASE job[j].why # "clean"
    <3>1. PICK pc \in {"retrieve", "failed"} : Go(j, pc) /\ (job[j].why # "finish" => pc = "failed")
      BY <2>1, <2>4 DEF AfterRemoval
    <3>2. GoesTo(j, pc)
      BY <1>2, <3>1, GoDoes DEF TypeOK, Pcs, Over
    <3>3. job[j].fault => pc = "failed"
      BY <1>1, <3>1 DEF PlacesOK, PlaceOK, Abandoning, At
    <3>4. \A x \in Jobs : File(x) \in cache'["tmp"] \cup cache'["download"] =>
                           File(x) \in cache["tmp"] \cup cache["download"]
      <4>1. \A e \in Dirs : cache'[e] = cache[e] \/ cache'[e] = Absent
        BY <2>2
      <4> QED BY <4>1, EntriesDiffer DEF Dirs
    <3>5. members' \in [Members -> {"none", "partial", "whole"}]
      BY <1>1 DEF TypeOK
    <3> QED BY <1>1, <1>2, <2>2, <3>1, <3>2, <3>3, <3>4, <3>5, GoBase DEF Passes
  <2> QED BY <2>3, <2>4
<1> QED BY <1>6, <1>7, <1>8

\* The download.
LEMMA AbandonBase ==
    ASSUME BaseOK, NEW j \in Jobs, job[j].pc \in {"open", "receive", "publish"},
           NEW fault \in BOOLEAN, Abandon(j, fault), UNCHANGED <<format, cacheVars>>
    PROVE  BaseStep(j)
<1> USE DEF BaseOK
<1>1. ~Finished(j) /\ PlaceOK(j) /\ \A r \in Ranks : job[j].got[r] = "none"
  <2>1. ~Finished(j)
    BY DEF Finished, Over
  <2> QED BY <2>1 DEF PlacesOK, PlaceOK
<1>2. /\ Moves(j) /\ job'[j].why = "abandon" /\ job'[j].dir = "tmp"
      /\ job'[j].fault = fault /\ job'[j].got = job[j].got
      /\ ~Exists("tmp") => job'[j].pc = "failed"
      /\ Exists("tmp") => job'[j].pc = "unlink" /\ job'[j].todo = cache["tmp"]
      /\ spoiled' <=> spoiled \/ ~job[j].alone
  BY <1>1, AbandonDoes DEF TypeOK
<1>3. /\ format' = format /\ cache' = cache /\ received' = received /\ named' = named
      /\ members' = members /\ spoiled' \in BOOLEAN
  BY DEF cacheVars, Abandon, TypeOK
<1>4. TypeOK'
  BY <1>2, <1>3 DEF TypeOK, Moves, CacheOK
<1>5. job'[j].pc \in {"failed", "unlink"} /\ job'[j].kind \in {"load", "force", "local"}
  BY <1>1, <1>2 DEF Moves, PlaceOK
<1>6. PlaceOK(j)'
  <2>1. named'[j] => received'[j] = Chunks
    BY <1>1, <1>3 DEF PlaceOK
  <2>2. /\ ~At(j, "cleaned")' /\ ~At(j, "clean")' /\ ~Cleaning(j)' /\ ~Finishing(j)'
        /\ ~At(j, "barrier")' /\ ~At(j, "new")' /\ ~At(j, "publish")'
        /\ job'[j].pc \notin {"extract", "move", "drop"}
        /\ Abandoning(j)' \/ job'[j].pc = "failed"
    BY <1>2, <1>5 DEF At, Cleaning, Finishing, Abandoning
  <2> QED BY <1>1, <1>2, <1>5, <2>1, <2>2 DEF PlaceOK, Dirs
<1>7. CleansOK(j)'
  BY <1>2 DEF CleansOK, Cleaning
<1>8. Abandoning(j)' => job'[j].todo \subseteq cache["tmp"]
  BY <1>2 DEF Abandoning, At
<1> QED BY <1>2, <1>3, <1>4, <1>6, <1>7, <1>8 DEF BaseStep

LEMMA MakeTmpBase ==
    ASSUME BaseOK, NEW j \in Jobs, MakeTmp(j)
    PROVE  BaseStep(j)
<1> USE DEF BaseOK
<1>1. /\ ~Finished(j) /\ ~At(j, "unlink") /\ ~At(j, "barrier") /\ Go(j, "open")
      /\ format' = format /\ received' = received /\ named' = named /\ members' = members
      /\ spoiled' = spoiled
  BY DEF MakeTmp, At, Finished, Over
<1> DEFINE S == IF cache["tmp"] = Absent THEN {} ELSE cache["tmp"]
<1>2. S \subseteq Files /\ cache' = [cache EXCEPT !["tmp"] = S]
  BY DEF MakeTmp, TypeOK, CacheOK
<1>3. S \subseteq cache["tmp"]
  OBVIOUS
<1> HIDE DEF S
<1>4. CacheOK' /\ cache'["tmp"] = S /\ cache'["download"] = cache["download"]
  BY <1>2, CacheSet DEF TypeOK, Dirs
<1>5. GoesTo(j, "open") /\ ~job[j].fault
  BY <1>1, GoDoes, NoFault DEF TypeOK, Pcs
<1>6. /\ members' \in [Members -> {"none", "partial", "whole"}] /\ spoiled' \in BOOLEAN
      /\ \A x \in Jobs : File(x) \in cache'["tmp"] \cup cache'["download"] =>
                           File(x) \in cache["tmp"] \cup cache["download"]
  BY <1>1, <1>3, <1>4 DEF TypeOK
<1> QED BY <1>1, <1>4, <1>5, <1>6, GoBase DEF Passes

LEMMA OpenBase ==
    ASSUME BaseOK, NEW j \in Jobs, Open(j)
    PROVE  BaseStep(j)
<1> USE DEF BaseOK
<1>1. /\ ~Finished(j) /\ ~At(j, "unlink") /\ ~At(j, "barrier") /\ job[j].pc = "open"
      /\ format' = format /\ received' = received /\ named' = named /\ members' = members
  BY DEF Open, At, Finished, Over
<1>2. CASE Exists("tmp")
  <2> DEFINE S == cache["tmp"] \cup {File(j)}
  <2>1. /\ S \subseteq Files /\ cache' = [cache EXCEPT !["tmp"] = S]
        /\ Go(j, "receive") /\ spoiled' = spoiled
    BY <1>2 DEF Open, TypeOK, CacheOK, Exists, Files
  <2>2. \A x \in Jobs : File(x) \in S => File(x) \in cache["tmp"] \/ x = j
    BY EntriesDiffer
  <2> HIDE DEF S
  <2>3. CacheOK' /\ cache'["tmp"] = S /\ cache'["download"] = cache["download"]
    BY <2>1, CacheSet DEF TypeOK, Dirs
  <2>4. GoesTo(j, "receive") /\ ~job[j].fault
    BY <1>1, <2>1, GoDoes, NoFault DEF TypeOK, Pcs
  <2>5. /\ members' \in [Members -> {"none", "partial", "whole"}] /\ spoiled' \in BOOLEAN
        /\ \A x \in Jobs : File(x) \in cache'["tmp"] \cup cache'["download"] =>
                             x = j \/ File(x) \in cache["tmp"] \cup cache["download"]
    BY <1>1, <2>1, <2>2, <2>3 DEF TypeOK
  <2> QED BY <1>1, <2>1, <2>3, <2>4, <2>5, GoBase DEF Passes
<1>3. CASE ~Exists("tmp")
  <2>1. Abandon(j, FALSE) /\ UNCHANGED <<format, cacheVars>>
    BY <1>1, <1>3 DEF Open, cacheVars
  <2> QED BY <1>1, <2>1, AbandonBase
<1> QED BY <1>2, <1>3

LEMMA ReceiveBase ==
    ASSUME BaseOK, NEW j \in Jobs, Receive(j)
    PROVE  BaseStep(j)
<1> USE DEF BaseOK
<1>1. /\ job[j].pc = "receive" /\ received[j] < Chunks
      /\ received' = [received EXCEPT ![j] = @ + 1]
      /\ format' = format /\ cache' = cache /\ named' = named /\ members' = members
      /\ job' = job /\ spoiled' = spoiled
  BY DEF Receive, At
<1>2. received \in [Jobs -> 0..2] /\ Chunks = 2
  BY DEF TypeOK, Chunks
<1>3. received' \in [Jobs -> 0..2] /\ \A i \in Jobs \ {j} : received'[i] = received[i]
  BY <1>1, <1>2
<1>4. Moves(j)
  BY <1>1 DEF Moves, TypeOK, JobsOK, Finished, Started, At, Over
<1>5. TypeOK'
  BY <1>1, <1>2, <1>3, <1>4 DEF TypeOK, CacheOK, Moves
<1>6. PlaceOK(j) /\ CleansOK(j)
  BY DEF PlacesOK, CleanOK
<1>7. ~named[j]
  BY <1>1, <1>2, <1>6 DEF PlaceOK
<1>8. PlaceOK(j)'
  BY <1>1, <1>6, <1>7 DEF PlaceOK, At, Finished, Finishing, Abandoning, Cleaning
<1>9. CleansOK(j)' /\ ~Abandoning(j)'
  BY <1>1 DEF CleansOK, At, Cleaning, Abandoning
<1> QED BY <1>1, <1>3, <1>4, <1>5, <1>8, <1>9 DEF BaseStep

LEMMA ServerFailsBase ==
    ASSUME BaseOK, NEW j \in Jobs, ServerFails(j)
    PROVE  BaseStep(j)
<1>1. /\ job[j].pc \in {"open", "receive", "publish"} /\ Abandon(j, TRUE)
      /\ UNCHANGED <<format, cacheVars>>
  BY DEF ServerFails, At
<1> QED BY <1>1, AbandonBase

LEMMA NameFileBase ==
    ASSUME BaseOK, NEW j \in Jobs, NameFile(j)
    PROVE  BaseStep(j)
<1> USE DEF BaseOK
<1>1. /\ ~Finished(j) /\ ~At(j, "unlink") /\ ~At(j, "barrier") /\ job[j].pc = "receive"
      /\ received[j] = Chunks
      /\ format' = format /\ received' = received /\ members' = members
  BY DEF NameFile, At, Finished, Over
<1>2. CASE Has("tmp", File(j))
  <2> DEFINE S == (cache["tmp"] \ SameName(cache["tmp"])) \cup {File(j)}
  <2>1. /\ S \subseteq Files /\ cache' = [cache EXCEPT !["tmp"] = S]
        /\ Go(j, "publish") /\ spoiled' = spoiled /\ named' = [named EXCEPT ![j] = TRUE]
    BY <1>2 DEF NameFile, TypeOK, CacheOK, Exists, Has, Files
  <2>2. S \subseteq cache["tmp"]
    BY <1>2 DEF Has
  <2> HIDE DEF S
  <2>3. CacheOK' /\ cache'["tmp"] = S /\ cache'["download"] = cache["download"]
    BY <2>1, CacheSet DEF TypeOK, Dirs
  <2>4. GoesTo(j, "publish") /\ ~job[j].fault
    BY <1>1, <2>1, GoDoes, NoFault DEF TypeOK, Pcs
  <2>5. /\ named' \in [Jobs -> BOOLEAN] /\ named'[j]
        /\ \A i \in Jobs \ {j} : named'[i] = named[i]
    BY <2>1 DEF TypeOK
  <2>6. TypeOK'
    BY <1>1, <2>1, <2>3, <2>4, <2>5 DEF TypeOK, GoesTo, Moves
  <2>7. PlaceOK(j)'
    <3>1. job[j].kind \in {"load", "force", "local"} /\ \A r \in Ranks : job[j].got[r] = "none"
      BY <1>1 DEF PlacesOK, PlaceOK
    <3>2. /\ job'[j].pc = "publish" /\ job'[j].kind \in {"load", "force", "local"}
          /\ ~job'[j].fault /\ \A r \in Ranks : job'[j].got[r] = "none"
      BY <2>4, <3>1 DEF GoesTo, Moves
    <3> QED BY <1>1, <2>5, <3>2 DEF PlaceOK, At, Finishing, Abandoning, Cleaning
  <2>8. CleansOK(j)' /\ ~Abandoning(j)'
    BY <2>4 DEF CleansOK, At, Cleaning, Abandoning, GoesTo
  <2>9. \A x \in Jobs : File(x) \in cache'["tmp"] \cup cache'["download"] =>
                          File(x) \in cache["tmp"] \cup cache["download"]
    BY <2>2, <2>3
  <2> QED BY <1>1, <2>1, <2>4, <2>5, <2>6, <2>7, <2>8, <2>9 DEF BaseStep, GoesTo
<1>3. CASE ~Has("tmp", File(j))
  <2>1. Abandon(j, FALSE) /\ UNCHANGED <<format, cacheVars>>
    BY <1>1, <1>3 DEF NameFile, cacheVars
  <2> QED BY <1>1, <2>1, AbandonBase
<1> QED BY <1>2, <1>3

LEMMA PublishBase ==
    ASSUME BaseOK, NEW j \in Jobs, Publish(j)
    PROVE  BaseStep(j)
<1> USE DEF BaseOK
<1>1. /\ ~Finished(j) /\ ~At(j, "unlink") /\ ~At(j, "barrier") /\ job[j].pc = "publish"
      /\ format' = format /\ received' = received /\ members' = members /\ named' = named
  BY DEF Publish, At, Finished, Over
<1>2. CASE Exists("tmp") /\ cache["download"] \in {Absent, {}}
  <2>1. /\ cache' = [cache EXCEPT !["download"] = cache["tmp"], !["tmp"] = Absent]
        /\ Go(j, "check_extracted") /\ spoiled' = spoiled
    BY <1>2 DEF Publish
  <2>2. /\ DOMAIN cache' = Dirs /\ cache'["download"] = cache["tmp"]
        /\ cache'["tmp"] = Absent /\ cache'["asset"] = cache["asset"]
    BY <2>1 DEF TypeOK, CacheOK, Dirs
  <2>3. CacheOK'
    BY <2>2 DEF TypeOK, CacheOK
  <2>4. GoesTo(j, "check_extracted") /\ ~job[j].fault
    BY <1>1, <2>1, GoDoes, NoFault DEF TypeOK, Pcs
  <2>5. /\ members' \in [Members -> {"none", "partial", "whole"}] /\ spoiled' \in BOOLEAN
        /\ \A x \in Jobs : File(x) \in cache'["tmp"] \cup cache'["download"] =>
                             x = j \/ File(x) \in cache["tmp"] \cup cache["download"]
    BY <1>1, <2>1, <2>2, EntriesDiffer DEF TypeOK
  <2> QED BY <1>1, <2>1, <2>3, <2>4, <2>5, GoBase DEF Passes
<1>3. CASE ~(Exists("tmp") /\ cache["download"] \in {Absent, {}})
  <2>1. Abandon(j, FALSE) /\ UNCHANGED <<format, cacheVars>>
    BY <1>1, <1>3 DEF Publish, cacheVars
  <2> QED BY <1>1, <2>1, AbandonBase
<1> QED BY <1>2, <1>3

\* The extraction.
LEMMA MakeAssetBase ==
    ASSUME BaseOK, NEW j \in Jobs, MakeAsset(j)
    PROVE  BaseStep(j)
<1> USE DEF BaseOK
<1>1. /\ ~Finished(j) /\ ~At(j, "unlink") /\ ~At(j, "barrier") /\ Go(j, "pick")
      /\ format' = format /\ received' = received /\ named' = named /\ members' = members
      /\ spoiled' = spoiled
  BY DEF MakeAsset, At, Finished, Over
<1> DEFINE S == IF cache["asset"] = Absent THEN {} ELSE cache["asset"]
<1>2. S \subseteq Files \cup MemberFiles /\ cache' = [cache EXCEPT !["asset"] = S]
  BY DEF MakeAsset, TypeOK, CacheOK
<1> HIDE DEF S
<1>3. CacheOK' /\ cache'["tmp"] = cache["tmp"] /\ cache'["download"] = cache["download"]
  BY <1>2, CacheSet DEF TypeOK, Dirs
<1>4. GoesTo(j, "pick") /\ ~job[j].fault
  BY <1>1, GoDoes, NoFault DEF TypeOK, Pcs
<1>5. members' \in [Members -> {"none", "partial", "whole"}] /\ spoiled' \in BOOLEAN
  BY <1>1 DEF TypeOK
<1> QED BY <1>1, <1>3, <1>4, <1>5, GoBase DEF Passes

LEMMA PickBase ==
    ASSUME BaseOK, NEW j \in Jobs, Pick(j)
    PROVE  BaseStep(j)
<1> USE DEF BaseOK
<1>1. /\ ~Finished(j) /\ ~At(j, "unlink") /\ ~At(j, "barrier") /\ job[j].pc = "pick"
      /\ UNCHANGED <<format, cacheVars>>
  BY DEF Pick, At, Finished, Over, cacheVars
<1>2. ~job[j].fault /\ PlaceOK(j) /\ \A r \in Ranks : job[j].got[r] = "none"
  BY <1>1, NoFault DEF PlacesOK, PlaceOK
<1>3. ASSUME NEW pc \in {"failed", "retrieve"}, Go(j, pc), spoiled' = spoiled PROVE BaseStep(j)
  BY <1>1, <1>2, <1>3, GoKeeps DEF Passes, TypeOK
<1>4. ASSUME NEW f \in Jobs, NEW c \in {"extract", "move"},
             job' = [job EXCEPT ![j].pc = c, ![j].file = f, ![j].step = 0],
             spoiled' = (spoiled \/ ~named[f])
      PROVE  BaseStep(j)
  <2>1. /\ Moves(j) /\ job'[j].pc = c /\ job'[j].file = f /\ job'[j].step = 0
        /\ job'[j].fault = job[j].fault /\ job'[j].got = job[j].got
    BY <1>1, <1>4, PickDoes DEF TypeOK
  <2>2. /\ format' = format /\ cache' = cache /\ received' = received /\ named' = named
        /\ members' = members /\ spoiled' \in BOOLEAN /\ (spoiled => spoiled')
    BY <1>1, <1>4 DEF cacheVars, TypeOK
  <2>3. TypeOK'
    BY <2>1, <2>2 DEF TypeOK, Moves, CacheOK
  <2>4. PlaceOK(j)'
    <3>1. job'[j].kind \in {"load", "force", "local"} /\ (named'[j] => received'[j] = Chunks)
      BY <1>1, <1>2, <2>1, <2>2 DEF PlaceOK, Moves
    <3> QED BY <1>2, <2>1, <3>1 DEF PlaceOK, At, Finishing, Abandoning, Cleaning
  <2>5. CleansOK(j)' /\ ~Abandoning(j)'
    BY <2>1 DEF CleansOK, At, Cleaning, Abandoning
  <2> QED BY <2>1, <2>2, <2>3, <2>4, <2>5 DEF BaseStep
<1>5. CASE ~Exists("download") \/ cache["download"] = {}
  BY <1>3, <1>5 DEF Pick, Fails
<1>6. CASE Exists("download") /\ cache["download"] # {}
  <2>1. PICK f \in Jobs :
          /\ job' = [job EXCEPT ![j].pc = IF IsArchive(f) THEN "extract" ELSE "move",
                                ![j].file = f, ![j].step = 0]
          /\ spoiled' = (spoiled \/ ~named[f])
    BY <1>6 DEF Pick
  <2>2. (IF IsArchive(f) THEN "extract" ELSE "move") \in {"extract", "move"}
    OBVIOUS
  <2> QED BY <1>4, <2>1, <2>2
<1> QED BY <1>5, <1>6

LEMMA MoveFileBase ==
    ASSUME BaseOK, NEW j \in Jobs, MoveFile(j)
    PROVE  BaseStep(j)
<1> USE DEF BaseOK
<1>1. /\ ~Finished(j) /\ ~At(j, "unlink") /\ ~At(j, "barrier") /\ job[j].pc = "move"
      /\ format' = format /\ received' = received /\ named' = named /\ members' = members
      /\ spoiled' = spoiled
  BY DEF MoveFile, At, Finished, Over
<1>2. ~job[j].fault /\ spoiled' \in BOOLEAN
      /\ members' \in [Members -> {"none", "partial", "whole"}]
  BY <1>1, NoFault DEF TypeOK
<1> DEFINE f == File(job[j].file)
<1>3. CASE Has("download", f) /\ Exists("asset")
  <2> DEFINE A == (IF named[job[j].file] THEN cache["asset"] \ SameName(cache["asset"])
                   ELSE cache["asset"]) \cup {f}
             D == cache["download"] \ {f}
  <2>1. Go(j, "finish") /\ cache' = [cache EXCEPT !["asset"] = A, !["download"] = D]
    BY <1>3 DEF MoveFile
  <2>2. /\ A \subseteq Files \cup MemberFiles /\ D \subseteq Files
    BY <1>3 DEF TypeOK, CacheOK, Exists, Has
  <2> HIDE DEF A
  <2>3. /\ DOMAIN cache' = Dirs /\ cache'["download"] = D
        /\ cache'["tmp"] = cache["tmp"] /\ cache'["asset"] = A
    BY <2>1 DEF TypeOK, CacheOK, Dirs
  <2>4. CacheOK'
    BY <2>2, <2>3 DEF TypeOK, CacheOK
  <2>5. GoesTo(j, "finish")
    BY <1>1, <2>1, GoDoes DEF TypeOK, Pcs
  <2>6. \A x \in Jobs : File(x) \in cache'["tmp"] \cup cache'["download"] =>
                          File(x) \in cache["tmp"] \cup cache["download"]
    BY <2>3
  <2> QED BY <1>1, <1>2, <2>4, <2>5, <2>6, GoBase DEF Passes
<1>4. CASE ~(Has("download", f) /\ Exists("asset"))
  <2>1. Go(j, "failed") /\ UNCHANGED <<format, cacheVars>>
    BY <1>1, <1>4 DEF MoveFile, cacheVars, Fails
  <2> QED BY <1>1, <1>2, <2>1, GoKeeps DEF Passes
<1> QED BY <1>3, <1>4

\* The member that a step of the extraction writes.
LEMMA NextMember ==
    ASSUME NEW s \in 0..4, s < 4
    PROVE  /\ s \div 2 + 1 \in Members
           /\ s % 2 = 0 => s + 1 = 2 * (s \div 2 + 1) - 1
           /\ s % 2 # 0 => s = 2 * (s \div 2 + 1) - 1
<1>1. s \in {0, 1, 2, 3}
  OBVIOUS
<1> QED BY <1>1 DEF Members

LEMMA FourSteps == 2 * Cardinality(Members) = 4
<1>1. 1 \in Int /\ 2 \in Int
  OBVIOUS
<1>2. Cardinality(1..2) = IF 1 > 2 THEN 0 ELSE 2 - 1 + 1
  BY ONLY <1>1, FS_Interval, Zenon
<1>3. Cardinality(1..2) = 2
  BY <1>2
<1> QED BY <1>3 DEF Members

LEMMA DropBase ==
    ASSUME BaseOK, NEW j \in Jobs, Drop(j)
    PROVE  BaseStep(j)
<1> USE DEF BaseOK
<1>1. /\ ~Finished(j) /\ ~At(j, "unlink") /\ ~At(j, "barrier") /\ Go(j, "finish")
      /\ format' = format /\ received' = received /\ named' = named /\ members' = members
      /\ spoiled' = spoiled
  BY DEF Drop, At, Finished, Over
<1> DEFINE D == IF cache["download"] = Absent THEN cache["download"]
                ELSE cache["download"] \ {File(job[j].file)}
<1>2. cache' = [cache EXCEPT !["download"] = D]
  BY DEF Drop
<1>3. (D = Absent \/ D \subseteq Files) /\ D \subseteq cache["download"]
  BY DEF TypeOK, CacheOK
<1> HIDE DEF D
<1>4. CacheOK' /\ cache'["tmp"] = cache["tmp"] /\ cache'["download"] = D
  BY <1>2, <1>3, CacheSet DEF TypeOK, Dirs
<1>5. GoesTo(j, "finish") /\ ~job[j].fault
  BY <1>1, GoDoes, NoFault DEF TypeOK, Pcs
<1>6. /\ members' \in [Members -> {"none", "partial", "whole"}] /\ spoiled' \in BOOLEAN
      /\ \A x \in Jobs : File(x) \in cache'["tmp"] \cup cache'["download"] =>
                           File(x) \in cache["tmp"] \cup cache["download"]
  BY <1>1, <1>3, <1>4 DEF TypeOK
<1> QED BY <1>1, <1>4, <1>5, <1>6, GoBase DEF Passes

LEMMA ExtractFailsBase ==
    ASSUME BaseOK, NEW j \in Jobs, ExtractFails(j)
    PROVE  BaseStep(j)
<1> USE DEF BaseOK
<1>1. /\ ~Finished(j) /\ format' = format /\ cache' = cache /\ received' = received
      /\ named' = named /\ members' = members
      /\ job' = [job EXCEPT ![j].pc = "failed", ![j].fault = TRUE]
  BY DEF ExtractFails, At, Finished, Over, cacheVars
<1>2. spoiled' \in BOOLEAN /\ (spoiled => spoiled')
  BY DEF ExtractFails, TypeOK
<1>3. Moves(j) /\ job'[j].pc = "failed"
  BY <1>1, BreakDoes DEF TypeOK
<1>4. TypeOK'
  BY <1>1, <1>2, <1>3 DEF TypeOK, Moves, CacheOK
<1>5. PlaceOK(j)'
  <2>1. named'[j] => received'[j] = Chunks
    BY <1>1 DEF PlacesOK, PlaceOK
  <2>2. job'[j].kind \in {"load", "force", "local"}
    BY <1>1, <1>3 DEF PlacesOK, PlaceOK, Moves
  <2> QED BY <1>3, <2>1, <2>2 DEF PlaceOK, At, Finishing, Abandoning, Cleaning
<1>6. CleansOK(j)' /\ ~Abandoning(j)'
  BY <1>3 DEF CleansOK, At, Cleaning, Abandoning
<1> QED BY <1>1, <1>2, <1>3, <1>4, <1>5, <1>6 DEF BaseStep

LEMMA ExtractBase ==
    ASSUME BaseOK, NEW j \in Jobs, Extract(j)
    PROVE  BaseStep(j)
<1> USE DEF BaseOK
<1> DEFINE k == job[j].step \div 2 + 1
<1>1. /\ ~Finished(j) /\ ~At(j, "unlink") /\ ~At(j, "barrier") /\ At(j, "extract")
      /\ job[j].pc = "extract" /\ job[j].step < 4
      /\ format' = format /\ received' = received /\ named' = named /\ spoiled' = spoiled
  BY FourSteps DEF Extract, At, Finished, Over
<1>2. /\ ~job[j].fault /\ spoiled' \in BOOLEAN /\ job[j].kind \in {"load", "force", "local"}
      /\ \A r \in Ranks : job[j].got[r] = "none"
      /\ job[j].file \in Jobs /\ job[j] \in JobRecords
  <2>1. PlaceOK(j) /\ job[j] \in JobRecords
    BY DEF PlacesOK, TypeOK, JobsOK
  <2> QED BY <1>1, <2>1, NoFault DEF PlaceOK, TypeOK
<1>3. k \in Members
  <2>1. job[j].step \in 0..4
    BY <1>2 DEF JobRecords
  <2> QED BY <1>1, <2>1, NextMember
<1>4. CASE format = "tgz" \/ k > received[job[j].file]
  <2>1. (Go(j, "failed") \/ (format = "tar" /\ Go(j, "drop"))) /\ cache' = cache
        /\ members' = members
    BY <1>4 DEF Extract, Fails
  <2>2. CASE Go(j, "failed")
    BY <1>1, <1>2, <2>1, <2>2, GoKeeps DEF Passes, cacheVars
  <2>3. CASE Go(j, "drop")
    <3>1. GoesTo(j, "drop")
      BY <1>1, <2>3, GoDoes DEF TypeOK, Pcs
    <3>2. TypeOK'
      BY <1>1, <1>2, <2>1, <3>1 DEF TypeOK, GoesTo, Moves, CacheOK
    <3>3. PlaceOK(j)'
      <4>1. named'[j] => received'[j] = Chunks
        BY <1>1 DEF PlacesOK, PlaceOK
      <4>2. /\ job'[j].pc = "drop" /\ job'[j].kind \in {"load", "force", "local"}
            /\ job'[j].file \in Jobs
            /\ ~job'[j].fault /\ \A r \in Ranks : job'[j].got[r] = "none"
        BY <1>2, <3>1 DEF GoesTo, Moves
      <4> QED BY <4>1, <4>2 DEF PlaceOK, At, Finishing, Abandoning, Cleaning
    <3>4. CleansOK(j)' /\ ~Abandoning(j)'
      BY <3>1 DEF CleansOK, At, Cleaning, Abandoning, GoesTo
    <3> QED BY <1>1, <2>1, <3>1, <3>2, <3>3, <3>4 DEF BaseStep, GoesTo
  <2> QED BY <2>1, <2>2, <2>3
<1>5. CASE ~(format = "tgz" \/ k > received[job[j].file])
  <2> DEFINE m == IF job[j].step % 2 = 0 THEN "partial" ELSE "whole"
             A == (IF cache["asset"] = Absent THEN {} ELSE cache["asset"]) \cup {Member(k)}
  <2>1. /\ job' = [job EXCEPT ![j].step = @ + 1] /\ members' = [members EXCEPT ![k] = m]
        /\ cache' = [cache EXCEPT !["asset"] = A]
    BY <1>5 DEF Extract
  <2>2. A \subseteq Files \cup MemberFiles
    BY <1>3 DEF TypeOK, CacheOK, MemberFiles
  <2>3. members' \in [Members -> {"none", "partial", "whole"}]
    BY <1>3, <2>1 DEF TypeOK
  <2> HIDE DEF A, m, k
  <2>4. CacheOK' /\ cache'["tmp"] = cache["tmp"] /\ cache'["download"] = cache["download"]
    BY <2>1, <2>2, CacheSet DEF TypeOK, Dirs
  <2>5. /\ Moves(j) /\ job'[j].pc = "extract" /\ job'[j].file = job[j].file
        /\ job'[j].fault = job[j].fault /\ job'[j].got = job[j].got
    BY <1>1, <2>1, StepDoes DEF TypeOK
  <2>6. TypeOK'
    BY <1>1, <1>2, <2>3, <2>4, <2>5 DEF TypeOK, Moves
  <2>7. PlaceOK(j)'
    <3>1. named'[j] => received'[j] = Chunks
      BY <1>1 DEF PlacesOK, PlaceOK
    <3> QED BY <1>2, <2>5, <3>1 DEF PlaceOK, At, Finishing, Abandoning, Cleaning, Moves
  <2>8. CleansOK(j)' /\ ~Abandoning(j)'
    BY <2>5 DEF CleansOK, At, Cleaning, Abandoning
  <2> QED BY <1>1, <2>4, <2>5, <2>6, <2>7, <2>8 DEF BaseStep
<1> QED BY <1>4, <1>5

\* The end of a call.
LEMMA FinishBase ==
    ASSUME BaseOK, NEW j \in Jobs, Finish(j)
    PROVE  BaseStep(j)
<1> USE DEF BaseOK
<1>1. /\ ~Finished(j) /\ ~At(j, "unlink") /\ job[j].pc = "finish"
      /\ format' = format /\ cache' = cache /\ received' = received /\ named' = named
      /\ members' = members /\ spoiled' = spoiled /\ Removal(j, "download", "finish")
  BY DEF Finish, At, Finished, Over, cacheVars
<1>2. ~job[j].fault /\ PlaceOK(j) /\ \A r \in Ranks : job[j].got[r] = "none"
  BY <1>1, NoFault DEF PlacesOK, PlaceOK
<1>3. /\ Moves(j) /\ job'[j].why = "finish" /\ job'[j].dir = "download"
      /\ job'[j].fault = job[j].fault /\ job'[j].got = job[j].got
      /\ job'[j].pc \in {"failed", "unlink"}
  BY <1>1, RemovalDoes DEF TypeOK, Dirs
<1>4. TypeOK'
  BY <1>1, <1>3 DEF TypeOK, Moves, CacheOK
<1>5. PlaceOK(j)'
  <2>1. job'[j].kind \in {"load", "force", "local"} /\ (named'[j] => received'[j] = Chunks)
    BY <1>1, <1>2, <1>3 DEF PlaceOK, Moves
  <2>2. /\ ~At(j, "cleaned")' /\ ~At(j, "clean")' /\ ~Cleaning(j)' /\ ~Abandoning(j)'
        /\ ~At(j, "barrier")' /\ ~At(j, "new")' /\ ~At(j, "publish")'
        /\ job'[j].pc \notin {"extract", "move", "drop"}
    BY <1>3 DEF At, Cleaning, Abandoning
  <2> QED BY <1>2, <1>3, <2>1, <2>2 DEF PlaceOK, Dirs
<1>6. CleansOK(j)' /\ ~Abandoning(j)'
  BY <1>3 DEF CleansOK, Cleaning, Abandoning
<1> QED BY <1>1, <1>3, <1>4, <1>5, <1>6 DEF BaseStep

LEMMA FindBase ==
    ASSUME BaseOK, NEW j \in Jobs, Find(j) \/ \E r \in Ranks : RankFinds(j, r)
    PROVE  BaseStep(j)
<1> USE DEF BaseOK
<1>1. /\ ~Finished(j) /\ ~At(j, "unlink") /\ job[j].pc \in {"retrieve", "barrier"}
      /\ UNCHANGED <<format, cacheVars>> /\ spoiled' = spoiled
  BY DEF Find, RankFinds, At, Finished, Over, cacheVars
<1>2. ~job[j].fault /\ PlaceOK(j) /\ spoiled' \in BOOLEAN
  BY <1>1, NoFault DEF PlacesOK, TypeOK
<1>3. /\ format' = format /\ cache' = cache /\ received' = received /\ named' = named
      /\ members' = members
  BY <1>1 DEF cacheVars
<1>4. ASSUME Go(j, "failed") PROVE BaseStep(j)
  BY <1>1, <1>2, <1>4, GoKeeps DEF Passes
<1>5. ASSUME Moves(j), job'[j].fault = job[j].fault, job'[j].pc \in {"barrier", "done"},
             job'[j].pc = "barrier" => job[j].kind = "load"
      PROVE  BaseStep(j)
  <2>1. TypeOK'
    BY <1>2, <1>3, <1>5 DEF TypeOK, Moves, CacheOK
  <2>2. PlaceOK(j)'
    <3>1. job'[j].kind \in {"load", "force", "local"} /\ (named'[j] => received'[j] = Chunks)
      BY <1>1, <1>2, <1>3, <1>5 DEF PlaceOK, Moves
    <3>2. job'[j].kind = job[j].kind
      BY <1>5 DEF Moves
    <3> QED BY <1>2, <1>5, <3>1, <3>2 DEF PlaceOK, At, Finishing, Abandoning, Cleaning
  <2>3. CleansOK(j)' /\ ~Abandoning(j)'
    BY <1>5 DEF CleansOK, At, Cleaning, Abandoning
  <2> QED BY <1>1, <1>3, <1>5, <2>1, <2>2, <2>3 DEF BaseStep
<1>6. ASSUME NEW r \in Ranks, NEW then \in {"done", "barrier"}, Look(j, r, then),
             then = "barrier" => job[j].kind = "load"
      PROVE  BaseStep(j)
  <2>1. Moves(j) /\ job'[j].pc = then /\ job'[j].fault = job[j].fault
    BY <1>1, <1>6, LookDoes DEF TypeOK
  <2> QED BY <1>5, <1>6, <2>1
<1>7. CASE Find(j)
  <2>1. CASE Go(j, "barrier") /\ job[j].kind = "load"
    <3>1. GoesTo(j, "barrier")
      BY <1>1, <2>1, GoDoes DEF TypeOK, Pcs
    <3> QED BY <1>5, <2>1, <3>1 DEF GoesTo
  <2> QED BY <1>4, <1>6, <1>7, <2>1 DEF Find, Fails
<1>8. CASE \E r \in Ranks : RankFinds(j, r)
  <2>1. PICK r \in Ranks : RankFinds(j, r)
    BY <1>8
  <2>2. job[j].kind = "load"
    BY <1>2, <2>1 DEF PlaceOK, RankFinds
  <2> DEFINE then == IF \A q \in Ranks \ {r} : job[j].got[q] # "none" THEN "done" ELSE "barrier"
  <2>3. Go(j, "failed") \/ Look(j, r, then)
    BY <2>1 DEF RankFinds, Fails
  <2>4. then \in {"done", "barrier"}
    OBVIOUS
  <2> HIDE DEF then
  <2> QED BY <1>4, <1>6, <2>2, <2>3, <2>4
<1> QED BY <1>7, <1>8

\* The start of a job.
LEMMA StartDoes ==
    ASSUME TypeOK, NEW j \in Jobs, StartJob(j)
    PROVE  /\ Starts(j) /\ UNCHANGED <<format, cacheVars>>
           /\ \A i \in Jobs : i < j => Started(i)
           /\ \/ /\ job'[j].kind = "card" /\ job'[j].pc \in {"failed", "done"}
                 /\ spoiled' = spoiled
              \/ /\ \/ job'[j].kind = "load" /\ job'[j].pc = "check_asset"
                    \/ job'[j].kind = "force" /\ job'[j].pc = "clean"
                    \/ job'[j].kind = "local" /\ job'[j].pc = "retrieve"
                 /\ spoiled' = (spoiled \/ Forcing(job'[j].kind))
<1>1. /\ At(j, "new") /\ UNCHANGED <<format, cacheVars>>
      /\ \A i \in Jobs : i < j => Started(i)
  BY DEF StartJob, Started
<1>2. JobsOK
  BY DEF TypeOK
<1>3. \/ \E pc \in {"failed", "done"} : Begin(j, "card", pc) /\ spoiled' = spoiled
      \/ \E kind \in {"load", "force", "local"} :
            Begin(j, kind, FirstStep(kind)) /\ spoiled' = (spoiled \/ Forcing(kind))
  BY DEF StartJob
<1>4. CASE \E pc \in {"failed", "done"} : Begin(j, "card", pc) /\ spoiled' = spoiled
  <2>1. PICK pc \in {"failed", "done"} : Begin(j, "card", pc) /\ spoiled' = spoiled
    BY <1>4
  <2>2. pc \in Pcs \ {"new"}
    BY DEF Pcs, Over
  <2> QED BY <1>1, <1>2, <2>1, <2>2, BeginDoes
<1>5. CASE \E kind \in {"load", "force", "local"} :
             Begin(j, kind, FirstStep(kind)) /\ spoiled' = (spoiled \/ Forcing(kind))
  <2>1. PICK kind \in {"load", "force", "local"} :
             Begin(j, kind, FirstStep(kind)) /\ spoiled' = (spoiled \/ Forcing(kind))
    BY <1>5
  <2>2. FirstStep(kind) \in Pcs \ {"new"}
    BY DEF FirstStep, Pcs
  <2>3. Starts(j) /\ job'[j].pc = FirstStep(kind) /\ job'[j].kind = kind
    BY <1>1, <1>2, <2>1, <2>2, BeginDoes
  <2> QED BY <1>1, <2>1, <2>3 DEF FirstStep
<1> QED BY <1>3, <1>4, <1>5

LEMMA StartBase ==
    ASSUME BaseOK, NEW j \in Jobs, StartJob(j)
    PROVE  BaseOK'
<1> USE DEF BaseOK
<1>1. /\ Starts(j) /\ \A i \in Jobs : i < j => Started(i)
      /\ format' = format /\ cache' = cache /\ received' = received /\ named' = named
      /\ members' = members
  BY StartDoes DEF cacheVars
<1>2. \/ job'[j].kind = "card" /\ job'[j].pc \in {"failed", "done"}
      \/ job'[j].kind = "load" /\ job'[j].pc = "check_asset"
      \/ job'[j].kind = "force" /\ job'[j].pc = "clean"
      \/ job'[j].kind = "local" /\ job'[j].pc = "retrieve"
  BY StartDoes
<1>3. /\ spoiled => spoiled'
      /\ ~Finished(j)' => spoiled' = (spoiled \/ Forcing(job'[j].kind))
      /\ spoiled' \in BOOLEAN
  <2>1. Finished(j)' <=> job'[j].kind = "card"
    BY <1>2 DEF Finished, Over
  <2> QED BY <2>1, StartDoes DEF TypeOK
<1>4. /\ At(j, "new") /\ ~Started(j) /\ job'[j].why = "none" /\ ~job'[j].fault
      /\ \A r \in Ranks : job'[j].got[r] = "none"
  <2>1. At(j, "new") /\ job[j].pc = "new" /\ job'[j].why = job[j].why
        /\ job'[j].fault = job[j].fault /\ job'[j].got = job[j].got
    BY <1>1 DEF Starts, At
  <2>2. PlaceOK(j)
    BY DEF PlacesOK
  <2> QED BY <2>1, <2>2 DEF PlaceOK, Started, Abandoning, At
<1>5. ASSUME NEW i \in Jobs, i # j
      PROVE  /\ job'[i].pc = job[i].pc /\ job'[i].kind = job[i].kind
             /\ job'[i].file = job[i].file /\ job'[i].step = job[i].step
             /\ job'[i].todo = job[i].todo /\ job'[i].dir = job[i].dir
             /\ job'[i].why = job[i].why /\ job'[i].fault = job[i].fault
             /\ job'[i].got = job[i].got /\ (job'[i].alone => job[i].alone)
             /\ Finished(i)' = Finished(i) /\ Started(i)' = Started(i)
             /\ Cleaning(i)' = Cleaning(i) /\ Abandoning(i)' = Abandoning(i)
             /\ Finishing(i)' = Finishing(i) /\ \A c : At(i, c)' = At(i, c)
  BY <1>1, <1>5 DEF Starts, Finished, Started, Cleaning, Abandoning, Finishing, At
<1>6. ~Cleaning(j)' /\ ~Abandoning(j)' /\ ~Finishing(j)' /\ Started(j)'
  BY <1>2 DEF Cleaning, Abandoning, Finishing, Started, At
<1>7. TypeOK'
  BY <1>1, <1>3 DEF TypeOK, Starts, CacheOK
<1>8. PlacesOK'
  <2>1. ASSUME NEW i \in Jobs, i # j PROVE PlaceOK(i)'
    <3>1. PlaceOK(i)
      BY DEF PlacesOK
    <3>2. named'[i] = named[i] /\ received'[i] = received[i]
      BY <1>1
    <3> QED BY <1>5, <2>1, <3>1, <3>2 DEF PlaceOK
  <2>2. PlaceOK(j)'
    <3>1. named'[j] => received'[j] = Chunks
      BY <1>1 DEF PlacesOK, PlaceOK
    <3>2. ~Finished(j)' => job'[j].kind \in {"load", "force", "local"}
      BY <1>2 DEF Finished, Over
    <3>3. /\ ~At(j, "unlink")' /\ ~At(j, "cleaned")' /\ ~At(j, "barrier")' /\ ~At(j, "new")'
          /\ ~At(j, "publish")' /\ job'[j].pc \notin {"extract", "move", "drop"}
          /\ (At(j, "clean")' => job'[j].kind = "force")
      BY <1>2 DEF At
    <3> QED BY <1>4, <1>6, <3>1, <3>2, <3>3 DEF PlaceOK
  <2> QED BY <2>1, <2>2 DEF PlacesOK
<1>9. OrderOK'
  <2>1. ASSUME NEW i \in Jobs, NEW x \in Jobs, Started(x)', i < x PROVE Started(i)'
    <3>1. CASE x = j
      BY <1>1, <1>5, <1>6, <2>1, <3>1
    <3>2. CASE x # j
      BY <1>5, <1>6, <2>1, <3>2 DEF OrderOK
    <3> QED BY <3>1, <3>2
  <2>2. ASSUME NEW x \in Jobs, File(x) \in cache'["tmp"] \cup cache'["download"]
        PROVE  Started(x)'
    BY <1>1, <1>5, <1>6, <2>2 DEF OrderOK
  <2>3. ASSUME NEW x \in Jobs, NEW i \in Jobs, Abandoning(i)', File(x) \in job'[i].todo
        PROVE  Started(x)'
    BY <1>5, <1>6, <2>3 DEF OrderOK
  <2> QED BY <2>1, <2>2, <2>3 DEF OrderOK
<1>10. AloneOK'
  <2>1. ASSUME NEW i \in Jobs, job'[i].alone, Started(i)', job'[i].kind # "card"
        PROVE  /\ \A x \in Jobs : x < i => Finished(x)'
               /\ ~Finished(i)' => \A x \in Jobs \ {i} : Finished(x)'
    <3>1. CASE i = j
      <4>1. Active = {}
        BY <1>1, <1>2, <2>1, <3>1 DEF Starts, Finished, Over
      <4>2. \A x \in Jobs : Finished(x)
        BY <4>1 DEF Active, Finished
      <4>3. \A x \in Jobs \ {j} : Finished(x)'
        BY <1>5, <4>2
      <4> QED BY <3>1, <4>3
    <3>2. CASE i # j
      <4>1. /\ job[i].alone /\ Started(i) /\ job[i].kind # "card"
        BY <1>5, <2>1, <3>2
      <4>2. ~(j < i)
        BY <1>4, <4>1 DEF OrderOK
      <4>3. Finished(j)' \/ Finished(i)
        BY <1>1, <2>1, <3>2 DEF Starts
      <4> QED BY <1>5, <3>2, <4>1, <4>2, <4>3 DEF AloneOK
    <3> QED BY <3>1, <3>2
  <2> QED BY <2>1 DEF AloneOK
<1>11. ForceOK'
  <2>1. ASSUME NEW i \in Jobs, job'[i].kind = "force", ~Finished(i)', ~job'[i].alone
        PROVE  spoiled'
    <3>1. CASE i = j
      BY <1>1, <1>3, <2>1, <3>1 DEF Starts, Forcing
    <3>2. CASE i # j /\ ~job[i].alone
      BY <1>3, <1>5, <2>1, <3>2 DEF ForceOK
    <3>3. CASE i # j /\ job[i].alone
      <4>1. ~Finished(j)' /\ job[i].kind = "force" /\ ~Finished(i)
        BY <1>1, <1>5, <2>1, <3>3 DEF Starts
      <4>2. Forcing(job'[j].kind)
        BY <4>1 DEF Forcing, Active, Finished
      <4> QED BY <1>3, <4>1, <4>2
    <3> QED BY <3>1, <3>2, <3>3
  <2> QED BY <2>1 DEF ForceOK
<1>12. CleanOK'
  <2>1. ASSUME NEW i \in Jobs, i # j PROVE CleansOK(i)'
    <3>1. CleansOK(i)
      BY DEF CleanOK
    <3>2. \A d : Exists(d)' = Exists(d)
      BY <1>1 DEF Exists
    <3> QED BY <1>1, <1>5, <2>1, <3>1, <3>2 DEF CleansOK, Exists
  <2>2. CleansOK(j)'
    BY <1>6 DEF CleansOK
  <2> QED BY <2>1, <2>2 DEF CleanOK
<1> QED BY <1>7, <1>8, <1>9, <1>10, <1>11, <1>12

\* BaseOK is kept by whatever shows as much as BaseStep asks.
LEMMA StepBase ==
    ASSUME BaseOK, NEW j \in Jobs, JobStep(j) \/ Kill(j)
    PROVE  BaseStep(j)
BY CleanBase, GoesBase, UnlinkBase, RmdirBase, MakeTmpBase, OpenBase, ReceiveBase,
   ServerFailsBase, NameFileBase, PublishBase, MakeAssetBase, PickBase, MoveFileBase,
   ExtractBase, ExtractFailsBase, DropBase, FinishBase, FindBase DEF JobStep

\* A step of one job leaves the others where they are.
LEMMA OthersStay ==
    ASSUME NEW j \in Jobs, Moves(j), NEW i \in Jobs, i # j
    PROVE  /\ job'[i] = job[i] /\ Finished(i)' = Finished(i) /\ Started(i)' = Started(i)
           /\ Cleaning(i)' = Cleaning(i) /\ Abandoning(i)' = Abandoning(i)
           /\ Finishing(i)' = Finishing(i) /\ \A c : At(i, c)' = At(i, c)
BY DEF Moves, Finished, Started, Cleaning, Abandoning, Finishing, At

LEMMA StepKeepsBase ==
    ASSUME BaseOK, NEW j \in Jobs, BaseStep(j)
    PROVE  BaseOK'
<1> USE DEF BaseOK
<1>1. Moves(j) /\ TypeOK'
  BY DEF BaseStep
<1>2. /\ ~Finished(j) /\ Started(j) /\ Started(j)'
      /\ job'[j].kind = job[j].kind /\ job'[j].alone = job[j].alone
  BY <1>1 DEF Moves, Finished, Started, At, Over
<1>3. \A i \in Jobs : i # j =>
        /\ job'[i] = job[i] /\ Finished(i)' = Finished(i) /\ Started(i)' = Started(i)
        /\ Cleaning(i)' = Cleaning(i) /\ Abandoning(i)' = Abandoning(i)
  BY <1>1, OthersStay
<1>4. PlacesOK'
  <2>1. ASSUME NEW i \in Jobs, i # j PROVE PlaceOK(i)'
    <3>1. PlaceOK(i) /\ job'[i] = job[i] /\ named'[i] = named[i] /\ received'[i] = received[i]
      BY <1>3, <2>1 DEF PlacesOK, BaseStep
    <3> QED BY <3>1 DEF PlaceOK, Finished, Finishing, Abandoning, Cleaning, At
  <2> QED BY <2>1 DEF PlacesOK, BaseStep
<1>5. OrderOK'
  <2>1. \A i \in Jobs : Started(i)' <=> Started(i)
    BY <1>2, <1>3
  <2>2. ASSUME NEW x \in Jobs, File(x) \in cache'["tmp"] \cup cache'["download"]
        PROVE  Started(x)
    BY <1>2, <2>2 DEF BaseStep, OrderOK
  <2>3. ASSUME NEW x \in Jobs, NEW i \in Jobs, Abandoning(i)', File(x) \in job'[i].todo
        PROVE  Started(x)
    <3>1. CASE i # j
      BY <1>3, <2>3, <3>1 DEF OrderOK
    <3>2. CASE i = j
      BY <2>3, <3>2 DEF OrderOK, BaseStep
    <3> QED BY <3>1, <3>2
  <2> QED BY <2>1, <2>2, <2>3 DEF OrderOK
<1>6. AloneOK'
  BY <1>2, <1>3 DEF AloneOK
<1>7. ForceOK'
  <2>1. ASSUME NEW i \in Jobs, job'[i].kind = "force", ~Finished(i)', ~job'[i].alone
        PROVE  spoiled'
    <3>1. job[i].kind = "force" /\ ~Finished(i) /\ ~job[i].alone
      BY <1>2, <1>3, <2>1
    <3>2. spoiled
      BY <3>1 DEF ForceOK
    <3>3. CASE job[j].alone /\ job[j].kind = "force"
      <4>1. i # j
        BY <3>1, <3>3
      <4> QED BY <1>2, <3>1, <3>3, <4>1 DEF AloneOK
    <3> QED BY <3>2, <3>3 DEF BaseStep
  <2> QED BY <2>1 DEF ForceOK
<1>8. CleanOK'
  <2>1. ASSUME NEW i \in Jobs, i # j, Cleaning(i)', job'[i].alone PROVE FALSE
    <3>1. Cleaning(i) /\ job[i].alone /\ Started(i) /\ ~Finished(i)
      BY <1>3, <2>1 DEF Cleaning, Started, Finished, At, Over
    <3>2. job[i].kind # "card"
      BY <3>1 DEF PlacesOK, PlaceOK
    <3> QED BY <1>2, <2>1, <3>1, <3>2 DEF AloneOK
  <2>2. \A i \in Jobs : i # j => CleansOK(i)'
    BY <2>1 DEF CleansOK
  <2> QED BY <2>2 DEF CleanOK, BaseStep
<1> QED BY <1>1, <1>4, <1>5, <1>6, <1>7, <1>8

\* Nothing changes when the cards are looked at.
LEMMA StayBase ==
    ASSUME BaseOK, UNCHANGED <<format, cacheVars, job, spoiled>>
    PROVE  BaseOK'
<1>1. format' = format /\ cache' = cache /\ received' = received /\ named' = named
      /\ members' = members /\ job' = job /\ spoiled' = spoiled
  BY DEF cacheVars
<1> USE DEF BaseOK, Finished, Finishing, Started, Cleaning, Abandoning, At, Exists
<1>2. TypeOK'
  BY <1>1 DEF TypeOK, JobsOK, CacheOK
<1>3. PlacesOK'
  BY <1>1 DEF PlacesOK, PlaceOK
<1>4. OrderOK'
  BY <1>1 DEF OrderOK
<1>5. AloneOK'
  BY <1>1 DEF AloneOK
<1>6. ForceOK'
  BY <1>1 DEF ForceOK
<1>7. CleanOK'
  BY <1>1 DEF CleanOK, CleansOK
<1> QED BY <1>2, <1>3, <1>4, <1>5, <1>6, <1>7

-----------------------------------------------------------------------------
(* What each step keeps of the cache, while it is not spoiled, nor cleaned. *)

HeldOK == DataOK /\ \A j \in Jobs : JobOK(j)

\* A job is in the middle of a member.
Halfway(j) == At(j, "extract") /\ job[j].step \in {1, 3}

\* What the others rely on, when a job takes a step while they run.
Keeps ==
    /\ format' = format /\ \A f \in Jobs : named[f] => named'[f]
    /\ Complete => Complete'
    /\ Ready => Ready'
    /\ Received => Received' \/ Ready'
    /\ \A k \in Members : /\ Member(k) \in cache["asset"] => Member(k) \in cache'["asset"]
                          /\ Steady(k) => Steady(k)'

\* What each step of a job shows of SoundOK.
SoundStep(j) == DataOK' /\ JobOK(j)' /\ (~job[j].alone => Keeps)

LEMMA OthersSound ==
    ASSUME BaseOK, HeldOK, NEW j \in Jobs, Moves(j), ~job[j].alone => Keeps,
           NEW i \in Jobs, i # j
    PROVE  JobOK(i)'
<1> USE DEF BaseOK
<1>1. /\ job'[i] = job[i] /\ Finished(i)' = Finished(i) /\ Abandoning(i)' = Abandoning(i)
      /\ Finishing(i)' = Finishing(i) /\ \A c : At(i, c)' = At(i, c)
  BY OthersStay
<1>2. CASE Finished(i)
  <2>1. /\ job'[i].pc \notin {"extract", "move", "make_asset", "pick", "drop", "publish"}
        /\ ~Finishing(i)' /\ ~Abandoning(i)'
    BY <1>1, <1>2 DEF Finished, Over, Finishing, Abandoning, At
  <2> QED BY <2>1 DEF JobOK, ExtractsOK, At
<1>3. CASE ~Finished(i)
  <2>1. ~job[i].alone /\ ~job[j].alone
    <3>1. ~Finished(j) /\ Started(j) /\ Started(i)
      BY <1>3 DEF Moves, Finished, Started, At, Over
    <3>2. job[i].kind # "card" /\ job[j].kind # "card"
      BY <1>3, <3>1 DEF PlacesOK, PlaceOK
    <3> QED BY <1>3, <3>1, <3>2 DEF AloneOK
  <2>2. Keeps /\ JobOK(i)
    BY <2>1 DEF HeldOK
  <2>3. ExtractsOK(i)'
    <3>1. ExtractsOK(i)
      BY <2>2 DEF JobOK
    <3> QED BY <1>1, <2>1, <2>2, <3>1 DEF ExtractsOK, Keeps
  <2>4. job'[i].pc \in {"extract", "move"} => named'[job'[i].file]
    <3>1. job[i].pc \in {"extract", "move"} => job[i].file \in Jobs /\ named[job[i].file]
      BY <2>2 DEF JobOK, PlacesOK, PlaceOK
    <3> QED BY <1>1, <2>2, <3>1 DEF Keeps
  <2>5. \A x \in Jobs : ~Finished(x)' => ~Finished(x)
    BY OthersStay DEF Moves
  <2>6. Abandoning(i)' => \A x \in Jobs \ {i} : ~Finished(x)' => File(x) \notin job'[i].todo
    BY <1>1, <2>2, <2>5 DEF JobOK
  <2>7. /\ At(i, "move")' => format' = "plain"
        /\ ~At(i, "drop")'
        /\ job'[i].pc \in {"make_asset", "pick", "move", "extract"} => Ready'
        /\ At(i, "publish")' => Ready' \/ Received'
        /\ Finishing(i)' => Complete'
    BY <1>1, <2>2 DEF JobOK, Keeps
  <2> QED BY <2>3, <2>4, <2>6, <2>7 DEF JobOK
<1> QED BY <1>2, <1>3

\* Of these places JobOK asks nothing.
Idle == Over \cup {"check_asset", "check_download", "make_tmp", "open", "receive",
                   "check_extracted", "retrieve", "barrier", "clean"}

LEMMA IdleOK ==
    ASSUME NEW j \in Jobs, job'[j].pc \in Idle
    PROVE  JobOK(j)' /\ ~Abandoning(j)' /\ ~Finishing(j)'
<1>1. /\ job'[j].pc \notin {"extract", "move", "make_asset", "pick", "drop", "publish"}
      /\ ~Finishing(j)' /\ ~Abandoning(j)'
  BY DEF Idle, Over, Finishing, Abandoning, At
<1> QED BY <1>1 DEF JobOK, ExtractsOK, At

LEMMA SteadyStays ==
    ASSUME NEW j \in Jobs, Moves(j), ~Halfway(j), members' = members, NEW k \in Members,
           Steady(k)
    PROVE  Steady(k)'
<1>1. CASE members[k] = "whole"
  BY <1>1 DEF Steady
<1>2. CASE \E i \in Jobs : At(i, "extract") /\ job[i].step = 2 * k - 1
  <2>1. PICK i \in Jobs : At(i, "extract") /\ job[i].step = 2 * k - 1
    BY <1>2
  <2>2. job[i].step \in {1, 3}
    BY <2>1 DEF Members
  <2>3. i # j
    BY <2>1, <2>2 DEF Halfway
  <2>4. At(i, "extract")' /\ job'[i].step = 2 * k - 1
    BY <2>1, <2>3, OthersStay
  <2> QED BY <2>4 DEF Steady
<1> QED BY <1>1, <1>2 DEF Steady

LEMMA CompleteStays ==
    ASSUME format' = format, cache'["asset"] = cache["asset"],
           \A f \in Jobs : named[f] => named'[f], \A k \in Members : Steady(k) => Steady(k)'
    PROVE  (Moved => Moved') /\ (Complete => Complete')
<1>1. Moved => Moved'
  BY DEF Moved
<1>2. Extracted => Extracted'
  <2>1. MemberFiles' = MemberFiles
    BY DEF MemberFiles
  <2> QED BY <2>1 DEF Extracted
<1> QED BY <1>1, <1>2 DEF Complete

LEMMA ReceivedStays ==
    ASSUME NEW j \in Jobs, Moves(j), \A f \in Jobs : named[f] => named'[f],
           \A f \in Jobs : File(f) \in cache["tmp"] => File(f) \in cache'["tmp"],
           ~Abandoning(j)', Received
    PROVE  Received'
<1>1. PICK f \in Jobs :
        /\ named[f] /\ File(f) \in cache["tmp"]
        /\ \A i \in Jobs : Abandoning(i) => File(f) \notin job[i].todo
  BY DEF Received
<1>2. \A i \in Jobs : Abandoning(i)' => Abandoning(i) /\ job'[i] = job[i]
  BY OthersStay
<1> QED BY <1>1, <1>2 DEF Received

\* A step that leaves the cache as it is.
LEMMA UntouchedSound ==
    ASSUME BaseOK, HeldOK, NEW j \in Jobs, Moves(j), UNCHANGED <<format, cache, named, members>>,
           job[j].alone \/ (~Halfway(j) /\ ~Abandoning(j)')
    PROVE  /\ DataOK' /\ (~job[j].alone => Keeps)
           /\ ~Halfway(j) => (Complete => Complete') /\ (Ready => Ready')
<1>1. /\ format' = format /\ cache' = cache /\ named' = named /\ members' = members
  OBVIOUS
<1>2. ~Halfway(j) => \A k \in Members : Steady(k) => Steady(k)'
  BY <1>1, SteadyStays
<1>3. Moved => Moved'
  BY <1>1 DEF Moved
<1>4. Downloaded => Downloaded'
  BY <1>1 DEF Downloaded
<1>5. ~Halfway(j) => (Complete => Complete') /\ (Ready => Ready')
  BY <1>1, <1>2, <1>4, CompleteStays DEF Ready
<1>6. Halfway(j) /\ job[j].alone => Downloaded
  <2>1. JobOK(j) /\ ExtractsOK(j) /\ PlaceOK(j)
    BY DEF HeldOK, JobOK, BaseOK, PlacesOK
  <2>2. ASSUME At(j, "extract"), job[j].alone
        PROVE  /\ job[j].file \in Jobs /\ named[job[j].file]
               /\ File(job[j].file) \in cache["download"]
    <3>1. job[j].pc \in {"extract", "move"} /\ job[j].pc \in {"extract", "move", "drop"}
      BY <2>2 DEF At
    <3> QED BY <2>1, <2>2, <3>1 DEF JobOK, ExtractsOK, PlaceOK
  <2> QED BY <2>2 DEF Halfway, Downloaded
<1>7. DataOK'
  <2>1. Ready' \/ (~Exists("asset")' /\ ~Exists("download")')
    BY <1>1, <1>4, <1>5, <1>6 DEF HeldOK, DataOK, Ready, Exists
  <2> QED BY <1>1, <1>3, <2>1 DEF HeldOK, DataOK, MemberFiles
<1>8. ~job[j].alone => Keeps
  <2>1. ~job[j].alone => (Received => Received')
    BY <1>1, ReceivedStays
  <2> QED BY <1>1, <1>2, <1>5, <2>1 DEF Keeps
<1> QED BY <1>5, <1>7, <1>8

LEMMA PassesSound ==
    ASSUME BaseOK, HeldOK, NEW j \in Jobs, Moves(j), UNCHANGED <<format, cache, named, members>>,
           job'[j].pc \in Idle, job[j].alone \/ ~Halfway(j)
    PROVE  SoundStep(j)
BY UntouchedSound, IdleOK DEF SoundStep

\* What the steps assume: the cache is sound before and after.
LEMMA LooksSound ==
    ASSUME BaseOK, HeldOK, NEW j \in Jobs,
           CheckAsset(j) \/ CheckDownload(j) \/ Find(j) \/ \E r \in Ranks : RankFinds(j, r)
    PROVE  SoundStep(j)
<1> USE DEF BaseOK
<1>1. /\ ~Finished(j) /\ ~Halfway(j) /\ UNCHANGED <<format, cache, named, members>> /\ JobsOK
  BY DEF CheckAsset, CheckDownload, Find, RankFinds, At, Finished, Over, Halfway, cacheVars, TypeOK
<1>2. ASSUME NEW pc \in Idle \ {"new"}, Go(j, pc) PROVE SoundStep(j)
  <2>1. pc \in Pcs \ {"new"}
    BY DEF Idle, Pcs
  <2>2. Moves(j) /\ job'[j].pc = pc
    BY <1>1, <1>2, <2>1, GoDoes DEF GoesTo
  <2> QED BY <1>1, <2>2, PassesSound
<1>3. ASSUME NEW r \in Ranks, NEW then \in {"done", "barrier"}, Look(j, r, then)
      PROVE  SoundStep(j)
  <2>1. Moves(j) /\ job'[j].pc = then
    BY <1>1, <1>3, LookDoes
  <2> QED BY <1>1, <2>1, PassesSound DEF Idle, Over
<1>4. \/ Go(j, "check_extracted") \/ Go(j, "check_download") \/ Go(j, "make_tmp")
      \/ Go(j, "failed") \/ Go(j, "barrier")
      \/ \E r \in Ranks, then \in {"done", "barrier"} : Look(j, r, then)
  <2>1. CASE CheckAsset(j)
    BY <2>1 DEF CheckAsset
  <2>2. CASE CheckDownload(j)
    BY <2>2 DEF CheckDownload
  <2>3. CASE Find(j)
    BY <2>3 DEF Find, Fails
  <2>4. CASE \E r \in Ranks : RankFinds(j, r)
    <3>1. PICK r \in Ranks : RankFinds(j, r)
      BY <2>4
    <3> DEFINE then == IF \A q \in Ranks \ {r} : job[j].got[q] # "none" THEN "done" ELSE "barrier"
    <3>2. then \in {"done", "barrier"}
      OBVIOUS
    <3>3. Go(j, "failed") \/ Look(j, r, then)
      BY <3>1 DEF RankFinds, Fails
    <3> HIDE DEF then
    <3> QED BY <3>2, <3>3
  <2> QED BY <2>1, <2>2, <2>3, <2>4
<1>5. /\ "check_extracted" \in Idle \ {"new"} /\ "check_download" \in Idle \ {"new"}
      /\ "make_tmp" \in Idle \ {"new"} /\ "failed" \in Idle \ {"new"}
      /\ "barrier" \in Idle \ {"new"}
  BY DEF Idle, Over
<1> QED BY <1>2, <1>3, <1>4, <1>5

\* A job that ends in the middle of a member was alone, or the cache is spoiled.
LEMMA EndsSound ==
    ASSUME BaseOK, HeldOK, NEW j \in Jobs, Kill(j) \/ ExtractFails(j), ~spoiled'
    PROVE  SoundStep(j)
<1> USE DEF BaseOK
<1>1. /\ ~Finished(j) /\ job[j].alone /\ UNCHANGED <<format, cache, named, members>> /\ JobsOK
  <2>1. CASE Kill(j)
    BY <2>1 DEF Kill, Active, Finished, cacheVars, TypeOK
  <2>2. CASE ExtractFails(j)
    BY <2>2 DEF ExtractFails, At, Finished, Over, cacheVars, TypeOK
  <2> QED BY <2>1, <2>2
<1>2. Moves(j) /\ job'[j].pc \in {"killed", "failed"}
  <2>1. CASE Kill(j)
    <3>1. "killed" \in Pcs \ {"new"} /\ Go(j, "killed")
      BY <2>1 DEF Kill, Pcs, Over
    <3> QED BY <1>1, <3>1, GoDoes DEF GoesTo
  <2>2. CASE ExtractFails(j)
    BY <1>1, <2>2, BreakDoes DEF ExtractFails
  <2> QED BY <2>1, <2>2
<1> QED BY <1>1, <1>2, PassesSound DEF Idle, Over

LEMMA AbandonSound ==
    ASSUME BaseOK, HeldOK, NEW j \in Jobs, job[j].pc \in {"open", "receive", "publish"},
           NEW fault \in BOOLEAN, Abandon(j, fault), UNCHANGED <<format, cacheVars>>, ~spoiled'
    PROVE  SoundStep(j)
<1> USE DEF BaseOK
<1>1. ~Finished(j) /\ job[j].kind # "card" /\ Started(j)
  <2>1. ~Finished(j) /\ Started(j)
    BY DEF Finished, Over, Started, At
  <2> QED BY <2>1 DEF PlacesOK, PlaceOK
<1>2. /\ Moves(j) /\ job'[j].why = "abandon" /\ job[j].alone
      /\ job'[j].pc \in {"failed", "unlink"}
  BY <1>1, AbandonDoes DEF TypeOK
<1>3. DataOK'
  BY <1>2, UntouchedSound DEF cacheVars
<1>4. \A x \in Jobs \ {j} : Finished(x)'
  BY <1>1, <1>2, OthersStay DEF AloneOK
<1>5. JobOK(j)'
  <2>1. /\ job'[j].pc \notin {"extract", "move", "make_asset", "pick", "drop", "publish"}
        /\ ~Finishing(j)'
    BY <1>2 DEF Finishing, At
  <2> QED BY <1>4, <2>1 DEF JobOK, ExtractsOK, At
<1> QED BY <1>2, <1>3, <1>5 DEF SoundStep

\* The download directory is not touched, nor the asset directory.
LEMMA TmpSound ==
    ASSUME BaseOK, HeldOK, NEW j \in Jobs, Moves(j), ~Halfway(j), format' = format,
           members' = members, \A f \in Jobs : named[f] => named'[f],
           cache'["asset"] = cache["asset"], cache'["download"] = cache["download"],
           Received => Received' \/ Ready', JobOK(j)'
    PROVE  SoundStep(j)
<1>1. \A k \in Members : Steady(k) => Steady(k)'
  BY SteadyStays
<1>2. (Moved => Moved') /\ (Complete => Complete')
  BY <1>1, CompleteStays
<1>3. Downloaded => Downloaded'
  BY DEF Downloaded
<1>4. Ready => Ready'
  BY <1>2, <1>3 DEF Ready
<1>5. Ready' \/ (~Exists("asset")' /\ ~Exists("download")')
  BY <1>4 DEF HeldOK, DataOK, Exists
<1>6. DataOK'
  BY <1>2, <1>5 DEF HeldOK, DataOK, MemberFiles
<1>7. Keeps
  BY <1>1, <1>2, <1>4 DEF Keeps
<1> QED BY <1>6, <1>7 DEF SoundStep

LEMMA ReceivesSound ==
    ASSUME BaseOK, HeldOK, NEW j \in Jobs,
           MakeTmp(j) \/ Open(j) \/ Receive(j) \/ ServerFails(j), ~spoiled'
    PROVE  SoundStep(j)
<1> USE DEF BaseOK
<1>1. ~Finished(j) /\ ~Halfway(j) /\ JobsOK /\ format' = format /\ named' = named
      /\ members' = members
  BY DEF MakeTmp, Open, Receive, ServerFails, At, Finished, Over, Halfway, TypeOK, cacheVars
<1>2. DOMAIN cache = Dirs
  BY DEF TypeOK, CacheOK
<1>3. CASE MakeTmp(j)
  <2>1. GoesTo(j, "open")
    BY <1>1, <1>3, GoDoes DEF MakeTmp, Pcs
  <2>2. /\ cache'["asset"] = cache["asset"] /\ cache'["download"] = cache["download"]
        /\ \A f \in Jobs : File(f) \in cache["tmp"] => File(f) \in cache'["tmp"]
    BY <1>2, <1>3, EntriesDiffer DEF MakeTmp, Dirs
  <2>3. Moves(j) /\ JobOK(j)' /\ ~Abandoning(j)'
    BY <2>1, IdleOK DEF GoesTo, Idle
  <2> QED BY <1>1, <2>2, <2>3, TmpSound, ReceivedStays
<1>4. CASE Open(j)
  <2>1. CASE Exists("tmp")
    <3>1. GoesTo(j, "receive")
      BY <1>1, <1>4, <2>1, GoDoes DEF Open, Pcs
    <3>2. /\ cache'["asset"] = cache["asset"] /\ cache'["download"] = cache["download"]
          /\ \A f \in Jobs : File(f) \in cache["tmp"] => File(f) \in cache'["tmp"]
      BY <1>2, <1>4, <2>1 DEF Open, Dirs
    <3>3. Moves(j) /\ JobOK(j)' /\ ~Abandoning(j)'
      BY <3>1, IdleOK DEF GoesTo, Idle
    <3> QED BY <1>1, <3>2, <3>3, TmpSound, ReceivedStays
  <2>2. CASE ~Exists("tmp")
    <3>1. Abandon(j, FALSE) /\ UNCHANGED <<format, cacheVars>> /\ job[j].pc = "open"
      BY <1>4, <2>2 DEF Open, cacheVars, At
    <3> QED BY <3>1, AbandonSound
  <2> QED BY <2>1, <2>2
<1>5. CASE Receive(j)
  <2>1. job' = job /\ cache' = cache /\ job[j].pc = "receive"
    BY <1>5 DEF Receive, At
  <2>2. Moves(j)
    BY <1>1, <2>1 DEF Moves, JobsOK, Started, At
  <2>3. job'[j].pc \in Idle
    BY <2>1 DEF Idle
  <2> QED BY <1>1, <2>1, <2>2, <2>3, PassesSound
<1>6. CASE ServerFails(j)
  <2>1. Abandon(j, TRUE) /\ UNCHANGED <<format, cacheVars>> /\ job[j].pc \in {"open", "receive", "publish"}
    BY <1>6 DEF ServerFails, cacheVars, At
  <2> QED BY <2>1, AbandonSound
<1> QED BY <1>3, <1>4, <1>5, <1>6

LEMMA NameFileSound ==
    ASSUME BaseOK, HeldOK, NEW j \in Jobs, NameFile(j), ~spoiled'
    PROVE  SoundStep(j)
<1> USE DEF BaseOK
<1>1. /\ ~Finished(j) /\ ~Halfway(j) /\ JobsOK /\ format' = format /\ members' = members
      /\ job[j].pc = "receive" /\ DOMAIN cache = Dirs /\ named \in [Jobs -> BOOLEAN]
  BY DEF NameFile, At, Finished, Over, Halfway, TypeOK, CacheOK
<1>2. CASE Has("tmp", File(j))
  <2>1. GoesTo(j, "publish")
    BY <1>1, <1>2, GoDoes DEF NameFile, Pcs
  <2>2. /\ cache'["asset"] = cache["asset"] /\ cache'["download"] = cache["download"]
        /\ File(j) \in cache'["tmp"] /\ named'[j] /\ \A f \in Jobs : named[f] => named'[f]
    BY <1>1, <1>2 DEF NameFile, Dirs
  <2>3. Received'
    <3>1. ASSUME NEW i \in Jobs, Abandoning(i)' PROVE File(j) \notin job'[i].todo
      <4>1. i # j
        BY <2>1, <3>1 DEF GoesTo, Abandoning, At
      <4>2. Abandoning(i) /\ job'[i] = job[i]
        BY <2>1, <3>1, <4>1, OthersStay DEF GoesTo
      <4> QED BY <1>1, <4>1, <4>2 DEF HeldOK, JobOK
    <3> QED BY <2>2, <3>1 DEF Received
  <2>4. JobOK(j)'
    <3>1. job'[j].pc = "publish"
      BY <2>1 DEF GoesTo
    <3> QED BY <2>3, <3>1 DEF JobOK, ExtractsOK, At, Finishing, Abandoning
  <2> QED BY <1>1, <2>1, <2>2, <2>3, <2>4, TmpSound DEF GoesTo
<1>3. CASE ~Has("tmp", File(j))
  <2>1. Abandon(j, FALSE) /\ UNCHANGED <<format, cacheVars>>
    BY <1>1, <1>3 DEF NameFile, cacheVars
  <2> QED BY <1>1, <2>1, AbandonSound
<1> QED BY <1>2, <1>3

LEMMA PublishSound ==
    ASSUME BaseOK, HeldOK, NEW j \in Jobs, Publish(j), ~spoiled'
    PROVE  SoundStep(j)
<1> USE DEF BaseOK
<1>1. /\ ~Finished(j) /\ ~Halfway(j) /\ JobsOK /\ format' = format /\ members' = members
      /\ named' = named /\ job[j].pc = "publish" /\ DOMAIN cache = Dirs
  BY DEF Publish, At, Finished, Over, Halfway, TypeOK, CacheOK
<1>2. CASE Exists("tmp") /\ cache["download"] \in {Absent, {}}
  <2>1. GoesTo(j, "check_extracted")
    BY <1>1, <1>2, GoDoes DEF Publish, Pcs
  <2>2. Moves(j) /\ JobOK(j)'
    BY <2>1, IdleOK DEF GoesTo, Idle
  <2>3. /\ cache'["asset"] = cache["asset"] /\ cache'["download"] = cache["tmp"]
    BY <1>1, <1>2 DEF Publish, Dirs
  <2>4. \A k \in Members : Steady(k) => Steady(k)'
    BY <1>1, <2>2, SteadyStays
  <2>5. (Moved => Moved') /\ (Complete => Complete')
    BY <1>1, <2>3, <2>4, CompleteStays
  <2>6. ~Downloaded
    BY <1>2, EntriesDiffer DEF Downloaded
  <2>7. Ready => Ready'
    BY <2>5, <2>6 DEF Ready
  <2>8. Received => Ready'
    BY <1>1, <2>3 DEF Received, Ready, Downloaded
  <2>9. Ready'
    BY <1>1, <2>7, <2>8 DEF HeldOK, JobOK, At
  <2>10. DataOK'
    BY <1>1, <2>3, <2>5, <2>9 DEF HeldOK, DataOK, MemberFiles
  <2>11. Keeps
    BY <1>1, <2>3, <2>4, <2>5, <2>7, <2>8 DEF Keeps
  <2> QED BY <2>2, <2>10, <2>11 DEF SoundStep
<1>3. CASE ~(Exists("tmp") /\ cache["download"] \in {Absent, {}})
  <2>1. Abandon(j, FALSE) /\ UNCHANGED <<format, cacheVars>>
    BY <1>1, <1>3 DEF Publish, cacheVars
  <2> QED BY <1>1, <2>1, AbandonSound
<1> QED BY <1>2, <1>3

LEMMA CheckExtractedSound ==
    ASSUME BaseOK, HeldOK, NEW j \in Jobs, CheckExtracted(j)
    PROVE  SoundStep(j)
<1> USE DEF BaseOK
<1>1. /\ ~Finished(j) /\ ~Halfway(j) /\ JobsOK /\ UNCHANGED <<format, cache, named, members>>
  BY DEF CheckExtracted, At, Finished, Over, Halfway, TypeOK, cacheVars
<1>2. CASE Exists("download")
  <2>1. GoesTo(j, "make_asset")
    BY <1>1, <1>2, GoDoes DEF CheckExtracted, Pcs
  <2>2. /\ Moves(j) /\ job'[j].pc = "make_asset" /\ ~Abandoning(j)'
    BY <2>1 DEF GoesTo, Abandoning, At
  <2>3. /\ DataOK' /\ (~job[j].alone => Keeps) /\ (Ready => Ready')
    BY <1>1, <2>2, UntouchedSound
  <2>4. Ready'
    BY <1>2, <2>3 DEF HeldOK, DataOK
  <2>5. JobOK(j)'
    BY <2>2, <2>4 DEF JobOK, ExtractsOK, At, Finishing
  <2> QED BY <2>3, <2>5 DEF SoundStep
<1>3. CASE ~Exists("download")
  <2>1. GoesTo(j, "retrieve")
    BY <1>1, <1>3, GoDoes DEF CheckExtracted, Pcs
  <2>2. Moves(j) /\ job'[j].pc \in Idle
    BY <2>1 DEF GoesTo, Idle
  <2> QED BY <1>1, <2>2, PassesSound
<1> QED BY <1>2, <1>3

\* Nothing is complete without an asset directory.
LEMMA CompleteExists ==
    ASSUME format \in Formats, Complete
    PROVE  Exists("asset")
<1>1. format \in {"plain", "zip", "tar"}
  BY DEF Complete
<1>2. CASE Moved
  BY <1>2, EntriesDiffer DEF Moved, Exists
<1>3. CASE Extracted
  BY <1>3, EntriesDiffer DEF Extracted, Exists
<1> QED BY <1>1, <1>2, <1>3 DEF Complete

LEMMA MakeAssetSound ==
    ASSUME BaseOK, HeldOK, NEW j \in Jobs, MakeAsset(j)
    PROVE  SoundStep(j)
<1> USE DEF BaseOK
<1>1. /\ ~Finished(j) /\ ~Halfway(j) /\ JobsOK /\ format' = format /\ members' = members
      /\ named' = named /\ job[j].pc = "make_asset" /\ DOMAIN cache = Dirs
      /\ format \in Formats
  BY DEF MakeAsset, At, Finished, Over, Halfway, TypeOK, CacheOK
<1>2. GoesTo(j, "pick")
  BY <1>1, GoDoes DEF MakeAsset, Pcs
<1>3. Moves(j) /\ job'[j].pc = "pick" /\ ~Abandoning(j)'
  BY <1>2 DEF GoesTo, Abandoning, At
<1>4. CASE Exists("asset")
  <2>1. /\ cache'["asset"] = cache["asset"] /\ cache'["download"] = cache["download"]
        /\ cache'["tmp"] = cache["tmp"]
    BY <1>1, <1>4 DEF MakeAsset, Exists, Dirs
  <2>2. Received => Received'
    BY <1>1, <1>3, <2>1, ReceivedStays
  <2>3. Complete => Complete'
    BY <1>1, <1>3, <2>1, SteadyStays, CompleteStays
  <2>4. Ready'
    BY <1>1, <2>1, <2>3 DEF HeldOK, JobOK, Ready, Downloaded
  <2>5. JobOK(j)'
    BY <1>3, <2>4 DEF JobOK, ExtractsOK, At, Finishing
  <2> QED BY <1>1, <1>3, <2>1, <2>2, <2>5, TmpSound
<1>5. CASE ~Exists("asset")
  <2>1. /\ cache'["asset"] = {} /\ cache["asset"] = Absent
        /\ cache'["download"] = cache["download"] /\ cache'["tmp"] = cache["tmp"]
    BY <1>1, <1>5 DEF MakeAsset, Exists, Dirs
  <2>2. ~Complete
    BY <1>1, <1>5, CompleteExists
  <2>3. Downloaded
    BY <1>1, <2>2 DEF HeldOK, JobOK, Ready
  <2>4. Ready'
    BY <1>1, <2>1, <2>3 DEF Downloaded, Ready
  <2>5. DataOK'
    BY <1>1, <2>1, <2>4 DEF DataOK
  <2>6. \A k \in Members : /\ Member(k) \notin cache["asset"]
                           /\ Steady(k) => Steady(k)'
    BY <1>1, <1>3, <2>1, SteadyStays, EntriesDiffer
  <2>7. Received => Received'
    BY <1>1, <1>3, <2>1, ReceivedStays
  <2>8. Keeps
    BY <1>1, <2>2, <2>4, <2>6, <2>7 DEF Keeps
  <2>9. JobOK(j)'
    BY <1>3, <2>4 DEF JobOK, ExtractsOK, At, Finishing
  <2> QED BY <2>5, <2>8, <2>9 DEF SoundStep
<1> QED BY <1>4, <1>5

LEMMA PickSound ==
    ASSUME BaseOK, HeldOK, NEW j \in Jobs, Pick(j), ~spoiled'
    PROVE  SoundStep(j)
<1> USE DEF BaseOK
<1>1. /\ ~Finished(j) /\ ~Halfway(j) /\ JobsOK /\ UNCHANGED <<format, cache, named, members>>
      /\ job[j].pc = "pick" /\ format \in Formats /\ received' = received
  BY DEF Pick, At, Finished, Over, Halfway, TypeOK, cacheVars
<1>2. ASSUME NEW pc \in {"failed", "retrieve"}, Go(j, pc) PROVE SoundStep(j)
  <2>1. pc \in Pcs \ {"new"} /\ pc \in Idle
    BY DEF Idle, Pcs, Over
  <2>2. Moves(j) /\ job'[j].pc \in Idle
    BY <1>1, <1>2, <2>1, GoDoes DEF GoesTo
  <2> QED BY <1>1, <2>2, PassesSound
<1>3. CASE ~Exists("download") \/ cache["download"] = {}
  BY <1>2, <1>3 DEF Pick, Fails
<1>4. CASE Exists("download") /\ cache["download"] # {}
  <2>1. PICK f \in Jobs :
          /\ File(f) \in cache["download"]
          /\ job' = [job EXCEPT ![j].pc = IF IsArchive(f) THEN "extract" ELSE "move",
                                ![j].file = f, ![j].step = 0]
          /\ spoiled' = (spoiled \/ ~named[f])
    BY <1>4 DEF Pick
  <2> DEFINE c == IF IsArchive(f) THEN "extract" ELSE "move"
  <2>2. named[f] /\ received[f] = Chunks
    BY <2>1 DEF PlacesOK, PlaceOK
  <2>3. c = IF format = "plain" THEN "move" ELSE "extract"
    BY <1>1, <2>2 DEF IsArchive, Chunks
  <2>4. c \in {"extract", "move"}
    OBVIOUS
  <2> HIDE DEF c
  <2>5. /\ Moves(j) /\ job'[j].pc = c /\ job'[j].file = f /\ job'[j].step = 0
    BY <1>1, <2>1, <2>4, PickDoes DEF c
  <2>6. ~Abandoning(j)' /\ ~Finishing(j)'
    BY <2>4, <2>5 DEF Abandoning, Finishing, At
  <2>7. /\ DataOK' /\ (~job[j].alone => Keeps) /\ (Ready => Ready')
    BY <1>1, <2>5, <2>6, UntouchedSound
  <2>8. Ready'
    BY <1>1, <2>7 DEF HeldOK, JobOK
  <2>9. ExtractsOK(j)'
    <3>1. \A k \in Members : ~(job'[j].step >= 2 * k - 1)
      BY <2>5 DEF Members
    <3>2. File(job'[j].file) \in cache'["download"]
      BY <1>1, <2>1, <2>5
    <3> QED BY <1>1, <2>3, <2>5, <3>1, <3>2 DEF ExtractsOK, At
  <2>10. JobOK(j)'
    <3>1. named'[job'[j].file] /\ (At(j, "move")' => format' = "plain")
          /\ ~At(j, "drop")' /\ ~At(j, "publish")'
      BY <1>1, <2>2, <2>3, <2>4, <2>5 DEF At
    <3> QED BY <2>6, <2>8, <2>9, <3>1 DEF JobOK
  <2> QED BY <2>7, <2>10 DEF SoundStep
<1> QED BY <1>3, <1>4

\* A step of a job that found the asset complete, and leaves it so.
LEMMA CompleteSound ==
    ASSUME BaseOK, HeldOK, NEW j \in Jobs, Moves(j), ~Halfway(j),
           UNCHANGED <<format, named, members>>, cache'["asset"] = cache["asset"],
           Complete, Complete' => JobOK(j)'
    PROVE  SoundStep(j)
<1>1. \A k \in Members : Steady(k) => Steady(k)'
  BY SteadyStays
<1>2. (Moved => Moved') /\ Complete'
  BY <1>1, CompleteStays
<1>3. Ready'
  BY <1>2 DEF Ready
<1>4. DataOK'
  BY <1>2, <1>3 DEF HeldOK, DataOK, MemberFiles
<1>5. Keeps
  BY <1>1, <1>2, <1>3 DEF Keeps
<1> QED BY <1>2, <1>4, <1>5 DEF SoundStep

LEMMA MoveFileSound ==
    ASSUME BaseOK, HeldOK, NEW j \in Jobs, MoveFile(j)
    PROVE  SoundStep(j)
<1> USE DEF BaseOK
<1>1. /\ ~Finished(j) /\ ~Halfway(j) /\ JobsOK /\ UNCHANGED <<format, named, members>>
      /\ job[j].pc = "move" /\ DOMAIN cache = Dirs
  BY DEF MoveFile, At, Finished, Over, Halfway, TypeOK, CacheOK
<1> DEFINE g == job[j].file
           f == File(g)
<1>2. named[g] /\ g \in Jobs /\ format = "plain"
  BY <1>1 DEF HeldOK, JobOK, PlacesOK, PlaceOK, At
<1> HIDE DEF g
<1>3. CASE Has("download", f) /\ Exists("asset")
  <2>1. GoesTo(j, "finish")
    BY <1>1, <1>3, GoDoes DEF MoveFile, Pcs, g
  <2>2. cache'["asset"] = (cache["asset"] \ SameName(cache["asset"])) \cup {f}
    BY <1>1, <1>2, <1>3 DEF MoveFile, Dirs, g
  <2>3. cache["asset"] = {} \/ \E x \in Jobs : named[x] /\ cache["asset"] = {File(x)}
    BY <1>2, <1>3 DEF HeldOK, DataOK, Moved, Exists
  <2>4. cache'["asset"] = {f}
    <3>1. CASE cache["asset"] = {}
      BY <2>2, <3>1
    <3>2. CASE \E x \in Jobs : named[x] /\ cache["asset"] = {File(x)}
      <4>1. PICK x \in Jobs : named[x] /\ cache["asset"] = {File(x)}
        BY <3>2
      <4>2. File(x) \in SameName(cache["asset"])
        BY <4>1 DEF SameName
      <4> QED BY <2>2, <4>1, <4>2
    <3> QED BY <2>3, <3>1, <3>2
  <2>5. Moved'
    BY <1>1, <1>2, <2>4 DEF Moved
  <2>6. Complete' /\ Ready' /\ DataOK'
    BY <1>1, <1>2, <2>5 DEF Complete, Ready, DataOK
  <2>7. Moves(j) /\ job'[j].pc = "finish"
    BY <2>1 DEF GoesTo
  <2>8. JobOK(j)'
    BY <2>6, <2>7 DEF JobOK, ExtractsOK, At, Abandoning
  <2>9. \A k \in Members : Member(k) \notin cache["asset"] /\ (Steady(k) => Steady(k)')
    <3>1. \A k \in Members : Member(k) \notin cache["asset"]
      BY <2>3, EntriesDiffer
    <3>2. \A k \in Members : Steady(k) => Steady(k)'
      BY <1>1, <2>7, SteadyStays
    <3> QED BY <3>1, <3>2
  <2>10. Keeps
    BY <1>1, <2>6, <2>9 DEF Keeps
  <2> QED BY <2>6, <2>8, <2>10 DEF SoundStep
<1>4. CASE ~(Has("download", f) /\ Exists("asset"))
  <2>1. Go(j, "failed") /\ cache' = cache
    BY <1>1, <1>4 DEF MoveFile, Fails, g
  <2>2. GoesTo(j, "failed")
    BY <1>1, <2>1, GoDoes DEF Pcs, Over
  <2> QED BY <1>1, <2>1, <2>2, PassesSound DEF GoesTo, Idle, Over
<1> QED BY <1>3, <1>4

LEMMA ExtractSound ==
    ASSUME BaseOK, HeldOK, NEW j \in Jobs, Extract(j)
    PROVE  SoundStep(j)
<1> USE DEF BaseOK
<1>1. /\ ~Finished(j) /\ JobsOK /\ UNCHANGED <<format, named>> /\ At(j, "extract")
      /\ job[j].pc = "extract" /\ DOMAIN cache = Dirs /\ job[j].step < 4
      /\ members \in [Members -> {"none", "partial", "whole"}] /\ format \in Formats
  BY FourSteps DEF Extract, At, Finished, Over, TypeOK, CacheOK
<1>0. job[j].step \in 0..4
  BY <1>1 DEF JobsOK, JobRecords
<1>2. PICK s \in 0..4 : s = job[j].step
  BY <1>0
<1>3. PICK k \in Members : /\ k = job[j].step \div 2 + 1 /\ (s % 2 = 0 => s + 1 = 2 * k - 1)
                           /\ (s % 2 # 0 => s = 2 * k - 1)
  BY <1>1, <1>2, NextMember
<1>4. /\ named[job[j].file] /\ received[job[j].file] = Chunks /\ ExtractsOK(j) /\ Ready
      /\ format # "plain" /\ (format = "tgz" => job[j].step = 0) /\ job[j].file \in Jobs
  <2>1. JobOK(j) /\ job[j].file \in Jobs
    BY <1>1 DEF HeldOK, PlacesOK, PlaceOK
  <2> QED BY <1>1, <2>1 DEF JobOK, ExtractsOK, PlacesOK, PlaceOK
<1>5. CASE format = "tgz"
  <2>1. Go(j, "failed") /\ cache' = cache /\ members' = members
    BY <1>1, <1>5 DEF Extract, Fails
  <2>2. GoesTo(j, "failed")
    BY <1>1, <2>1, GoDoes DEF Pcs, Over
  <2>3. ~Halfway(j)
    BY <1>2, <1>4, <1>5 DEF Halfway
  <2> QED BY <1>1, <2>1, <2>2, <2>3, PassesSound DEF GoesTo, Idle, Over
<1>6. CASE format # "tgz"
  <2> DEFINE m == IF s % 2 = 0 THEN "partial" ELSE "whole"
             A == (IF cache["asset"] = Absent THEN {} ELSE cache["asset"]) \cup {Member(k)}
  <2>1. k <= received[job[j].file]
    BY <1>3, <1>4 DEF Members, Chunks
  <2>2. /\ job' = [job EXCEPT ![j].step = @ + 1] /\ members' = [members EXCEPT ![k] = m]
        /\ cache' = [cache EXCEPT !["asset"] = A]
    <3>1. ~(format = "tgz" \/ k > received[job[j].file])
      BY <1>3, <1>4, <1>6, <2>1 DEF Members, Chunks
    <3> QED BY <1>2, <1>3, <3>1 DEF Extract
  <2>3. /\ cache'["asset"] = A /\ cache'["download"] = cache["download"]
        /\ cache'["tmp"] = cache["tmp"]
    BY <1>1, <2>2 DEF Dirs
  <2>4. members'[k] = m /\ \A n \in Members \ {k} : members'[n] = members[n]
    BY <1>1, <1>3, <2>2
  <2> HIDE DEF A
  <2>5. /\ Moves(j) /\ job'[j].pc = "extract" /\ job'[j].file = job[j].file
        /\ job'[j].step = s + 1
    BY <1>1, <1>2, <2>2, StepDoes
  <2>6. Steady(k)'
    <3>1. CASE s % 2 = 0
      <4>1. At(j, "extract")' /\ job'[j].step = 2 * k - 1
        BY <1>3, <2>5, <3>1 DEF At
      <4> QED BY <4>1 DEF Steady
    <3>2. CASE s % 2 # 0
      BY <2>4, <3>2 DEF Steady
    <3> QED BY <3>1, <3>2
  <2>7. ASSUME NEW n \in Members, Steady(n) PROVE Steady(n)'
    <3>1. CASE n = k
      BY <2>6, <3>1
    <3>2. CASE n # k
      <4>1. CASE members[n] = "whole"
        BY <2>4, <3>2, <4>1 DEF Steady
      <4>2. CASE \E i \in Jobs : At(i, "extract") /\ job[i].step = 2 * n - 1
        <5>1. PICK i \in Jobs : At(i, "extract") /\ job[i].step = 2 * n - 1
          BY <4>2
        <5>2. i # j
          <6>1. n \in {1, 2} /\ k \in {1, 2}
            BY <1>3 DEF Members
          <6>2. s = 2 * n - 1 => n = k
            BY <1>3, <6>1
          <6> QED BY <1>2, <3>2, <5>1, <6>2
        <5>3. At(i, "extract")' /\ job'[i].step = 2 * n - 1
          BY <2>5, <5>1, <5>2, OthersStay
        <5> QED BY <5>3 DEF Steady
      <4> QED BY <2>7, <4>1, <4>2 DEF Steady
    <3> QED BY <3>1, <3>2
  <2>8. /\ A \subseteq MemberFiles /\ Member(k) \in A
        /\ \A n \in Members : Member(n) \in cache["asset"] => Member(n) \in A
    <3>1. Member(k) \in MemberFiles
      BY <1>3 DEF MemberFiles
    <3>2. \A n \in Members : Member(n) \notin Absent
      BY EntriesDiffer
    <3> QED BY <1>4, <3>1, <3>2 DEF A, HeldOK, DataOK
  <2>9. Complete => Complete'
    <3>1. ASSUME Extracted PROVE Extracted'
      <4>1. cache["asset"] = MemberFiles /\ cache["asset"] # Absent
        BY <3>1, EntriesDiffer DEF Extracted
      <4>2. A = MemberFiles /\ MemberFiles' = MemberFiles
        BY <2>8, <4>1 DEF A, MemberFiles
      <4> QED BY <2>3, <2>7, <3>1, <4>2 DEF Extracted
    <3> QED BY <1>1, <1>4, <3>1 DEF Complete
  <2>10. Ready'
    BY <1>1, <1>4, <2>3, <2>9 DEF Ready, Downloaded
  <2>11. DataOK'
    <3>1. MemberFiles' = MemberFiles
      BY DEF MemberFiles
    <3> QED BY <1>1, <1>4, <1>6, <2>3, <2>8, <2>10, <3>1 DEF DataOK
  <2>12. Received => Received'
    <3>1. ~Abandoning(j)'
      BY <2>5 DEF Abandoning, At
    <3> QED BY <1>1, <2>3, <2>5, <3>1, ReceivedStays
  <2>13. Keeps
    BY <1>1, <2>3, <2>7, <2>8, <2>9, <2>10, <2>12 DEF Keeps
  <2>14. ExtractsOK(j)'
    <3>1. ASSUME NEW n \in Members, s + 1 >= 2 * n - 1
          PROVE  Member(n) \in cache'["asset"] /\ Steady(n)'
      <4>1. CASE n = k
        BY <2>3, <2>6, <2>8, <4>1
      <4>2. CASE n # k
        <5>1. s >= 2 * n - 1
          <6>1. n \in {1, 2} /\ k \in {1, 2}
            BY <1>3 DEF Members
          <6>2. s % 2 = 0 => s # 2 * n - 2
            BY <1>3, <4>2, <6>1
          <6>3. s % 2 # 0 => s # 2 * n - 2
            BY <1>2, <6>1
          <6> QED BY <1>2, <3>1, <6>1, <6>2, <6>3
        <5>2. Member(n) \in cache["asset"] /\ Steady(n)
          BY <1>1, <1>2, <1>4, <5>1 DEF ExtractsOK
        <5> QED BY <2>3, <2>7, <2>8, <5>2
      <4> QED BY <4>1, <4>2
    <3>2. job'[j].alone => File(job'[j].file) \in cache'["download"]
      BY <1>1, <1>4, <2>3, <2>5 DEF ExtractsOK, Moves
    <3> QED BY <1>1, <1>4, <1>6, <2>5, <3>1, <3>2 DEF ExtractsOK
  <2>15. JobOK(j)'
    <3>1. named'[job'[j].file]
      BY <1>1, <1>4, <2>5
    <3> QED BY <2>5, <2>10, <2>14, <3>1 DEF JobOK, At, Finishing, Abandoning
  <2> QED BY <2>11, <2>13, <2>15 DEF SoundStep
<1> QED BY <1>5, <1>6

LEMMA DropSound ==
    ASSUME BaseOK, HeldOK, NEW j \in Jobs, Drop(j)
    PROVE  SoundStep(j)
<1> USE DEF BaseOK
<1>1. JobOK(j) /\ ExtractsOK(j) /\ DataOK
  BY DEF HeldOK, JobOK
<1>2. /\ At(j, "extract") /\ job[j].step = 4 /\ JobsOK /\ DOMAIN cache = Dirs
      /\ format \in Formats /\ UNCHANGED <<format, named, members>> /\ Go(j, "finish")
  BY <1>1, FourSteps DEF Drop, JobOK, TypeOK, CacheOK
<1>3. ~Finished(j) /\ ~Halfway(j)
  BY <1>2 DEF At, Finished, Over, Halfway
<1>4. Complete
  <2>1. format # "plain" /\ format # "tgz"
    BY <1>1, <1>2 DEF ExtractsOK
  <2>2. \A k \in Members : Member(k) \in cache["asset"] /\ Steady(k)
    BY <1>1, <1>2 DEF ExtractsOK, Members
  <2>3. 1 \in Members
    BY DEF Members
  <2>4. cache["asset"] # Absent
    BY <2>2, <2>3, EntriesDiffer
  <2>5. cache["asset"] \subseteq MemberFiles
    BY <1>1, <2>1, <2>4 DEF DataOK
  <2>6. MemberFiles \subseteq cache["asset"]
    BY <2>2 DEF MemberFiles
  <2>7. cache["asset"] = MemberFiles
    BY <2>5, <2>6
  <2> QED BY <1>2, <2>1, <2>2, <2>7 DEF Complete, Extracted
<1>5. GoesTo(j, "finish")
  BY <1>2, <1>3, GoDoes DEF Pcs
<1>6. Moves(j) /\ job'[j].pc = "finish"
  BY <1>5 DEF GoesTo
<1>7. cache'["asset"] = cache["asset"]
  BY <1>2 DEF Drop, Dirs
<1>8. Complete' => JobOK(j)'
  BY <1>6 DEF JobOK, ExtractsOK, At, Finishing, Abandoning
<1> QED BY <1>2, <1>3, <1>4, <1>6, <1>7, <1>8, CompleteSound

LEMMA FinishSound ==
    ASSUME BaseOK, HeldOK, NEW j \in Jobs, Finish(j)
    PROVE  SoundStep(j)
<1> USE DEF BaseOK
<1>1. /\ ~Finished(j) /\ ~Halfway(j) /\ JobsOK /\ CacheOK
      /\ UNCHANGED <<format, cache, named, members>>
  BY DEF Finish, At, Finished, Over, Halfway, TypeOK, cacheVars
<1>2. Complete
  BY DEF HeldOK, JobOK, Finishing, Finish
<1>3. /\ Moves(j) /\ job'[j].why = "finish" /\ job'[j].pc \in {"failed", "unlink"}
  <2>1. "download" \in Dirs /\ "finish" \in {"clean", "finish"} /\ Removal(j, "download", "finish")
    BY DEF Finish, Dirs
  <2> QED BY <1>1, <2>1, RemovalDoes
<1>4. Complete' => JobOK(j)'
  BY <1>3 DEF JobOK, ExtractsOK, At, Abandoning
<1> QED BY <1>1, <1>2, <1>3, <1>4, CompleteSound

\* What a removal is for, when it is not to clean the cache.
LEMMA RemovalIsFor ==
    ASSUME BaseOK, NEW j \in Jobs, At(j, "unlink"), ~Cleaning(j)
    PROVE  \/ job[j].why = "finish" /\ job[j].dir = "download" /\ Finishing(j)
           \/ job[j].why = "abandon" /\ job[j].dir = "tmp" /\ Abandoning(j)
<1>1. PlaceOK(j) /\ job[j] \in JobRecords
  BY DEF BaseOK, PlacesOK, TypeOK, JobsOK
<1>2. job[j].why \in {"none", "clean", "finish", "abandon"}
  BY <1>1 DEF JobRecords
<1>3. job[j].why # "none" /\ job[j].why # "clean"
  BY <1>1 DEF PlaceOK, Cleaning, At
<1> QED BY <1>1, <1>2, <1>3 DEF PlaceOK, Finishing, Abandoning

LEMMA UnlinkSound ==
    ASSUME BaseOK, HeldOK, NEW j \in Jobs, Unlink(j), ~Cleaning(j)
    PROVE  SoundStep(j)
<1> USE DEF BaseOK
<1>1. /\ ~Finished(j) /\ ~Halfway(j) /\ JobsOK /\ DOMAIN cache = Dirs
      /\ UNCHANGED <<format, named, members>> /\ At(j, "unlink")
  BY DEF Unlink, At, Finished, Over, Halfway, TypeOK, CacheOK
<1>2. PICK e \in job[j].todo :
         IF Has(job[j].dir, e)
         THEN /\ cache' = [cache EXCEPT ![job[j].dir] = @ \ {e}]
              /\ job' = [job EXCEPT ![j].todo = @ \ {e}]
         ELSE RemovalMissing(j) /\ UNCHANGED cache
  BY DEF Unlink
<1>3. \/ job[j].why = "finish" /\ job[j].dir = "download" /\ Finishing(j)
      \/ job[j].why = "abandon" /\ job[j].dir = "tmp" /\ Abandoning(j)
  BY <1>1, RemovalIsFor
<1>4. CASE ~Has(job[j].dir, e)
  <2>1. Go(j, "failed") /\ cache' = cache
    BY <1>2, <1>3, <1>4 DEF RemovalMissing, Fails
  <2>2. GoesTo(j, "failed")
    BY <1>1, <2>1, GoDoes DEF Pcs, Over
  <2> QED BY <1>1, <2>1, <2>2, PassesSound DEF GoesTo, Idle, Over
<1>5. CASE Has(job[j].dir, e)
  <2>1. /\ Moves(j) /\ job'[j].pc = "unlink" /\ job'[j].todo = job[j].todo \ {e}
        /\ job'[j].why = job[j].why
    BY <1>1, <1>2, <1>5, TodoDoes DEF At
  <2>2. CASE job[j].why = "finish" /\ job[j].dir = "download" /\ Finishing(j)
    <3>1. Complete
      BY <2>2 DEF HeldOK, JobOK
    <3>2. cache'["asset"] = cache["asset"]
      BY <1>1, <1>2, <1>5, <2>2 DEF Dirs
    <3>3. Complete' => JobOK(j)'
      BY <2>1, <2>2 DEF JobOK, ExtractsOK, At, Abandoning
    <3> QED BY <1>1, <2>1, <3>1, <3>2, <3>3, CompleteSound
  <2>3. CASE job[j].why = "abandon" /\ job[j].dir = "tmp" /\ Abandoning(j)
    <3>1. /\ cache'["asset"] = cache["asset"] /\ cache'["download"] = cache["download"]
          /\ cache'["tmp"] = cache["tmp"] \ {e}
      BY <1>1, <1>2, <1>5, <2>3 DEF Dirs
    <3>2. Received => Received'
      <4>1. ASSUME NEW f \in Jobs, named[f], File(f) \in cache["tmp"],
                   \A i \in Jobs : Abandoning(i) => File(f) \notin job[i].todo
            PROVE  Received'
        <5>1. File(f) \in cache'["tmp"]
          BY <2>3, <3>1, <4>1
        <5>2. ASSUME NEW i \in Jobs, Abandoning(i)' PROVE File(f) \notin job'[i].todo
          <6>1. CASE i = j
            BY <2>1, <2>3, <4>1, <6>1
          <6>2. CASE i # j
            <7>1. Abandoning(i) /\ job'[i] = job[i]
              BY <2>1, <5>2, <6>2, OthersStay
            <7> QED BY <4>1, <7>1
          <6> QED BY <6>1, <6>2
        <5> QED BY <1>1, <4>1, <5>1, <5>2 DEF Received
      <4> QED BY <4>1 DEF Received
    <3>3. JobOK(j)'
      <4>1. \A x \in Jobs \ {j} : ~Finished(x)' => File(x) \notin job'[j].todo
        <5>1. \A x \in Jobs \ {j} : ~Finished(x) => File(x) \notin job[j].todo
          BY <2>3 DEF HeldOK, JobOK
        <5>2. \A x \in Jobs \ {j} : Finished(x)' = Finished(x)
          BY <2>1, OthersStay
        <5> QED BY <2>1, <5>1, <5>2
      <4>2. /\ job'[j].pc \notin {"extract", "move", "make_asset", "pick", "drop", "publish"}
            /\ ~Finishing(j)'
        BY <2>1, <2>3 DEF Finishing, At
      <4> QED BY <4>1, <4>2 DEF JobOK, ExtractsOK, At
    <3> QED BY <1>1, <2>1, <3>1, <3>2, <3>3, TmpSound
  <2> QED BY <1>3, <2>2, <2>3
<1> QED BY <1>4, <1>5

LEMMA RmdirSound ==
    ASSUME BaseOK, HeldOK, NEW j \in Jobs, Rmdir(j), ~Cleaning(j)
    PROVE  SoundStep(j)
<1> USE DEF BaseOK
<1>1. /\ ~Finished(j) /\ ~Halfway(j) /\ JobsOK /\ DOMAIN cache = Dirs
      /\ UNCHANGED <<format, named, members>> /\ At(j, "unlink")
  BY DEF Rmdir, At, Finished, Over, Halfway, TypeOK, CacheOK
<1>2. \/ job[j].why = "finish" /\ job[j].dir = "download" /\ Finishing(j)
      \/ job[j].why = "abandon" /\ job[j].dir = "tmp" /\ Abandoning(j)
  BY <1>1, RemovalIsFor
<1>3. CASE ~Exists(job[j].dir) \/ cache[job[j].dir] # {}
  <2>1. Go(j, "failed") /\ cache' = cache
    BY <1>2, <1>3 DEF Rmdir, RemovalMissing, Fails
  <2>2. GoesTo(j, "failed")
    BY <1>1, <2>1, GoDoes DEF Pcs, Over
  <2> QED BY <1>1, <2>1, <2>2, PassesSound DEF GoesTo, Idle, Over
<1>4. CASE Exists(job[j].dir) /\ cache[job[j].dir] = {}
  <2>1. AfterRemoval(j) /\ cache' = [cache EXCEPT ![job[j].dir] = Absent]
    BY <1>4 DEF Rmdir
  <2>2. CASE job[j].why = "finish" /\ job[j].dir = "download" /\ Finishing(j)
    <3>1. Go(j, "retrieve")
      BY <2>1, <2>2 DEF AfterRemoval
    <3>2. GoesTo(j, "retrieve")
      BY <1>1, <3>1, GoDoes DEF Pcs
    <3>3. Moves(j) /\ JobOK(j)'
      BY <3>2, IdleOK DEF GoesTo, Idle
    <3>4. Complete
      BY <2>2 DEF HeldOK, JobOK
    <3>5. cache'["asset"] = cache["asset"]
      BY <1>1, <2>1, <2>2 DEF Dirs
    <3> QED BY <1>1, <3>3, <3>4, <3>5, CompleteSound
  <2>3. CASE job[j].why = "abandon" /\ job[j].dir = "tmp" /\ Abandoning(j)
    <3>1. Go(j, "failed")
      BY <2>1, <2>3 DEF AfterRemoval, Fails
    <3>2. GoesTo(j, "failed")
      BY <1>1, <3>1, GoDoes DEF Pcs, Over
    <3>3. Moves(j) /\ JobOK(j)'
      BY <3>2, IdleOK DEF GoesTo, Idle, Over
    <3>4. /\ cache'["asset"] = cache["asset"] /\ cache'["download"] = cache["download"]
      BY <1>1, <2>1, <2>3 DEF Dirs
    <3>5. ~Received
      BY <1>4, <2>3 DEF Received
    <3> QED BY <1>1, <3>3, <3>4, <3>5, TmpSound
  <2> QED BY <1>2, <2>2, <2>3
<1> QED BY <1>3, <1>4

-----------------------------------------------------------------------------
(* The cache stays sound, or is made sound by a job that cleans it. *)

\* Where a job is when it takes a step.
LEMMA StepsFrom ==
    ASSUME NEW j \in Jobs
    PROVE  /\ Unlink(j) \/ Rmdir(j) => job[j].pc = "unlink"
           /\ Clean(j) => job[j].pc = "clean"
           /\ CleanNext(j) => job[j].pc = "cleaned"
           /\ CheckAsset(j) => job[j].pc = "check_asset"
           /\ CheckDownload(j) => job[j].pc = "check_download"
           /\ MakeTmp(j) => job[j].pc = "make_tmp"
           /\ Open(j) => job[j].pc = "open"
           /\ Receive(j) => job[j].pc = "receive"
           /\ ServerFails(j) => job[j].pc \in {"open", "receive"}
           /\ NameFile(j) => job[j].pc = "receive"
           /\ Publish(j) => job[j].pc = "publish"
           /\ CheckExtracted(j) => job[j].pc = "check_extracted"
           /\ MakeAsset(j) => job[j].pc = "make_asset"
           /\ Pick(j) => job[j].pc = "pick"
           /\ MoveFile(j) => job[j].pc = "move"
           /\ Extract(j) \/ ExtractFails(j) => job[j].pc = "extract"
           /\ Drop(j) => job[j].pc \in {"drop", "extract"}
           /\ Finish(j) => job[j].pc = "finish"
           /\ Find(j) => job[j].pc = "retrieve"
           /\ (\E r \in Ranks : RankFinds(j, r)) => job[j].pc = "barrier"
BY DEF Unlink, Rmdir, Clean, CleanNext, CheckAsset, CheckDownload, MakeTmp, Open, Receive,
       ServerFails, NameFile, Publish, CheckExtracted, MakeAsset, Pick, MoveFile, Extract,
       ExtractFails, Drop, Finish, Find, RankFinds, At

\* Only the end of a removal of all three directories makes up for what was spoiled.
LEMMA UnspoiledBy ==
    ASSUME NEW j \in Jobs, JobStep(j) \/ Kill(j), spoiled, ~spoiled'
    PROVE  CleanNext(j)
<1>1. ~Unlink(j) /\ ~Rmdir(j) /\ ~Clean(j) /\ ~CheckAsset(j) /\ ~CheckDownload(j)
  BY DEF Unlink, Rmdir, Clean, CheckAsset, CheckDownload
<1>2. ~MakeTmp(j) /\ ~Open(j) /\ ~Receive(j) /\ ~ServerFails(j)
  BY DEF MakeTmp, Open, Receive, ServerFails, Abandon
<1>3. ~NameFile(j) /\ ~Publish(j) /\ ~CheckExtracted(j) /\ ~MakeAsset(j)
  BY DEF NameFile, Publish, CheckExtracted, MakeAsset, Abandon
<1>4. ~Pick(j)
  BY DEF Pick
<1>5. ~MoveFile(j) /\ ~Extract(j) /\ ~ExtractFails(j) /\ ~Drop(j) /\ ~Finish(j)
  BY DEF MoveFile, Extract, ExtractFails, Drop, Finish
<1>6. ~Find(j) /\ ~Kill(j) /\ ~\E r \in Ranks : RankFinds(j, r)
  BY DEF Find, Kill, RankFinds
<1> QED BY <1>1, <1>2, <1>3, <1>4, <1>5, <1>6 DEF JobStep

\* A job that has cleaned the cache, in a way that does not spoil it, was alone, and
\* leaves none of the directories.
LEMMA CleanerStep ==
    ASSUME BaseOK, NEW j \in Jobs, JobStep(j) \/ Kill(j), Cleaning(j), ~Cleaning(j)',
           ~spoiled' \/ (job[j].alone /\ ~At(j, "killed")')
    PROVE  /\ CleanNext(j) /\ job[j].alone /\ job[j].kind = "force" /\ GoesTo(j, "check_asset")
           /\ ~spoiled' /\ UNCHANGED <<format, cacheVars>> /\ \A d \in Dirs : ~Exists(d)
<1> USE DEF BaseOK
<1>1. /\ job[j].pc \in {"unlink", "cleaned"} /\ job[j].why = "clean" /\ ~Finished(j)
      /\ PlaceOK(j) /\ JobsOK /\ CacheOK
  BY DEF Cleaning, PlacesOK, TypeOK, Finished, Over
<1>2. job[j].kind = "force"
  BY <1>1 DEF PlaceOK
<1>3. job[j].alone
  <2>1. BaseStep(j)
    BY StepBase
  <2> QED BY <1>1, <1>2, <2>1 DEF BaseStep, ForceOK
<1>4. CleansOK(j)
  BY DEF CleanOK
<1>5. ~Kill(j)
  <2>1. ASSUME Kill(j) PROVE FALSE
    <3>1. Go(j, "killed") /\ spoiled'
      BY <2>1 DEF Cleaning, Kill
    <3>2. GoesTo(j, "killed")
      BY <1>1, <3>1, GoDoes DEF Pcs, Over
    <3> QED BY <3>1, <3>2 DEF GoesTo, At
  <2> QED BY <2>1
<1>6. ~Unlink(j)
  <2>1. ASSUME Unlink(j) PROVE FALSE
    <3>1. PICK e \in job[j].todo :
             IF Has(job[j].dir, e) THEN job' = [job EXCEPT ![j].todo = @ \ {e}]
             ELSE RemovalMissing(j)
      BY <2>1 DEF Unlink
    <3>2. Has(job[j].dir, e)
      BY <1>3, <1>4, <2>1 DEF CleansOK, Has, Unlink
    <3>3. job'[j].pc = job[j].pc /\ job'[j].why = job[j].why
      BY <1>1, <3>1, <3>2, TodoDoes
    <3> QED BY <1>1, <3>3 DEF Cleaning
  <2> QED BY <2>1
<1>7. ~Rmdir(j)
  <2>1. ASSUME Rmdir(j) PROVE FALSE
    <3>1. Exists(job[j].dir) /\ cache[job[j].dir] = {}
      BY <1>3, <1>4, <2>1 DEF CleansOK, Rmdir
    <3>2. Go(j, "cleaned")
      BY <1>1, <2>1, <3>1 DEF Rmdir, AfterRemoval
    <3>3. GoesTo(j, "cleaned")
      BY <1>1, <3>2, GoDoes DEF Pcs, Over
    <3> QED BY <1>1, <3>3 DEF Cleaning, GoesTo
  <2> QED BY <2>1
<1>8. CleanNext(j)
  BY <1>1, <1>5, <1>6, <1>7, StepsFrom DEF JobStep
<1>9. job[j].dir \notin {"asset", "download"}
  <2>1. ASSUME NEW d \in {"download", "tmp"}, Removal(j, d, "clean") PROVE FALSE
    <3>1. d \in Dirs /\ "clean" \in {"clean", "finish"}
      BY DEF Dirs
    <3>2. job'[j].why = "clean" /\ job'[j].pc \in {"unlink", "cleaned"}
      BY <1>1, <2>1, <3>1, RemovalDoes
    <3> QED BY <3>2 DEF Cleaning
  <2> QED BY <1>8, <2>1 DEF CleanNext
<1>10. /\ Go(j, "check_asset") /\ UNCHANGED <<format, cacheVars>> /\ ~spoiled'
  BY <1>3, <1>8, <1>9 DEF CleanNext
<1>11. GoesTo(j, "check_asset")
  BY <1>1, <1>10, GoDoes DEF Pcs, Over
<1>12. At(j, "cleaned")
  BY <1>8 DEF CleanNext
<1>13. job[j].dir = "tmp"
  BY <1>1, <1>9, <1>12 DEF PlaceOK, Dirs
<1>14. ~Exists("asset") /\ ~Exists("download") /\ ~Exists("tmp")
  BY <1>3, <1>4, <1>12, <1>13 DEF CleansOK
<1> QED BY <1>2, <1>3, <1>8, <1>10, <1>11, <1>14 DEF Dirs

LEMMA CleanedSound ==
    ASSUME BaseOK, NEW j \in Jobs, job[j].alone, GoesTo(j, "check_asset"),
           UNCHANGED <<format, cacheVars>>, \A d \in Dirs : ~Exists(d)
    PROVE  HeldOK'
<1>1. Moves(j) /\ job'[j].pc = "check_asset"
  BY DEF GoesTo
<1>2. cache'["asset"] = Absent /\ cache'["download"] = Absent
  BY DEF cacheVars, Exists, Dirs
<1>3. DataOK'
  BY <1>2 DEF DataOK, Exists
<1>4. ~Finished(j) /\ Started(j) /\ job[j].kind # "card"
  <2>1. ~Finished(j) /\ Started(j)
    BY <1>1 DEF Moves, Finished, Started, Over, At
  <2> QED BY <2>1 DEF BaseOK, PlacesOK, PlaceOK
<1>5. \A i \in Jobs \ {j} : Finished(i)
  BY <1>4 DEF BaseOK, AloneOK
<1>6. \A i \in Jobs : job'[i].pc \in Idle
  BY <1>1, <1>5 DEF Moves, Finished, Idle
<1> QED BY <1>3, <1>6, IdleOK DEF HeldOK

\* Every step that finds the cache sound, and does not spoil it or begin to clean it.
LEMMA HeldStep ==
    ASSUME BaseOK, HeldOK, NEW j \in Jobs, JobStep(j) \/ Kill(j), ~Cleaning(j), ~Cleaning(j)',
           ~spoiled'
    PROVE  SoundStep(j)
<1>1. ~Clean(j)
  <2>1. ASSUME Clean(j) PROVE FALSE
    <3>1. /\ "asset" \in Dirs /\ "clean" \in {"clean", "finish"} /\ ~Finished(j) /\ JobsOK
          /\ CacheOK
      BY <2>1 DEF Dirs, Clean, At, Finished, Over, BaseOK, TypeOK
    <3>2. job'[j].why = "clean" /\ job'[j].pc \in {"unlink", "cleaned"}
      BY <2>1, <3>1, RemovalDoes DEF Clean
    <3> QED BY <3>2 DEF Cleaning
  <2> QED BY <2>1
<1>2. ~CleanNext(j)
  <2>1. At(j, "cleaned") => Cleaning(j)
    BY DEF BaseOK, PlacesOK, PlaceOK, Cleaning, At
  <2> QED BY <2>1 DEF CleanNext
<1>3. CASE Kill(j) \/ ExtractFails(j)
  BY <1>3, EndsSound
<1>4. CASE \/ CheckAsset(j) \/ CheckDownload(j) \/ Find(j)
           \/ \E r \in Ranks : RankFinds(j, r)
  BY <1>4, LooksSound
<1>5. CASE MakeTmp(j) \/ Open(j) \/ Receive(j) \/ ServerFails(j)
  BY <1>5, ReceivesSound
<1>6. CASE NameFile(j) \/ Publish(j) \/ CheckExtracted(j) \/ MakeAsset(j) \/ Pick(j)
  BY <1>6, NameFileSound, PublishSound, CheckExtractedSound, MakeAssetSound, PickSound
<1>7. CASE MoveFile(j) \/ Extract(j) \/ Drop(j) \/ Finish(j) \/ Unlink(j) \/ Rmdir(j)
  BY <1>7, MoveFileSound, ExtractSound, DropSound, FinishSound, UnlinkSound, RmdirSound
<1> QED BY <1>1, <1>2, <1>3, <1>4, <1>5, <1>6, <1>7 DEF JobStep

LEMMA StepSound ==
    ASSUME BaseOK, SoundOK, NEW j \in Jobs, JobStep(j) \/ Kill(j), Sound'
    PROVE  HeldOK'
<1>1. Moves(j) /\ ~spoiled' /\ ~Cleaning(j)'
  BY StepBase DEF BaseStep, Sound
<1>2. CASE Cleaning(j)
  BY <1>1, <1>2, CleanerStep, CleanedSound
<1>3. CASE ~Cleaning(j)
  <2>1. ~spoiled
    <3>1. CleanNext(j) => Cleaning(j)
      BY DEF BaseOK, PlacesOK, PlaceOK, Cleaning, CleanNext, At
    <3> QED BY <1>1, <1>3, <3>1, UnspoiledBy
  <2>2. \A i \in Jobs : ~Cleaning(i)
    <3>1. \A i \in Jobs \ {j} : Cleaning(i)' = Cleaning(i)
      BY <1>1, OthersStay
    <3> QED BY <1>3, <3>1 DEF Sound
  <2>3. HeldOK
    BY <2>1, <2>2 DEF Sound, SoundOK, HeldOK
  <2>4. SoundStep(j)
    BY <1>1, <1>3, <2>3, HeldStep
  <2>5. \A i \in Jobs \ {j} : JobOK(i)'
    BY <1>1, <2>3, <2>4, OthersSound DEF SoundStep
  <2> QED BY <2>4, <2>5 DEF SoundStep, HeldOK
<1> QED BY <1>2, <1>3

\* A job that starts finds the cache as it is.
LEMMA StartSound ==
    ASSUME BaseOK, SoundOK, NEW j \in Jobs, StartJob(j), Sound'
    PROVE  HeldOK'
<1> USE DEF BaseOK
<1>1. /\ Starts(j) /\ UNCHANGED <<format, cacheVars>>
      /\ job'[j].pc \in {"failed", "done", "check_asset", "clean", "retrieve"}
      /\ spoiled => spoiled'
  BY StartDoes
<1>2. /\ format' = format /\ cache' = cache /\ named' = named /\ members' = members
      /\ At(j, "new") /\ job'[j].pc \in Idle
  BY <1>1 DEF cacheVars, Starts, Idle, Over
<1>3. \A i \in Jobs \ {j} :
        /\ job'[i].pc = job[i].pc /\ job'[i].file = job[i].file /\ job'[i].step = job[i].step
        /\ job'[i].todo = job[i].todo /\ job'[i].why = job[i].why
        /\ (job'[i].alone => job[i].alone)
  BY <1>1 DEF Starts
<1>4. \A i \in Jobs \ {j} : /\ Cleaning(i)' = Cleaning(i) /\ Abandoning(i)' = Abandoning(i)
                           /\ Finishing(i)' = Finishing(i) /\ Finished(i)' = Finished(i)
                           /\ \A c : At(i, c)' = At(i, c)
  BY <1>3 DEF Cleaning, Abandoning, Finishing, Finished, At
<1>5. HeldOK
  <2>1. ~Cleaning(j)
    BY <1>2 DEF Cleaning, At
  <2> QED BY <1>1, <1>4, <2>1 DEF Sound, SoundOK, HeldOK
<1>6. \A k \in Members : Steady(k) => Steady(k)'
  BY <1>2, <1>3 DEF Steady, At
<1>7. (Moved => Moved') /\ (Complete => Complete')
  BY <1>2, <1>6, CompleteStays
<1>8. Ready => Ready'
  BY <1>2, <1>7 DEF Ready, Downloaded
<1>9. DataOK'
  BY <1>2, <1>5, <1>7, <1>8 DEF HeldOK, DataOK, Exists, MemberFiles
<1>10. Received => Received'
  <2>1. \A i \in Jobs : Abandoning(i)' => Abandoning(i) /\ job'[i].todo = job[i].todo
    BY <1>2, <1>3, <1>4, IdleOK
  <2> QED BY <1>2, <2>1 DEF Received
<1>11. ASSUME NEW i \in Jobs \ {j} PROVE JobOK(i)'
  <2>1. JobOK(i) /\ ExtractsOK(i)
    BY <1>5 DEF HeldOK, JobOK
  <2>2. ExtractsOK(i)'
    BY <1>2, <1>3, <1>4, <1>6, <2>1 DEF ExtractsOK
  <2>3. Abandoning(i)' => \A x \in Jobs \ {i} : ~Finished(x)' => File(x) \notin job'[i].todo
    BY <1>2, <1>3, <1>4, <2>1 DEF JobOK, OrderOK, Started
  <2> QED BY <1>2, <1>3, <1>4, <1>7, <1>8, <1>10, <2>1, <2>2, <2>3 DEF JobOK
<1>12. JobOK(j)'
  BY <1>2, IdleOK
<1> QED BY <1>9, <1>11, <1>12 DEF HeldOK

-----------------------------------------------------------------------------
(* The way of a job that runs alone, until its end. *)

\* What is complete, while no job extracts, is what the properties ask for.
LEMMA CompleteWhole ==
    ASSUME TypeOK, PlacesOK, Complete, \A i \in Jobs : ~At(i, "extract")
    PROVE  Whole /\ Cached
<1>1. format \in {"plain", "zip", "tar"} /\ (format = "plain" => Moved)
      /\ (format # "plain" => Extracted)
  BY DEF TypeOK, Complete
<1>2. CASE format = "plain"
  <2>1. PICK f \in Jobs : named[f] /\ cache["asset"] = {File(f)}
    BY <1>1, <1>2 DEF Moved
  <2>2. received[f] = Chunks
    BY <2>1 DEF PlacesOK, PlaceOK
  <2>3. Whole
    BY <1>2, <2>1, <2>2 DEF Whole, WholeFile
  <2> QED BY <2>1, <2>3, EntriesDiffer DEF Cached
<1>3. CASE format # "plain"
  <2>1. cache["asset"] = MemberFiles /\ \A k \in Members : Steady(k)
    BY <1>1, <1>3 DEF Extracted
  <2>2. \A k \in Members : members[k] = "whole"
    BY <2>1 DEF Steady
  <2>3. Whole
    BY <1>3, <2>1, <2>2 DEF Whole, MemberFiles
  <2> QED BY <2>1, <2>3, EntriesDiffer DEF Cached
<1> QED BY <1>2, <1>3

\* A job that is on its way.
Alone(j) == Latest(j) /\ ~Finished(j) /\ PathOK(j) /\ \A i \in Jobs \ {j} : Finished(i)

\* A step that only goes on, to a place that is right for what the cache holds now.
LEMMA PathGoes ==
    ASSUME NEW j \in Jobs, Alone(j), NEW pc \in Pcs \ (Over \cup {"unlink"}), GoesTo(j, pc),
           pc = "check_download" => ~Exists("asset")',
           pc \in {"make_tmp", "open", "receive", "publish"} =>
             ~Exists("asset")' /\ ~Exists("download")',
           pc \in {"open", "receive", "publish"} => Exists("tmp")',
           pc = "receive" => File(j) \in cache'["tmp"],
           pc = "check_extracted" => Exists("download")' \/ Exists("asset")',
           pc \in {"make_asset", "pick", "move", "extract", "finish"} => Exists("download")',
           pc \in {"pick", "move", "extract"} => Exists("asset")',
           pc \in {"move", "extract"} => File(job[j].file) \in cache'["download"],
           pc \in {"retrieve", "barrier"} => Complete'
    PROVE  PathOK(j)'
<1>1. /\ job'[j].pc = pc /\ job'[j].kind = job[j].kind /\ job'[j].got = job[j].got
      /\ job'[j].file = job[j].file
  BY DEF GoesTo, Moves
<1>2. ~Abandoning(j)' /\ ~At(j, "unlink")' /\ ~At(j, "failed")' /\ ~At(j, "done")'
  BY <1>1 DEF Abandoning, At, Over
<1>3. job'[j].kind = "load" => \A r \in Ranks : job'[j].got[r] # "partial"
  BY <1>1 DEF Alone, PathOK
<1> QED BY <1>1, <1>2, <1>3 DEF PathOK, At

\* What a complete asset needs to stay so while its job goes on.
LEMMA PathComplete ==
    ASSUME BaseOK, HeldOK, NEW j \in Jobs, Moves(j), ~Halfway(j), Complete,
           UNCHANGED <<format, named, members>>, cache'["asset"] = cache["asset"]
    PROVE  Complete'
BY SteadyStays, CompleteStays

\* An asset directory without a download directory is complete.
LEMMA FoundComplete ==
    ASSUME HeldOK, ~Downloaded, Exists("asset") \/ Ready
    PROVE  Complete
BY DEF HeldOK, DataOK, Ready

LEMMA LooksPath ==
    ASSUME BaseOK, HeldOK, NEW j \in Jobs, Alone(j),
           CheckAsset(j) \/ CheckDownload(j) \/ CheckExtracted(j)
    PROVE  PathOK(j)'
<1> USE DEF BaseOK
<1>1. /\ ~Finished(j) /\ PathOK(j) /\ ~Halfway(j) /\ JobsOK
      /\ UNCHANGED <<format, cache, named, members>>
  BY DEF CheckAsset, CheckDownload, CheckExtracted, At, Halfway, cacheVars, TypeOK, Alone
<1>2. \A d : Exists(d)' = Exists(d)
  BY <1>1 DEF Exists
<1>3. CASE CheckAsset(j)
  <2>1. CASE Exists("asset")
    <3>1. GoesTo(j, "check_extracted")
      BY <1>1, <1>3, <2>1, GoDoes DEF CheckAsset, Pcs
    <3> QED BY <1>2, <2>1, <3>1, PathGoes DEF Pcs, Over
  <2>2. CASE ~Exists("asset")
    <3>1. GoesTo(j, "check_download")
      BY <1>1, <1>3, <2>2, GoDoes DEF CheckAsset, Pcs
    <3> QED BY <1>2, <2>2, <3>1, PathGoes DEF Pcs, Over
  <2> QED BY <2>1, <2>2
<1>4. CASE CheckDownload(j)
  <2>1. ~Exists("asset")
    BY <1>1, <1>4 DEF CheckDownload, PathOK
  <2>2. CASE Exists("download")
    <3>1. GoesTo(j, "check_extracted")
      BY <1>1, <1>4, <2>2, GoDoes DEF CheckDownload, Pcs
    <3> QED BY <1>2, <2>2, <3>1, PathGoes DEF Pcs, Over
  <2>3. CASE ~Exists("download")
    <3>1. GoesTo(j, "make_tmp")
      BY <1>1, <1>4, <2>3, GoDoes DEF CheckDownload, Pcs
    <3> QED BY <1>2, <2>1, <2>3, <3>1, PathGoes DEF Pcs, Over
  <2> QED BY <2>2, <2>3
<1>5. CASE CheckExtracted(j)
  <2>1. Exists("download") \/ Exists("asset")
    BY <1>1, <1>5 DEF CheckExtracted, PathOK
  <2>2. CASE Exists("download")
    <3>1. GoesTo(j, "make_asset")
      BY <1>1, <1>5, <2>2, GoDoes DEF CheckExtracted, Pcs
    <3> QED BY <1>2, <2>2, <3>1, PathGoes DEF Pcs, Over
  <2>3. CASE ~Exists("download")
    <3>1. GoesTo(j, "retrieve")
      BY <1>1, <1>5, <2>3, GoDoes DEF CheckExtracted, Pcs
    <3>2. ~Downloaded
      BY <2>3, EntriesDiffer DEF Downloaded, Exists
    <3>3. Complete /\ Moves(j)
      BY <2>1, <2>3, <3>1, <3>2, FoundComplete DEF GoesTo
    <3>4. Complete'
      BY <1>1, <3>3, PathComplete
    <3> QED BY <3>1, <3>4, PathGoes DEF Pcs, Over
  <2> QED BY <2>2, <2>3
<1> QED BY <1>3, <1>4, <1>5

LEMMA ReceivesPath ==
    ASSUME BaseOK, HeldOK, NEW j \in Jobs, Alone(j),
           MakeTmp(j) \/ Open(j) \/ Receive(j) \/ NameFile(j) \/ Publish(j)
    PROVE  PathOK(j)'
<1> USE DEF BaseOK
<1>1. /\ ~Finished(j) /\ PathOK(j) /\ JobsOK /\ DOMAIN cache = Dirs
  BY DEF TypeOK, CacheOK, Alone
<1>2. ~Exists("asset") /\ ~Exists("download")
  BY <1>1 DEF MakeTmp, Open, Receive, NameFile, Publish, At, PathOK
<1>3. CASE MakeTmp(j)
  <2>1. GoesTo(j, "open")
    BY <1>1, <1>3, GoDoes DEF MakeTmp, Pcs
  <2>2. /\ cache'["asset"] = cache["asset"] /\ cache'["download"] = cache["download"]
        /\ cache'["tmp"] # Absent
    BY <1>1, <1>3, EntriesDiffer DEF MakeTmp, Dirs
  <2>3. ~Exists("asset")' /\ ~Exists("download")' /\ Exists("tmp")'
    BY <1>2, <2>2 DEF Exists
  <2> QED BY <2>1, <2>3, PathGoes DEF Pcs, Over
<1>4. CASE Open(j)
  <2>1. Exists("tmp")
    BY <1>1, <1>4 DEF Open, At, PathOK
  <2>2. GoesTo(j, "receive")
    BY <1>1, <1>4, <2>1, GoDoes DEF Open, Pcs
  <2>3. /\ cache'["asset"] = cache["asset"] /\ cache'["download"] = cache["download"]
        /\ File(j) \in cache'["tmp"]
    BY <1>1, <1>4, <2>1 DEF Open, Dirs
  <2>4. ~Exists("asset")' /\ ~Exists("download")' /\ Exists("tmp")'
    BY <1>2, <2>3, EntriesDiffer DEF Exists
  <2> QED BY <2>2, <2>3, <2>4, PathGoes DEF Pcs, Over
<1>5. CASE Receive(j)
  <2>1. job' = job /\ cache' = cache /\ At(j, "receive")
    BY <1>5 DEF Receive
  <2>2. GoesTo(j, "receive")
    BY <1>1, <2>1 DEF GoesTo, Moves, JobsOK, Started, At
  <2>3. /\ ~Exists("asset")' /\ ~Exists("download")' /\ Exists("tmp")'
        /\ File(j) \in cache'["tmp"]
    BY <1>1, <1>2, <2>1 DEF Exists, PathOK, At
  <2> QED BY <2>2, <2>3, PathGoes DEF Pcs, Over
<1>6. CASE NameFile(j)
  <2>1. Has("tmp", File(j))
    BY <1>1, <1>6 DEF NameFile, At, PathOK, Has
  <2>2. GoesTo(j, "publish")
    BY <1>1, <1>6, <2>1, GoDoes DEF NameFile, Pcs
  <2>3. /\ cache'["asset"] = cache["asset"] /\ cache'["download"] = cache["download"]
        /\ File(j) \in cache'["tmp"]
    BY <1>1, <1>6, <2>1 DEF NameFile, Dirs
  <2>4. ~Exists("asset")' /\ ~Exists("download")' /\ Exists("tmp")'
    BY <1>2, <2>3, EntriesDiffer DEF Exists
  <2> QED BY <2>2, <2>3, <2>4, PathGoes DEF Pcs, Over
<1>7. CASE Publish(j)
  <2>1. Exists("tmp") /\ cache["download"] = Absent
    BY <1>1, <1>2, <1>7 DEF Publish, At, PathOK, Exists
  <2>2. GoesTo(j, "check_extracted")
    BY <1>1, <1>7, <2>1, GoDoes DEF Publish, Pcs
  <2>3. cache'["download"] = cache["tmp"]
    BY <1>1, <1>7, <2>1 DEF Publish, Dirs
  <2>4. Exists("download")'
    BY <2>1, <2>3 DEF Exists
  <2> QED BY <2>2, <2>4, PathGoes DEF Pcs, Over
<1> QED BY <1>3, <1>4, <1>5, <1>6, <1>7

LEMMA MakeAssetPath ==
    ASSUME BaseOK, HeldOK, NEW j \in Jobs, Alone(j), MakeAsset(j)
    PROVE  PathOK(j)'
<1> USE DEF BaseOK
<1>1. /\ ~Finished(j) /\ PathOK(j) /\ JobsOK /\ DOMAIN cache = Dirs
  BY DEF TypeOK, CacheOK, Alone
<1>2. GoesTo(j, "pick")
  BY <1>1, GoDoes DEF MakeAsset, Pcs
<1>3. Exists("download")
  BY <1>1 DEF MakeAsset, At, PathOK
<1>4. cache'["download"] = cache["download"] /\ cache'["asset"] # Absent
  BY <1>1, EntriesDiffer DEF MakeAsset, Dirs
<1>5. Exists("download")' /\ Exists("asset")'
  BY <1>3, <1>4 DEF Exists
<1> QED BY <1>2, <1>5, PathGoes DEF Pcs, Over

LEMMA PickPath ==
    ASSUME BaseOK, HeldOK, NEW j \in Jobs, Alone(j), Pick(j)
    PROVE  PathOK(j)'
<1> USE DEF BaseOK
<1>1. /\ ~Finished(j) /\ ~Halfway(j) /\ PathOK(j) /\ JobsOK /\ At(j, "pick")
      /\ UNCHANGED <<format, cache, named, members>>
  BY DEF TypeOK, Alone, Pick, Halfway, At, cacheVars
<1>2. Exists("download") /\ Exists("asset") /\ Ready
  BY <1>1 DEF At, PathOK, HeldOK, JobOK
<1>3. CASE cache["download"] = {}
  <2>1. GoesTo(j, "retrieve")
    BY <1>1, <1>2, <1>3, GoDoes DEF Pick, Pcs
  <2>2. ~Downloaded
    BY <1>3 DEF Downloaded
  <2>3. Complete /\ Moves(j)
    BY <1>2, <2>1, <2>2, FoundComplete DEF GoesTo
  <2>4. Complete'
    BY <1>1, <2>3, PathComplete
  <2> QED BY <2>1, <2>4, PathGoes DEF Pcs, Over
<1>4. CASE cache["download"] # {}
  <2>1. PICK f \in Jobs :
          /\ File(f) \in cache["download"]
          /\ job' = [job EXCEPT ![j].pc = IF IsArchive(f) THEN "extract" ELSE "move",
                                ![j].file = f, ![j].step = 0]
    BY <1>2, <1>4 DEF Pick
  <2> DEFINE c == IF IsArchive(f) THEN "extract" ELSE "move"
  <2>2. c \in {"extract", "move"}
    OBVIOUS
  <2> HIDE DEF c
  <2>3. /\ Moves(j) /\ job'[j].pc = c /\ job'[j].file = f /\ job'[j].got = job[j].got
    BY <1>1, <2>1, <2>2, PickDoes DEF c
  <2>4. /\ Exists("download")' /\ Exists("asset")' /\ File(job'[j].file) \in cache'["download"]
    BY <1>1, <1>2, <2>1, <2>3 DEF Exists
  <2>5. ~Abandoning(j)' /\ job'[j].kind = job[j].kind
    BY <2>2, <2>3 DEF Abandoning, At, Moves
  <2>6. job'[j].kind = "load" => \A r \in Ranks : job'[j].got[r] # "partial"
    BY <1>1, <2>3, <2>5 DEF PathOK
  <2> QED BY <2>2, <2>3, <2>4, <2>5, <2>6 DEF PathOK, At
<1> QED BY <1>3, <1>4

\* A download directory that loses a file is still there.
LEMMA StillThere ==
    ASSUME CacheOK, Exists("download"), NEW e
    PROVE  cache["download"] \ {e} # Absent
BY EntriesDiffer DEF CacheOK, Exists

LEMMA MovesPath ==
    ASSUME BaseOK, HeldOK, NEW j \in Jobs, Alone(j), MoveFile(j) \/ Drop(j)
    PROVE  PathOK(j)'
<1> USE DEF BaseOK
<1>1. /\ ~Finished(j) /\ PathOK(j) /\ JobsOK /\ CacheOK /\ DOMAIN cache = Dirs /\ JobOK(j)
  BY DEF TypeOK, CacheOK, Alone, HeldOK
<1>2. Exists("download") /\ Exists("asset") /\ File(job[j].file) \in cache["download"]
  <2>1. job[j].pc \in {"move", "extract"}
    BY <1>1 DEF MoveFile, Drop, JobOK, At
  <2> QED BY <1>1, <2>1 DEF PathOK
<1>3. cache["download"] \ {File(job[j].file)} # Absent
  BY <1>1, <1>2, StillThere
<1>4. Go(j, "finish") /\ cache'["download"] = cache["download"] \ {File(job[j].file)}
  <2>1. CASE MoveFile(j)
    BY <1>1, <1>2, <2>1 DEF MoveFile, Has, Dirs
  <2>2. CASE Drop(j)
    BY <1>1, <1>2, <2>2 DEF Drop, Dirs, Exists
  <2> QED BY <2>1, <2>2
<1>5. GoesTo(j, "finish")
  BY <1>1, <1>4, GoDoes DEF Pcs
<1>6. Exists("download")'
  BY <1>3, <1>4 DEF Exists
<1> QED BY <1>5, <1>6, PathGoes DEF Pcs, Over

LEMMA ExtractPath ==
    ASSUME BaseOK, HeldOK, NEW j \in Jobs, Alone(j), Extract(j)
    PROVE  PathOK(j)'
<1> USE DEF BaseOK
<1>1. /\ ~Finished(j) /\ PathOK(j) /\ JobsOK /\ DOMAIN cache = Dirs /\ JobOK(j)
      /\ At(j, "extract") /\ job[j].step < 4 /\ format' = format
  BY FourSteps DEF TypeOK, CacheOK, Alone, HeldOK, Extract
<1>2. CASE format = "tgz"
  <2>1. Go(j, "failed")
    BY <1>2 DEF Extract, Fails
  <2>2. GoesTo(j, "failed")
    BY <1>1, <2>1, GoDoes DEF Pcs, Over
  <2>3. /\ job'[j].pc = "failed" /\ job'[j].kind = job[j].kind /\ job'[j].got = job[j].got
    BY <2>2 DEF GoesTo, Moves
  <2>4. ~Abandoning(j)' /\ \A r \in Ranks : job'[j].kind = "load" => job'[j].got[r] # "partial"
    BY <1>1, <2>3 DEF Abandoning, At, PathOK
  <2> QED BY <1>1, <1>2, <2>3, <2>4 DEF PathOK, At
<1>3. CASE format # "tgz"
  <2>1. job[j].step \in 0..4
    BY <1>1 DEF JobsOK, JobRecords
  <2>2. PICK k \in Members : k = job[j].step \div 2 + 1
    BY <1>1, <2>1, NextMember
  <2>3. k <= received[job[j].file]
    <3>1. job[j].file \in Jobs /\ named[job[j].file]
      BY <1>1 DEF PlacesOK, PlaceOK, JobOK, At
    <3>2. received[job[j].file] = Chunks
      BY <3>1 DEF PlacesOK, PlaceOK
    <3> QED BY <2>2, <3>2 DEF Members, Chunks
  <2>4. /\ job' = [job EXCEPT ![j].step = @ + 1]
        /\ cache' = [cache EXCEPT !["asset"] = (IF @ = Absent THEN {} ELSE @) \cup {Member(k)}]
    <3>1. ~(format = "tgz" \/ k > received[job[j].file])
      <4>1. job[j].file \in Jobs /\ received[job[j].file] \in 0..Chunks
        BY <1>1 DEF PlacesOK, PlaceOK, TypeOK, At
      <4> QED BY <1>3, <2>2, <2>3, <4>1 DEF Members, Chunks
    <3> QED BY <2>2, <3>1 DEF Extract
  <2>5. /\ Moves(j) /\ job'[j].pc = "extract" /\ job'[j].file = job[j].file
        /\ job'[j].got = job[j].got
    BY <1>1, <2>4, StepDoes
  <2>6. Member(k) \in cache'["asset"] /\ cache'["download"] = cache["download"]
    BY <1>1, <2>4 DEF Dirs
  <2>7. /\ Exists("asset")' /\ Exists("download")' /\ File(job'[j].file) \in cache'["download"]
    BY <1>1, <2>5, <2>6, EntriesDiffer DEF Exists, PathOK, At
  <2>8. ~Abandoning(j)' /\ job'[j].kind = job[j].kind
    BY <2>5 DEF Abandoning, At, Moves
  <2>9. job'[j].kind = "load" => \A r \in Ranks : job'[j].got[r] # "partial"
    BY <1>1, <2>5, <2>8 DEF PathOK
  <2> QED BY <2>5, <2>7, <2>8, <2>9 DEF PathOK, At
<1> QED BY <1>2, <1>3

LEMMA RemovesPath ==
    ASSUME BaseOK, HeldOK, NEW j \in Jobs, Alone(j), Finish(j) \/ Unlink(j) \/ Rmdir(j)
    PROVE  PathOK(j)'
<1> USE DEF BaseOK
<1>1. /\ ~Finished(j) /\ PathOK(j) /\ JobsOK /\ CacheOK /\ DOMAIN cache = Dirs
      /\ ~Cleaning(j) /\ ~Halfway(j) /\ UNCHANGED <<format, named, members>>
  BY DEF TypeOK, CacheOK, Alone, Latest, Halfway, At, Finish, Unlink, Rmdir, cacheVars
<1>2. Exists("download") /\ Finishing(j)
  <2>1. CASE Finish(j)
    BY <1>1, <2>1 DEF Finish, At, PathOK, Finishing
  <2>2. CASE Unlink(j) \/ Rmdir(j)
    <3>1. At(j, "unlink") /\ ~Abandoning(j)
      BY <1>1, <2>2 DEF Unlink, Rmdir, PathOK
    <3> QED BY <1>1, <3>1, RemovalIsFor DEF PathOK
  <2> QED BY <2>1, <2>2
<1>3. Complete
  BY <1>2 DEF HeldOK, JobOK
<1>4. ASSUME Moves(j), job'[j].pc = "unlink", job'[j].why = "finish",
             job'[j].got = job[j].got, Exists("download")', job'[j].todo = cache'["download"]
      PROVE  PathOK(j)'
  <2>1. ~Abandoning(j)' /\ job'[j].kind = job[j].kind
    BY <1>4 DEF Abandoning, Moves
  <2>2. job'[j].kind = "load" => \A r \in Ranks : job'[j].got[r] # "partial"
    BY <1>1, <1>4, <2>1 DEF PathOK
  <2> QED BY <1>4, <2>1, <2>2 DEF PathOK, At
<1>5. CASE Finish(j)
  <2>1. "download" \in Dirs /\ "finish" \in {"clean", "finish"} /\ Removal(j, "download", "finish")
    BY <1>5 DEF Finish, Dirs
  <2>2. /\ Moves(j) /\ job'[j].pc = "unlink" /\ job'[j].why = "finish"
        /\ job'[j].got = job[j].got /\ job'[j].todo = cache["download"]
    BY <1>1, <1>2, <2>1, RemovalDoes
  <2>3. cache' = cache
    BY <1>5 DEF Finish, cacheVars
  <2> QED BY <1>2, <1>4, <2>2, <2>3 DEF Exists
<1>6. ASSUME Unlink(j) \/ Rmdir(j)
      PROVE  /\ job[j].why = "finish" /\ job[j].dir = "download"
             /\ job[j].todo = cache["download"] /\ job[j].pc = "unlink"
  <2>1. At(j, "unlink")
    BY <1>6 DEF Unlink, Rmdir
  <2> QED BY <1>1, <2>1, RemovalIsFor DEF PathOK, At
<1>7. CASE Unlink(j)
  <2>1. PICK e \in job[j].todo :
           IF Has(job[j].dir, e)
           THEN /\ cache' = [cache EXCEPT ![job[j].dir] = @ \ {e}]
                /\ job' = [job EXCEPT ![j].todo = @ \ {e}]
           ELSE RemovalMissing(j) /\ UNCHANGED cache
    BY <1>7 DEF Unlink
  <2>2. Has(job[j].dir, e)
    BY <1>2, <1>6, <1>7 DEF Has
  <2>3. /\ Moves(j) /\ job'[j].pc = "unlink" /\ job'[j].todo = job[j].todo \ {e}
        /\ job'[j].why = "finish" /\ job'[j].got = job[j].got
    BY <1>1, <1>6, <1>7, <2>1, <2>2, TodoDoes
  <2>4. cache'["download"] = cache["download"] \ {e}
    BY <1>1, <1>6, <1>7, <2>1, <2>2 DEF Dirs
  <2>5. Exists("download")'
    BY <1>1, <1>2, <2>4, StillThere DEF Exists
  <2> QED BY <1>4, <1>6, <1>7, <2>3, <2>4, <2>5
<1>8. CASE Rmdir(j)
  <2>1. Exists(job[j].dir) /\ cache[job[j].dir] = {}
    BY <1>2, <1>6, <1>8 DEF Rmdir
  <2>2. AfterRemoval(j) /\ cache' = [cache EXCEPT ![job[j].dir] = Absent]
    BY <1>8, <2>1 DEF Rmdir
  <2>3. Go(j, "retrieve")
    BY <1>6, <1>8, <2>2 DEF AfterRemoval
  <2>4. GoesTo(j, "retrieve")
    BY <1>1, <2>3, GoDoes DEF Pcs
  <2>5. Moves(j) /\ cache'["asset"] = cache["asset"]
    BY <1>1, <1>6, <1>8, <2>2, <2>4 DEF GoesTo, Dirs
  <2>6. Complete'
    BY <1>1, <1>3, <2>5, PathComplete
  <2> QED BY <2>4, <2>6, PathGoes DEF Pcs, Over
<1> QED BY <1>5, <1>7, <1>8

LEMMA FindsPath ==
    ASSUME BaseOK, HeldOK, NEW j \in Jobs, Alone(j), Find(j) \/ \E r \in Ranks : RankFinds(j, r)
    PROVE  PathOK(j)'
<1> USE DEF BaseOK
<1>1. /\ ~Finished(j) /\ PathOK(j) /\ PlaceOK(j) /\ JobsOK /\ ~Halfway(j)
      /\ job[j].pc \in {"retrieve", "barrier"} /\ UNCHANGED <<format, cache, named, members>>
  BY DEF TypeOK, Alone, PlacesOK, Halfway, At, Find, RankFinds, cacheVars
<1>2. Complete
  BY <1>1 DEF PathOK
<1>3. \A i \in Jobs : ~At(i, "extract")
  BY <1>1 DEF Alone, Finished, Over, At
<1>4. Whole /\ Cached
  BY <1>2, <1>3, CompleteWhole DEF TypeOK
<1>5. Moves(j) => Complete'
  BY <1>1, <1>2, PathComplete
<1>6. job[j].got \in [Ranks -> {"none", "whole", "partial"}]
  BY <1>1 DEF JobsOK, JobRecords
<1>7. job[j].kind = "load" => \A r \in Ranks : job[j].got[r] # "partial"
  BY <1>1 DEF PathOK
<1>8. CASE Find(j)
  <2>1. CASE job[j].kind = "load"
    <3>1. GoesTo(j, "barrier")
      BY <1>1, <1>4, <1>8, <2>1, GoDoes DEF Find, Pcs
    <3>2. Complete'
      BY <1>5, <3>1 DEF GoesTo
    <3> QED BY <3>1, <3>2, PathGoes DEF Pcs, Over
  <2>2. CASE job[j].kind # "load"
    <3>1. Look(j, 0, "done") /\ 0 \in Ranks /\ "done" \in {"done", "barrier"}
      BY <1>4, <1>8, <2>2, JobAssumption DEF Find
    <3>2. Moves(j) /\ job'[j].pc = "done" /\ job'[j].got[0] = "whole"
      BY <1>1, <1>4, <3>1, LookDoes
    <3>3. job'[j].kind # "load" /\ ~Abandoning(j)'
      BY <2>2, <3>2 DEF Moves, Abandoning, At
    <3> QED BY <3>2, <3>3 DEF PathOK, At
  <2> QED BY <2>1, <2>2
<1>9. CASE \E r \in Ranks : RankFinds(j, r)
  <2>1. PICK r \in Ranks : RankFinds(j, r)
    BY <1>9
  <2> DEFINE then == IF \A q \in Ranks \ {r} : job[j].got[q] # "none" THEN "done" ELSE "barrier"
  <2>2. Look(j, r, then) /\ job[j].kind = "load"
    BY <1>1, <1>4, <2>1 DEF RankFinds, PlaceOK
  <2>3. /\ then \in {"done", "barrier"}
        /\ then = "done" => \A q \in Ranks \ {r} : job[j].got[q] # "none"
    OBVIOUS
  <2> HIDE DEF then
  <2>4. /\ Moves(j) /\ job'[j].pc = then /\ job'[j].got[r] = "whole"
        /\ \A q \in Ranks \ {r} : job'[j].got[q] = job[j].got[q]
    BY <1>1, <1>4, <2>2, <2>3, LookDoes
  <2>5. Complete' /\ job'[j].kind = "load" /\ ~Abandoning(j)'
    BY <1>5, <2>2, <2>3, <2>4 DEF Moves, Abandoning, At
  <2>6. \A q \in Ranks : job'[j].got[q] # "partial"
    BY <1>7, <2>2, <2>4
  <2>7. then = "done" => \A q \in Ranks : job'[j].got[q] = "whole"
    <3>1. ASSUME then = "done", NEW q \in Ranks \ {r} PROVE job[j].got[q] = "whole"
      BY <1>6, <1>7, <2>2, <2>3, <3>1
    <3> QED BY <2>4, <3>1
  <2> QED BY <2>3, <2>4, <2>5, <2>6, <2>7 DEF PathOK, At
<1> QED BY <1>8, <1>9

\* A step after which its job is the latest, and still undisturbed.
LEMMA LatestBefore ==
    ASSUME BaseOK, NEW j \in Jobs, JobStep(j) \/ Kill(j), NEW i \in Jobs, Latest(i)'
    PROVE  /\ i = j /\ ~Kill(j) /\ ~ServerFails(j) /\ ~ExtractFails(j) /\ ~Clean(j)
           /\ job[j].alone /\ ~At(j, "killed")' /\ ~Cleaning(j)'
           /\ ~Cleaning(j) => Latest(j) /\ ~At(j, "clean")
<1> USE DEF BaseOK
<1>1. Moves(j) /\ ~Finished(j) /\ PlaceOK(j) /\ JobsOK /\ CacheOK
  BY StepBase DEF BaseStep, Moves, PlacesOK, TypeOK
<1>2. i = j
  <2>1. ASSUME i # j PROVE FALSE
    <3>1. job'[i] = job[i] /\ Started(i)' = Started(i)
      BY <1>1, <2>1, OthersStay
    <3>2. job[i].alone /\ job[i].kind # "card" /\ Started(i)
      BY <3>1 DEF Latest
    <3>3. ~(j > i)
      BY <1>1 DEF Moves, Started, Latest
    <3>4. j < i
      BY <2>1, <3>3, JobAssumption
    <3> QED BY <1>1, <3>2, <3>4 DEF AloneOK
  <2> QED BY <2>1
<1>3. /\ job[j].alone /\ job[j].kind \in {"load", "force"} /\ ~job'[j].fault
      /\ ~At(j, "killed")' /\ ~Cleaning(j)' /\ \A x \in Jobs : x > j => At(x, "new")'
  BY <1>1, <1>2 DEF Latest, Moves
<1>4. ~Kill(j)
  <2>1. Kill(j) => Go(j, "killed") /\ "killed" \in Pcs \ {"new"}
    BY DEF Kill, Pcs, Over
  <2> QED BY <1>1, <1>3, <2>1, GoDoes DEF GoesTo, At
<1>5. ~ServerFails(j) /\ ~ExtractFails(j)
  <2>1. ServerFails(j) => job'[j].fault
    BY <1>1, AbandonDoes DEF ServerFails
  <2>2. ExtractFails(j) => job'[j].fault
    BY <1>1, BreakDoes DEF ExtractFails
  <2> QED BY <1>3, <2>1, <2>2
<1>6. ~Clean(j)
  <2>1. ASSUME Clean(j) PROVE FALSE
    <3>1. "asset" \in Dirs /\ "clean" \in {"clean", "finish"} /\ Removal(j, "asset", "clean")
      BY <2>1 DEF Dirs, Clean
    <3>2. job'[j].why = "clean" /\ job'[j].pc \in {"unlink", "cleaned"}
      BY <1>1, <3>1, RemovalDoes
    <3> QED BY <1>3, <3>2 DEF Cleaning
  <2> QED BY <2>1
<1>7. ~At(j, "clean")
  BY <1>4, <1>6, StepsFrom DEF JobStep, At
<1>8. ~job[j].fault
  <2>1. ASSUME job[j].fault PROVE FALSE
    <3>1. At(j, "unlink")
      BY <1>1, <2>1 DEF PlaceOK, Abandoning, Finished, Over
    <3>2. Unlink(j) \/ Rmdir(j)
      BY <1>4, <3>1, StepsFrom DEF JobStep, At
    <3>3. \/ \E pc \in {"cleaned", "failed", "retrieve"} : Go(j, pc)
          \/ \E e : job' = [job EXCEPT ![j].todo = @ \ {e}]
      BY <3>2 DEF Unlink, Rmdir, RemovalMissing, AfterRemoval, Fails
    <3>4. \A pc \in {"cleaned", "failed", "retrieve"} : pc \in Pcs \ {"new"}
      BY DEF Pcs, Over
    <3>5. job'[j].fault = job[j].fault
      BY <1>1, <3>3, <3>4, GoDoes, TodoDoes DEF GoesTo
    <3> QED BY <1>3, <2>1, <3>5
  <2> QED BY <2>1
<1>9. ~Cleaning(j) => Latest(j)
  <2>1. \A x \in Jobs : x > j => At(x, "new")
    <3>1. \A x \in Jobs \ {j} : At(x, "new")' = At(x, "new")
      BY <1>1, OthersStay
    <3>2. \A x \in Jobs : x > j => x # j
      BY JobAssumption
    <3> QED BY <1>3, <3>1, <3>2
  <2>2. Started(j) /\ ~At(j, "killed")
    BY <1>1 DEF Finished, Started, At, Over
  <2> QED BY <1>3, <1>8, <2>1, <2>2 DEF Latest
<1> QED BY <1>2, <1>3, <1>4, <1>5, <1>6, <1>7, <1>9

LEMMA NotCleaned ==
    ASSUME BaseOK, NEW j \in Jobs, ~Cleaning(j)
    PROVE  ~CleanNext(j)
BY DEF BaseOK, PlacesOK, PlaceOK, Cleaning, CleanNext, At

\* Whoever runs alone and is on its way finds the cache as its job has left it.
LEMMA LatestAlone ==
    ASSUME BaseOK, SoundOK, LatestOK, NEW j \in Jobs, Latest(j), ~Finished(j), ~spoiled
    PROVE  Alone(j) /\ HeldOK
<1>1. \A i \in Jobs \ {j} : Finished(i)
  BY DEF BaseOK, AloneOK, Latest
<1>2. \A i \in Jobs : ~Cleaning(i)
  BY <1>1 DEF Latest, Finished, Cleaning, Over
<1>3. HeldOK
  BY <1>2 DEF SoundOK, Sound, HeldOK
<1> QED BY <1>1, <1>3 DEF Alone, LatestOK

LEMMA LatestStep ==
    ASSUME BaseOK, SoundOK, LatestOK, NEW j \in Jobs, JobStep(j) \/ Kill(j), ~spoiled',
           NEW i \in Jobs, Latest(i)'
    PROVE  PathOK(i)'
<1>1. /\ i = j /\ ~Kill(j) /\ ~ServerFails(j) /\ ~ExtractFails(j) /\ ~Clean(j)
      /\ ~Cleaning(j)' /\ (~Cleaning(j) => Latest(j))
  BY LatestBefore
<1>2. CASE Cleaning(j)
  <2>1. GoesTo(j, "check_asset") /\ job[j].kind = "force"
    BY <1>1, <1>2, CleanerStep
  <2>2. job'[j].pc = "check_asset" /\ job'[j].kind = "force"
    BY <2>1 DEF GoesTo, Moves
  <2>3. PathOK(j)'
    BY <2>2 DEF PathOK, At, Abandoning
  <2> QED BY <1>1, <2>3
<1>3. CASE ~Cleaning(j)
  <2>1. ~CleanNext(j)
    BY <1>3, NotCleaned
  <2>2. ~spoiled
    BY <2>1, UnspoiledBy
  <2>3. ~Finished(j)
    BY StepBase DEF BaseStep, Moves
  <2>4. Alone(j) /\ HeldOK
    BY <1>1, <1>3, <2>2, <2>3, LatestAlone
  <2>5. PathOK(j)'
    BY <1>1, <2>1, <2>4, LooksPath, ReceivesPath, MakeAssetPath, PickPath, MovesPath,
       ExtractPath, RemovesPath, FindsPath DEF JobStep
  <2> QED BY <1>1, <2>5
<1> QED BY <1>2, <1>3

\* What a job that runs alone spoils: it goes by a file that never got its name.
LEMMA SpoiledBy ==
    ASSUME NEW j \in Jobs, JobStep(j), job[j].alone, ~spoiled, spoiled'
    PROVE  Pick(j) /\ \E f \in Jobs : File(f) \in cache["download"] /\ ~named[f]
<1>1. ~Unlink(j) /\ ~Rmdir(j) /\ ~Clean(j) /\ ~CleanNext(j) /\ ~CheckAsset(j) /\ ~CheckDownload(j)
  BY DEF Unlink, Rmdir, Clean, CleanNext, CheckAsset, CheckDownload
<1>2. ~MakeTmp(j) /\ ~Open(j) /\ ~Receive(j) /\ ~ServerFails(j)
  BY DEF MakeTmp, Open, Receive, ServerFails, Abandon
<1>3. ~NameFile(j) /\ ~Publish(j) /\ ~CheckExtracted(j) /\ ~MakeAsset(j)
  BY DEF NameFile, Publish, CheckExtracted, MakeAsset, Abandon
<1>4. ~MoveFile(j) /\ ~Extract(j) /\ ~ExtractFails(j) /\ ~Drop(j) /\ ~Finish(j)
  BY DEF MoveFile, Extract, ExtractFails, Drop, Finish
<1>5. ~Find(j) /\ ~\E r \in Ranks : RankFinds(j, r)
  BY DEF Find, RankFinds
<1>6. Pick(j)
  BY <1>1, <1>2, <1>3, <1>4, <1>5 DEF JobStep
<1> QED BY <1>6 DEF Pick

\* Files reach the download directory with their names.
LEMMA DownloadGrows ==
    ASSUME TypeOK, NEW j \in Jobs, JobStep(j), NEW x \in Jobs, File(x) \in cache'["download"]
    PROVE  /\ File(x) \in cache["download"] \/ At(j, "publish")
           /\ \A f \in Jobs : named[f] => named'[f]
<1>1. DOMAIN cache = Dirs /\ named \in [Jobs -> BOOLEAN] /\ File(x) \notin Absent
  BY EntriesDiffer DEF TypeOK, CacheOK
<1>2. CASE Unlink(j) \/ Rmdir(j)
  <2>1. \/ cache' = cache \/ cache' = [cache EXCEPT ![job[j].dir] = Absent]
        \/ \E e : cache' = [cache EXCEPT ![job[j].dir] = @ \ {e}]
    BY <1>2 DEF Unlink, Rmdir
  <2>2. File(x) \in cache["download"]
    BY <1>1, <2>1 DEF Dirs
  <2> QED BY <1>2, <2>2 DEF Unlink, Rmdir
<1>3. CASE \/ Clean(j) \/ CleanNext(j) \/ CheckAsset(j) \/ CheckDownload(j) \/ ServerFails(j)
           \/ CheckExtracted(j) \/ Pick(j) \/ ExtractFails(j) \/ Finish(j) \/ Find(j)
           \/ \E r \in Ranks : RankFinds(j, r)
  <2>1. UNCHANGED cacheVars
    BY <1>3 DEF Clean, CleanNext, CheckAsset, CheckDownload, ServerFails, CheckExtracted, Pick,
                ExtractFails, Finish, Find, RankFinds
  <2> QED BY <2>1 DEF cacheVars
<1>4. CASE MakeTmp(j) \/ Open(j) \/ Receive(j) \/ NameFile(j)
  <2>1. cache'["download"] = cache["download"]
    BY <1>1, <1>4 DEF MakeTmp, Open, Receive, NameFile, Dirs
  <2>2. \A f \in Jobs : named[f] => named'[f]
    BY <1>1, <1>4 DEF MakeTmp, Open, Receive, NameFile
  <2> QED BY <2>1, <2>2
<1>5. CASE Publish(j)
  BY <1>5 DEF Publish
<1>6. CASE MakeAsset(j) \/ MoveFile(j) \/ Extract(j) \/ Drop(j)
  <2>1. File(x) \in cache["download"]
    BY <1>1, <1>6 DEF MakeAsset, MoveFile, Extract, Drop, Dirs
  <2> QED BY <1>6, <2>1 DEF MakeAsset, MoveFile, Extract, Drop
<1> QED BY <1>2, <1>3, <1>4, <1>5, <1>6 DEF JobStep

LEMMA HealedStep ==
    ASSUME BaseOK, HealedOK, NEW j \in Jobs, JobStep(j) \/ Kill(j),
           NEW i \in Jobs, Latest(i)', job'[i].kind = "force", ~At(i, "clean")'
    PROVE  FreshOK(i)'
<1>1. /\ i = j /\ ~Kill(j) /\ ~ServerFails(j) /\ ~ExtractFails(j) /\ ~Clean(j)
      /\ job[j].alone /\ ~At(j, "killed")' /\ ~Cleaning(j)'
      /\ (~Cleaning(j) => Latest(j) /\ ~At(j, "clean"))
  BY LatestBefore
<1>2. BaseStep(j) /\ Moves(j) /\ job[j].kind = "force" /\ ~Finished(j)
  BY <1>1, StepBase DEF BaseStep, Moves
<1>3. CASE Cleaning(j)
  <2>1. ~spoiled' /\ UNCHANGED <<format, cacheVars>> /\ \A d \in Dirs : ~Exists(d)
    BY <1>1, <1>3, CleanerStep
  <2>2. cache'["tmp"] = Absent /\ cache'["download"] = Absent
    BY <2>1 DEF cacheVars, Exists, Dirs
  <2>3. FreshOK(j)'
    BY <2>1, <2>2, EntriesDiffer DEF FreshOK
  <2> QED BY <1>1, <2>3
<1>4. CASE ~Cleaning(j)
  <2>1. /\ ~spoiled
        /\ \A x \in Jobs : /\ File(x) \in cache["tmp"] => x = j
                           /\ File(x) \in cache["download"] => x = j /\ named[j]
    BY <1>1, <1>2, <1>4 DEF HealedOK, FreshOK
  <2>2. ~spoiled'
    BY <1>1, <2>1, SpoiledBy
  <2>3. \A x \in Jobs : File(x) \in cache'["tmp"] \cup cache'["download"] => x = j
    BY <1>2, <2>1 DEF BaseStep
  <2>4. ASSUME NEW x \in Jobs, File(x) \in cache'["download"] PROVE named'[j]
    <3>1. /\ File(x) \in cache["download"] \/ At(j, "publish")
          /\ \A f \in Jobs : named[f] => named'[f]
      BY <1>1, <2>4, DownloadGrows DEF BaseOK
    <3>2. At(j, "publish") => named[j]
      BY DEF BaseOK, PlacesOK, PlaceOK
    <3> QED BY <2>1, <3>1, <3>2
  <2>5. FreshOK(j)'
    BY <2>2, <2>3, <2>4 DEF FreshOK
  <2> QED BY <1>1, <2>5
<1> QED BY <1>3, <1>4

-----------------------------------------------------------------------------
(* The theorems. *)

LEMMA StartLatest ==
    ASSUME BaseOK, LatestOK, HealedOK, NEW j \in Jobs, StartJob(j), NEW i \in Jobs, Latest(i)'
    PROVE  PathOK(i)' /\ (job'[i].kind = "force" => At(i, "clean")')
<1> USE DEF BaseOK
<1>1. /\ Starts(j) /\ At(j, "new") /\ Started(j)' /\ \A x \in Jobs : x < j => Started(x)
      /\ job'[j].got = job[j].got /\ job[j].why = "none" /\ PlaceOK(j)
  <2>1. Starts(j) /\ \A x \in Jobs : x < j => Started(x)
    BY StartDoes
  <2>2. At(j, "new") /\ Started(j)' /\ job'[j].got = job[j].got
    BY <2>1 DEF Starts
  <2>3. PlaceOK(j)
    BY DEF PlacesOK
  <2>4. job[j].why = "none"
    BY <2>2, <2>3 DEF PlaceOK
  <2> QED BY <2>1, <2>2, <2>3, <2>4
<1>2. i = j
  <2>1. ASSUME i # j PROVE FALSE
    <3>1. job'[i].pc = job[i].pc
      BY <1>1, <2>1 DEF Starts
    <3>2. Started(i)
      BY <3>1 DEF Latest, Started, At
    <3>3. ~(j > i)
      BY <1>1 DEF Started, Latest
    <3>4. j < i
      BY <2>1, <3>3, JobAssumption
    <3>5. Started(j)
      BY <3>2, <3>4 DEF OrderOK
    <3> QED BY <1>1, <3>5 DEF Started
  <2> QED BY <2>1
<1>3. /\ \/ job'[j].kind = "load" /\ job'[j].pc = "check_asset"
         \/ job'[j].kind = "force" /\ job'[j].pc = "clean"
  BY <1>2, StartDoes DEF Latest
<1>4. \A r \in Ranks : job'[j].got[r] = "none"
  <2>1. \A r \in Ranks : job[j].got[r] = "none"
    BY <1>1 DEF PlaceOK, At
  <2> QED BY <1>1, <2>1
<1>5. PathOK(j)'
  <2>1. ~Abandoning(j)'
    BY <1>3 DEF Abandoning, At
  <2> QED BY <1>3, <1>4, <2>1 DEF PathOK, At
<1>6. job'[j].kind = "force" => At(j, "clean")'
  BY <1>3 DEF At
<1> QED BY <1>2, <1>5, <1>6

LEMMA StayDownloads ==
    ASSUME DownloadsOK, UNCHANGED <<format, cacheVars, job, spoiled>>
    PROVE  DownloadsOK'
<1>1. format' = format /\ cache' = cache /\ received' = received /\ named' = named
      /\ members' = members /\ job' = job /\ spoiled' = spoiled
  BY DEF cacheVars
<1> USE DEF DownloadsOK
<1>2. BaseOK'
  BY StayBase
<1>3. \A j : /\ Cleaning(j)' = Cleaning(j) /\ Abandoning(j)' = Abandoning(j)
             /\ Finishing(j)' = Finishing(j) /\ Finished(j)' = Finished(j)
             /\ Started(j)' = Started(j) /\ \A c : At(j, c)' = At(j, c)
  BY <1>1 DEF Cleaning, Abandoning, Finishing, Finished, Started, At
<1>4. \A d : Exists(d)' = Exists(d)
  BY <1>1 DEF Exists
<1>5. (\A k \in Members : Steady(k)' = Steady(k)) /\ MemberFiles' = MemberFiles
  BY <1>1, <1>3 DEF Steady, MemberFiles
<1>6. /\ Moved' = Moved /\ Complete' = Complete /\ Downloaded' = Downloaded
  <2>1. Moved' = Moved /\ Downloaded' = Downloaded
    BY <1>1 DEF Moved, Downloaded
  <2>2. Extracted' = Extracted
    BY <1>1, <1>5 DEF Extracted
  <2> QED BY <1>1, <2>1, <2>2 DEF Complete
<1>7. Ready' = Ready /\ Received' = Received
  BY <1>1, <1>3, <1>6 DEF Ready, Received
<1>8. SoundOK'
  <2>1. Sound' = Sound
    BY <1>1, <1>3 DEF Sound
  <2>2. DataOK => DataOK'
    BY <1>1, <1>4, <1>5, <1>6, <1>7 DEF DataOK
  <2>3. \A j \in Jobs : JobOK(j) => JobOK(j)'
    <3>1. \A j \in Jobs : ExtractsOK(j) => ExtractsOK(j)'
      BY <1>1, <1>3, <1>5 DEF ExtractsOK
    <3> QED BY <1>1, <1>3, <1>6, <1>7, <3>1 DEF JobOK
  <2> QED BY <2>1, <2>2, <2>3 DEF SoundOK
<1>9. \A j \in Jobs : Latest(j)' = Latest(j)
  BY <1>1, <1>3 DEF Latest
<1>10. \A j \in Jobs : PathOK(j) => PathOK(j)'
  BY <1>1, <1>3, <1>4, <1>6 DEF PathOK
<1>11. \A j \in Jobs : FreshOK(j) => FreshOK(j)'
  BY <1>1, <1>3 DEF FreshOK
<1>12. LatestOK'
  BY <1>1, <1>9, <1>10 DEF LatestOK
<1>13. HealedOK'
  BY <1>1, <1>3, <1>9, <1>11 DEF HealedOK
<1> QED BY <1>2, <1>8, <1>12, <1>13

LEMMA StartsRight == DownloadsInit => DownloadsOK
<1> SUFFICES ASSUME DownloadsInit PROVE DownloadsOK
  OBVIOUS
<1>1. /\ format \in Formats /\ cache = [d \in Dirs |-> Absent] /\ received = [j \in Jobs |-> 0]
      /\ named = [j \in Jobs |-> FALSE] /\ members = [k \in Members |-> "none"]
      /\ job = [j \in Jobs |-> NewJob] /\ spoiled = FALSE
  BY DEF DownloadsInit
<1>2. \A j \in Jobs : /\ job[j].pc = "new" /\ job[j].why = "none" /\ job[j].kind = "none"
                      /\ ~job[j].fault /\ \A r \in Ranks : job[j].got[r] = "none"
  BY <1>1 DEF NewJob
<1>3. \A j \in Jobs : /\ Finished(j) /\ ~Started(j) /\ ~Cleaning(j) /\ ~Abandoning(j)
                      /\ ~Finishing(j) /\ \A c : At(j, c) => c = "new"
  BY <1>2 DEF Finished, Started, Cleaning, Abandoning, Finishing, At, Over
<1>4. \A d \in Dirs : cache[d] = Absent
  BY <1>1
<1>5. TypeOK
  <2>1. NewJob \in JobRecords
    BY DEF NewJob, JobRecords, Pcs, Over
  <2>2. JobsOK
    BY <1>1, <2>1 DEF JobsOK
  <2>3. CacheOK
    BY <1>1, <1>4 DEF CacheOK, Dirs
  <2>4. 0 \in 0..Chunks
    BY DEF Chunks
  <2> QED BY <1>1, <2>2, <2>3, <2>4 DEF TypeOK
<1>6. \A x : \A d \in Dirs : File(x) \notin cache[d]
  BY <1>4, EntriesDiffer
<1>7. PlacesOK
  BY <1>1, <1>2, <1>3 DEF PlacesOK, PlaceOK
<1>8. OrderOK /\ AloneOK /\ CleanOK
  BY <1>3, <1>6 DEF OrderOK, AloneOK, CleanOK, CleansOK, Dirs
<1>9. ForceOK
  BY <1>3 DEF ForceOK
<1>10. DataOK
  BY <1>4 DEF DataOK, Exists, Dirs
<1>11. \A j \in Jobs : JobOK(j)
  BY <1>2, <1>3 DEF JobOK, ExtractsOK
<1>12. LatestOK /\ HealedOK
  BY <1>3 DEF LatestOK, HealedOK, Latest
<1> QED BY <1>5, <1>7, <1>8, <1>9, <1>10, <1>11, <1>12 DEF DownloadsOK, BaseOK, SoundOK

LEMMA GoesOnRight ==
    ASSUME DownloadsOK, [DownloadsNext]_downloadVars
    PROVE  DownloadsOK'
<1> USE DEF DownloadsOK
<1>1. CASE UNCHANGED downloadVars \/ Browse
  <2>1. UNCHANGED <<format, cacheVars, job, spoiled>>
    BY <1>1 DEF downloadVars, Browse
  <2> QED BY <2>1, StayDownloads
<1>2. ASSUME NEW j \in Jobs, StartJob(j) PROVE DownloadsOK'
  <2>1. BaseOK'
    BY <1>2, StartBase
  <2>2. Sound' => HeldOK'
    BY <1>2, StartSound
  <2>3. \A i \in Jobs : Latest(i)' => PathOK(i)' /\ (job'[i].kind = "force" => At(i, "clean")')
    BY <1>2, StartLatest
  <2> QED BY <2>1, <2>2, <2>3 DEF SoundOK, HeldOK, LatestOK, HealedOK
<1>3. ASSUME NEW j \in Jobs, JobStep(j) \/ Kill(j) PROVE DownloadsOK'
  <2>1. BaseOK'
    BY <1>3, StepBase, StepKeepsBase
  <2>2. Sound' => HeldOK'
    BY <1>3, StepSound
  <2>3. \A i \in Jobs : Latest(i)' /\ ~spoiled' => PathOK(i)'
    BY <1>3, LatestStep
  <2>4. \A i \in Jobs : Latest(i)' /\ job'[i].kind = "force" /\ ~At(i, "clean")' => FreshOK(i)'
    BY <1>3, HealedStep
  <2> QED BY <2>1, <2>2, <2>3, <2>4 DEF SoundOK, HeldOK, LatestOK, HealedOK
<1> QED BY <1>1, <1>2, <1>3 DEF DownloadsNext

\* The inductive invariant: what every job has found and made by where it is, whatever
\* the other jobs do, and whenever any of them is killed.
THEOREM DownloadsInvariant == DownloadsSpec => []DownloadsOK
<1>1. DownloadsInit => DownloadsOK
  BY StartsRight
<1>2. DownloadsOK /\ [DownloadsNext]_downloadVars => DownloadsOK'
  BY GoesOnRight
<1> QED BY <1>1, <1>2, PTL DEF DownloadsSpec

\* What lies in the asset directory beside no download is the whole asset, when no
\* job runs, unless the cache was spoiled: _download_asset and _ensure_asset_extracted
\* go by the directories that exist.
THEOREM CacheIsWhole == DownloadsSpec => []CachedWhole
<1>1. DownloadsOK => CachedWhole
  <2> SUFFICES ASSUME DownloadsOK, Quiet, ~spoiled, Cached, ~Exists("download") PROVE Whole
    BY DEF CachedWhole
  <2>1. \A i \in Jobs : Finished(i)
    BY DEF Quiet, Active, Finished
  <2>2. \A i \in Jobs : ~Cleaning(i) /\ ~At(i, "extract")
    BY <2>1 DEF Finished, Cleaning, At, Over
  <2>3. HeldOK
    BY <2>2 DEF DownloadsOK, SoundOK, Sound, HeldOK
  <2>4. ~Downloaded /\ Exists("asset")
    BY EntriesDiffer DEF Downloaded, Exists, Cached
  <2>5. Complete
    BY <2>3, <2>4, FoundComplete
  <2> QED BY <2>2, <2>5, CompleteWhole DEF DownloadsOK, BaseOK
<1> QED BY <1>1, DownloadsInvariant, PTL

\* A forced call that nothing disturbs makes good whatever was left in the cache, a load
\* whatever was not spoiled, and every rank finds the same: download_model on rank 0,
\* the barrier of _download_model, and download_model with local_only on every rank.
THEOREM LoadsAreHealed == DownloadsSpec => []LoadsHeal
<1>1. DownloadsOK => LoadsHeal
  <2> SUFFICES ASSUME DownloadsOK, NEW j \in Jobs, Undisturbed(j), format # "tgz",
                      job[j].kind = "force" \/ (job[j].kind = "load" /\ ~spoiled)
               PROVE  /\ job[j].pc = "done"
                      /\ \A r \in Ranks : job[j].kind = "load" \/ r = 0 => job[j].got[r] = "whole"
    BY DEF LoadsHeal
  <2>1. Latest(j) /\ ~At(j, "clean")
    BY DEF Undisturbed, Latest, Started, Cleaning, At
  <2>2. ~spoiled
    BY <2>1 DEF DownloadsOK, HealedOK, FreshOK
  <2>3. PathOK(j)
    BY <2>1, <2>2 DEF DownloadsOK, LatestOK
  <2>4. job[j].pc = "done"
    BY <2>3 DEF PathOK, Undisturbed, At
  <2> QED BY <2>3, <2>4 DEF PathOK, At
<1> QED BY <1>1, DownloadsInvariant, PTL

-----------------------------------------------------------------------------
(***************************************************************************)
(* Container.                                                              *)
(***************************************************************************)
RegistryOK ==
    /\ wiring \in Wirings
    /\ tried \in 0..Len(wiring)
    /\ accepted \in SUBSET Regs

\* The calls are those of the application's request: its own first, then providers.
Stacked(st) == \E S : st \in Seq(S)

StackOK ==
    /\ Len(stack) \in Nat
    /\ flow \in {"idle", "run", "return", "raise"}
    /\ flow = "idle" <=> Len(stack) = 0
    /\ Len(stack) > 0 => stack[1].reg = 0
    /\ \A k \in 2..Len(stack) : stack[k].reg \in Regs

\* A registration is marked exactly while its provider runs, and no provider runs twice
\* at the same time (`in_call`): after a request, whatever its end, nothing is marked.
MarkedExact ==
    /\ inCall \in [Regs -> BOOLEAN]
    /\ \A i \in Regs : inCall[i] <=> \E k \in 1..Len(stack) : stack[k].reg = i
    /\ \A j, k \in 1..Len(stack) : stack[j].reg = stack[k].reg => j = k

\* What is being built has no instance yet, and a singleton without one was never built.
Singles ==
    /\ made \in [Regs -> Nat]
    /\ DOMAIN obj = Regs
    /\ \A i \in Regs : inCall[i] => obj[i] = NotSet
    /\ \A i \in Regs : wiring[i].singleton =>
          made[i] <= 1 /\ (obj[i] = NotSet => made[i] = 0)

IInv == RegistryOK /\ Stacked(stack) /\ StackOK /\ MarkedExact /\ Singles

registry == <<wiring, tried, accepted>>

-----------------------------------------------------------------------------
\* What the operations on the stack do to it.
LEMMA Pushed ==
  ASSUME NEW S, NEW s \in Seq(S), NEW e
  PROVE  /\ Append(s, e) \in Seq(S \cup {e})
         /\ Len(Append(s, e)) = Len(s) + 1
         /\ Append(s, e)[Len(s) + 1] = e
         /\ \A k \in 1..Len(s) : Append(s, e)[k] = s[k]
  <1>1. s \in Seq(S \cup {e})
    OBVIOUS
  <1> QED
    BY <1>1

LEMMA Replaced ==
  ASSUME NEW S, NEW s \in Seq(S), NEW n \in 1..Len(s), NEW e
  PROVE  /\ [s EXCEPT ![n] = e] \in Seq(S \cup {e})
         /\ Len([s EXCEPT ![n] = e]) = Len(s)
         /\ [s EXCEPT ![n] = e][n] = e
         /\ \A k \in 1..Len(s) : k # n => [s EXCEPT ![n] = e][k] = s[k]
  <1>1. s \in Seq(S \cup {e})
    OBVIOUS
  <1> QED
    BY <1>1

LEMMA Popped ==
  ASSUME NEW S, NEW s \in Seq(S), Len(s) > 0
  PROVE  /\ SubSeq(s, 1, Len(s) - 1) \in Seq(S)
         /\ Len(SubSeq(s, 1, Len(s) - 1)) = Len(s) - 1
         /\ \A k \in 1..(Len(s) - 1) : SubSeq(s, 1, Len(s) - 1)[k] = s[k]
  <1> DEFINE n == Len(s) - 1
  <1>1. n \in Nat /\ \A k \in 1..n : s[k] \in S
    OBVIOUS
  <1>2. /\ SubSeq(s, 1, n) \in Seq(S)
        /\ Len(SubSeq(s, 1, n)) = IF 1 <= n THEN n - 1 + 1 ELSE 0
        /\ \A k \in 1..(n - 1 + 1) : SubSeq(s, 1, n)[k] = s[1 + k - 1]
    <2> HIDE DEF n
    <2>1. 1 \in Int /\ n \in Int
      BY <1>1
    <2> QED
      BY <1>1, <2>1, SubSeqProperties
  <1>3. n - 1 + 1 = n /\ Len(SubSeq(s, 1, n)) = n
    <2> DEFINE length == Len(SubSeq(s, 1, n))
    <2>1. n \in Nat /\ length = IF 1 <= n THEN n - 1 + 1 ELSE 0
      BY <1>1, <1>2
    <2> HIDE DEF n, length
    <2>2. n - 1 + 1 = n /\ length = n
      BY <2>1
    <2> QED
      BY <2>2 DEF length
  <1>4. \A k \in 1..n : 1 + k - 1 = k
    BY <1>1
  <1> QED
    <2> HIDE DEF n
    <2>1. SubSeq(s, 1, n) \in Seq(S) /\ Len(SubSeq(s, 1, n)) = n
      BY <1>2, <1>3
    <2>2. \A k \in 1..n : SubSeq(s, 1, n)[k] = s[k]
      BY <1>2, <1>3, <1>4
    <2> QED
      BY <2>1, <2>2 DEF n

\* The same calls, whatever their arguments.
SameCalls(st) ==
    /\ Len(st) = Len(stack)
    /\ \A k \in 1..Len(stack) : st[k].reg = stack[k].reg

\* Changing the arguments of the top call changes no calls.
LEMMA SameCallsExcept ==
  ASSUME Stacked(stack), StackOK, Len(stack) > 0, NEW f, f.reg = Top.reg
  PROVE  Stacked([stack EXCEPT ![Depth] = f]) /\ SameCalls([stack EXCEPT ![Depth] = f])
  <1> DEFINE st == [stack EXCEPT ![Len(stack)] = f]
  <1>1. PICK S : stack \in Seq(S)
    BY DEF Stacked
  <1>2. Len(stack) \in 1..Len(stack)
    BY DEF StackOK
  <1>3. /\ st \in Seq(S \cup {f}) /\ Len(st) = Len(stack) /\ st[Len(stack)] = f
        /\ \A k \in 1..Len(stack) : k # Len(stack) => st[k] = stack[k]
    BY <1>1, <1>2, Replaced
  <1> HIDE DEF st
  <1>4. Stacked(st)
    BY <1>3 DEF Stacked
  <1>5. SameCalls(st)
    BY <1>3 DEF SameCalls, Top, Depth
  <1> QED
    BY <1>4, <1>5 DEF st, Depth

\* A step that keeps the calls keeps the invariant.
LEMMA SameCallsKeep ==
  ASSUME IInv, Stacked(stack'), SameCalls(stack'), flow' \in {"run", "return", "raise"},
         Len(stack) > 0, UNCHANGED <<registry, obj, made, inCall>>
  PROVE  IInv'
  <1>1. RegistryOK' /\ Regs' = Regs
    BY DEF IInv, RegistryOK, Regs, registry
  <1>2. StackOK'
    BY <1>1 DEF IInv, StackOK, SameCalls
  <1>3. MarkedExact'
    BY <1>1 DEF IInv, MarkedExact, SameCalls
  <1>4. Singles'
    BY <1>1 DEF IInv, Singles, registry
  <1> QED
    BY <1>1, <1>2, <1>3, <1>4 DEF IInv

\* `get_instance` keeps the invariant.
LEMMA EnterKeeps ==
  ASSUME IInv, Len(stack) > 0, NEW st, Stacked(st), SameCalls(st), NEW i \in Regs,
         Enter(st, i), UNCHANGED <<registry, obj, made>>
  PROVE  IInv'
  <1>1. PICK S : st \in Seq(S)
    BY DEF Stacked
  <1>2. RegistryOK' /\ Regs' = Regs
    BY DEF IInv, RegistryOK, Regs, registry
  <1>3. CASE obj[i] = NotSet /\ ~inCall[i]
    <2> DEFINE e == Frame(i, NotSet, NotSet)
    <2>1. stack' = Append(st, e) /\ e.reg = i /\ flow' = "run"
          /\ inCall' = [inCall EXCEPT ![i] = TRUE]
      BY <1>3 DEF Enter, Frame
    <2> HIDE DEF e
    <2>2. /\ stack' \in Seq(S \cup {e}) /\ Len(stack') = Len(stack) + 1
          /\ stack'[Len(stack) + 1].reg = i
          /\ \A k \in 1..Len(stack) : stack'[k].reg = stack[k].reg
      BY <1>1, <2>1, Pushed DEF SameCalls
    <2>3. Stacked(stack')
      BY <2>2 DEF Stacked
    <2>4. StackOK'
      BY <1>2, <2>1, <2>2 DEF IInv, StackOK, Regs
    <2>5. MarkedExact'
      <3>1. inCall' \in [Regs -> BOOLEAN]
        BY <2>1 DEF IInv, MarkedExact
      <3>2. ASSUME NEW j \in Regs
            PROVE  inCall'[j] <=> \E k \in 1..Len(stack') : stack'[k].reg = j
        <4>1. CASE j = i
          BY <2>1, <2>2, <4>1 DEF IInv, MarkedExact, StackOK
        <4>2. CASE j # i
          <5>1. inCall'[j] = inCall[j]
            BY <2>1, <4>2 DEF IInv, MarkedExact
          <5>2. ASSUME NEW k \in 1..Len(stack'), stack'[k].reg = j
                PROVE  k \in 1..Len(stack) /\ stack[k].reg = j
            BY <2>2, <4>2, <5>2 DEF IInv, StackOK
          <5>3. ASSUME NEW k \in 1..Len(stack), stack[k].reg = j
                PROVE  k \in 1..Len(stack') /\ stack'[k].reg = j
            BY <2>2, <5>3 DEF IInv, StackOK
          <5> QED
            BY <5>1, <5>2, <5>3 DEF IInv, MarkedExact
        <4> QED
          BY <4>1, <4>2
      <3>3. \A k \in 1..Len(stack) : stack[k].reg # i
        BY <1>3 DEF IInv, MarkedExact
      <3>4. \A j, k \in 1..Len(stack') : stack'[j].reg = stack'[k].reg => j = k
        BY <2>2, <3>3 DEF IInv, MarkedExact, StackOK
      <3> QED
        BY <1>2, <3>1, <3>2, <3>4 DEF MarkedExact
    <2>6. Singles'
      BY <1>2, <1>3, <2>1 DEF IInv, Singles, MarkedExact, registry
    <2> QED
      BY <1>2, <2>3, <2>4, <2>5, <2>6 DEF IInv
  <1>4. CASE ~(obj[i] = NotSet /\ ~inCall[i])
    <2>1. stack' = st /\ inCall' = inCall /\ flow' \in {"raise", "return"}
      BY <1>4 DEF Enter, Raise, Typed, Return
    <2> QED
      BY <2>1, SameCallsKeep
  <1> QED
    BY <1>3, <1>4

\* The calls are as they should be if the last one is left out, or only one is left.
LEMMA StackFewer ==
  ASSUME StackOK, Len(stack') = Len(stack) - 1, Len(stack) > 1, flow' \in {"return", "raise"},
         \A k \in 1..(Len(stack) - 1) : stack'[k] = stack[k], Regs' = Regs
  PROVE  StackOK'
  BY DEF StackOK

LEMMA StackOne ==
  ASSUME Len(stack') = 1, stack'[1].reg = 0, flow' = "run"
  PROVE  StackOK'
  BY DEF StackOK

\* Leaving a provider keeps the calls below it.
LEMMA LeaveKeeps ==
  ASSUME IInv, Len(stack) > 0, Top.reg # 0,
         stack' = SubSeq(stack, 1, Depth - 1),
         inCall' = [inCall EXCEPT ![Top.reg] = FALSE],
         flow' \in {"return", "raise"},
         UNCHANGED registry
  PROVE  Top.reg \in Regs /\ Stacked(stack') /\ StackOK' /\ MarkedExact'
  <1>1. PICK S : stack \in Seq(S)
    BY DEF IInv, Stacked
  <1>2. Len(stack) \in Nat /\ Len(stack) > 1
    BY DEF IInv, StackOK, Depth, Top
  <1>3. /\ stack' \in Seq(S) /\ Len(stack') = Len(stack) - 1
        /\ \A k \in 1..(Len(stack) - 1) : stack'[k] = stack[k]
    BY <1>1, <1>2, Popped DEF Depth
  <1>4. Regs' = Regs
    BY DEF Regs, registry
  <1>5. Top.reg \in Regs
    BY <1>2 DEF IInv, StackOK, Top, Depth
  <1>6. Stacked(stack')
    BY <1>3 DEF Stacked
  <1>7. StackOK'
    BY <1>2, <1>3, <1>4, StackFewer DEF IInv
  <1>8. MarkedExact'
    <2>1. inCall' \in [Regs -> BOOLEAN]
      BY DEF IInv, MarkedExact
    <2>2. \A j, k \in 1..Len(stack') : stack'[j].reg = stack'[k].reg => j = k
      <3>1. \A j, k \in 1..Len(stack) : stack[j].reg = stack[k].reg => j = k
        BY DEF IInv, MarkedExact
      <3>2. /\ 1..Len(stack') = 1..(Len(stack) - 1)
            /\ \A j \in 1..(Len(stack) - 1) : j \in 1..Len(stack)
        <4>1. PICK n, m : n = Len(stack) /\ m = Len(stack')
          OBVIOUS
        <4>2. n \in Nat /\ m = n - 1
          BY <1>2, <1>3, <4>1
        <4>3. 1..m = 1..(n - 1) /\ \A j \in 1..(n - 1) : j \in 1..n
          BY ONLY <4>2
        <4> QED
          BY <4>1, <4>3
      <3> QED
        BY <1>3, <3>1, <3>2
    <2>3. ASSUME NEW j \in Regs
          PROVE  inCall'[j] <=> \E k \in 1..Len(stack') : stack'[k].reg = j
      <3>1. CASE j = Top.reg
        BY <1>2, <1>3, <1>5, <3>1 DEF IInv, MarkedExact, Top, Depth
      <3>2. CASE j # Top.reg
        BY <1>2, <1>3, <1>5, <3>2 DEF IInv, MarkedExact, Top, Depth
      <3> QED
        BY <3>1, <3>2
    <2> QED
      BY <1>4, <2>1, <2>2, <2>3 DEF MarkedExact
  <1> QED
    BY <1>5, <1>6, <1>7, <1>8

\* The last call of the application ends: nothing is left on the stack, or marked.
LEMMA EndKeeps ==
  ASSUME IInv, Len(stack) > 0, Top.reg = 0, stack' = <<>>, flow' = "idle",
         UNCHANGED <<registry, obj, made, inCall>>
  PROVE  IInv'
  <1>1. RegistryOK' /\ Regs' = Regs
    BY DEF IInv, RegistryOK, Regs, registry
  <1>2. Len(stack) = 1
    <2>1. Len(stack) \in Nat /\ \A k \in 2..Len(stack) : stack[k].reg \in Regs
      BY DEF IInv, StackOK
    <2>2. stack[Len(stack)].reg = 0
      BY DEF Top, Depth
    <2>3. 0 \notin Regs
      <3>1. PICK n : n = Len(wiring)
        OBVIOUS
      <3>2. 0 \notin 1..n
        OBVIOUS
      <3> QED
        BY <3>1, <3>2 DEF Regs
    <2>4. PICK n : n = Len(stack)
      OBVIOUS
    <2>5. n \in Nat /\ n > 0
      BY <2>1, <2>4
    <2>6. n \notin 2..n
      BY <2>1, <2>2, <2>3, <2>4
    <2>7. n = 1
      BY ONLY <2>5, <2>6
    <2> QED
      BY <2>4, <2>7
  <1>3. \A i \in Regs : ~inCall[i]
    BY <1>2 DEF IInv, StackOK, MarkedExact, Regs
  <1>4. stack' \in Seq({}) /\ Len(stack') = 0
    OBVIOUS
  <1>5. Stacked(stack') /\ StackOK' /\ MarkedExact'
    BY <1>1, <1>3, <1>4 DEF IInv, Stacked, StackOK, MarkedExact
  <1>6. Singles'
    BY <1>1 DEF IInv, Singles, registry
  <1> QED
    BY <1>1, <1>5, <1>6 DEF IInv

\* A call of the application begins.
LEMMA BeginKeeps ==
  ASSUME IInv, flow = "idle", NEW request, NEW lazy, stack' = <<Frame(0, request, lazy)>>,
         flow' = "run", UNCHANGED <<registry, obj, made, inCall>>
  PROVE  IInv'
  <1> DEFINE e == Frame(0, request, lazy)
  <1>1. RegistryOK' /\ Regs' = Regs
    BY DEF IInv, RegistryOK, Regs, registry
  <1>2. e.reg = 0
    BY DEF Frame
  <1> HIDE DEF e
  <1>3. stack' \in Seq({e}) /\ Len(stack') = 1 /\ stack'[1].reg = 0
    BY <1>2 DEF e
  <1>4. \A i \in Regs : ~inCall[i]
    BY DEF IInv, StackOK, MarkedExact
  <1>5. Stacked(stack') /\ StackOK'
    BY <1>3, StackOne DEF Stacked
  <1>6. MarkedExact'
    BY <1>1, <1>3, <1>4 DEF IInv, MarkedExact, Regs
  <1>7. Singles'
    BY <1>1 DEF IInv, Singles, registry
  <1> QED
    BY <1>1, <1>5, <1>6, <1>7 DEF IInv

LEMMA Initial == ContainerInit => IInv
  BY WiringsAssumption DEF ContainerInit, IInv, RegistryOK, Stacked, StackOK, MarkedExact, Singles, Regs

-----------------------------------------------------------------------------
\* The top call goes on to its next request.
LEMMA ProceedKeeps ==
  ASSUME IInv, Len(stack) > 0, NEW arg, Proceed(Top, arg), flow' \in {"run", "return", "raise"},
         UNCHANGED <<registry, obj, made, inCall>>
  PROVE  IInv'
  <1> DEFINE f == [Top EXCEPT !.at = @ + 1, !.args = Append(@, arg), !.items = <<>>, !.item = 0]
  <1>1. f.reg = Top.reg /\ stack' = [stack EXCEPT ![Depth] = f]
    BY DEF Proceed
  <1> HIDE DEF f
  <1>2. Stacked(stack') /\ SameCalls(stack')
    BY <1>1, SameCallsExcept DEF IInv
  <1> QED
    BY <1>2, SameCallsKeep

\* A step that leaves the stack alone.
LEMMA StackKept ==
  ASSUME IInv, Len(stack) > 0, flow' \in {"run", "return", "raise"},
         UNCHANGED <<registry, stack, obj, made, inCall>>
  PROVE  IInv'
  <1>1. Stacked(stack') /\ SameCalls(stack')
    BY DEF IInv, SameCalls
  <1> QED
    BY <1>1, SameCallsKeep

LEMMA Running == IInv /\ flow # "idle" => Len(stack) > 0
  BY DEF IInv, StackOK

\* Every action keeps the invariant.
LEMMA Inductive == IInv /\ [ContainerNext]_containerVars => IInv'
  <1> SUFFICES ASSUME IInv, [ContainerNext]_containerVars PROVE IInv'
    OBVIOUS
  <1>1. CASE Register
    <2>1. UNCHANGED <<wiring, obj, inCall, made, stack, flow>> /\ Regs' = Regs
      BY <1>1 DEF Register, Regs
    <2>2. RegistryOK'
      BY <1>1, <2>1 DEF Register, IInv, RegistryOK, Regs
    <2> QED
      BY <2>1, <2>2 DEF IInv, Stacked, StackOK, MarkedExact, Singles
  <1>2. ASSUME NEW request \in Wanted, Ask(request) PROVE IInv'
    BY <1>2, BeginKeeps DEF Ask, Call, registry
  <1>3. ASSUME NEW l \in lazies, GetLazy(l) PROVE IInv'
    <2>1. CASE l.value = NotSet
      BY <1>3, <2>1, BeginKeeps DEF GetLazy, Call, registry
    <2>2. CASE l.value # NotSet
      <3>1. UNCHANGED <<wiring, tried, accepted, obj, inCall, made, stack, flow>>
        BY <1>3, <2>2 DEF GetLazy
      <3> QED
        BY <3>1 DEF IInv, RegistryOK, Stacked, StackOK, MarkedExact, Singles, Regs
    <2> QED
      BY <2>1, <2>2
  <1>4. CASE Resolve
    <2>1. Len(stack) > 0 /\ UNCHANGED <<registry, obj, made>>
      BY <1>4, Running DEF Resolve, registry
    <2>2. ASSUME NEW i \in One(Request(Top).name), Enter(stack, i) PROVE IInv'
      <3>1. i \in Regs /\ Stacked(stack) /\ SameCalls(stack)
        BY DEF One, IInv, RegistryOK, SameCalls
      <3> QED
        BY <2>1, <2>2, <3>1, EnterKeeps
    <2>3. CASE Raise(Missing(Request(Top).name)) /\ UNCHANGED <<stack, inCall>>
      BY <2>1, <2>3, StackKept DEF Raise
    <2> QED
      BY <1>4, <2>2, <2>3 DEF Resolve
  <1>5. CASE ResolveElement
    <2> DEFINE rest == {i \in Elements(Request(Top).name) : i > Top.item}
    <2>1. Len(stack) > 0 /\ UNCHANGED <<registry, obj, made>>
      BY <1>5, Running DEF ResolveElement, registry
    <2>2. ASSUME NEW i \in rest, Enter([stack EXCEPT ![Depth].item = i], i) PROVE IInv'
      <3> DEFINE st == [stack EXCEPT ![Depth] = [Top EXCEPT !.item = i]]
      <3>1. [stack EXCEPT ![Depth].item = i] = st /\ [Top EXCEPT !.item = i].reg = Top.reg
        BY DEF Top
      <3>2. i \in Regs /\ Stacked(st) /\ SameCalls(st)
        BY <2>1, <3>1, SameCallsExcept DEF Elements, IInv, RegistryOK
      <3> HIDE DEF st
      <3> QED
        BY <2>1, <2>2, <3>1, <3>2, EnterKeeps
    <2>3. CASE /\ Proceed(Top, [kind |-> "objects", objects |-> Top.items])
               /\ UNCHANGED <<inCall, flow, val>>
      <3>1. flow' \in {"run", "return", "raise"}
        BY <1>5, <2>3 DEF ResolveElement
      <3> QED
        BY <2>1, <2>3, <3>1, ProceedKeeps
    <2> QED
      BY <1>5, <2>2, <2>3 DEF ResolveElement
  <1>6. CASE Postpone
    <2>1. /\ Len(stack) > 0 /\ UNCHANGED <<registry, obj, made, inCall>>
          /\ Proceed(Top, Later) /\ flow' \in {"run", "return", "raise"}
      BY <1>6, Running DEF Postpone, registry
    <2> QED
      BY <2>1, ProceedKeeps
  <1>7. CASE Opaque
    <2>1. Len(stack) > 0 /\ UNCHANGED <<registry, obj, made, inCall>>
      BY <1>7, Running DEF Opaque, registry
    <2>2. CASE Request(Top).used
      BY <1>7, <2>1, <2>2, StackKept DEF Opaque, Raise
    <2>3. CASE ~Request(Top).used
      <3>1. Proceed(Top, Nil) /\ flow' \in {"run", "return", "raise"}
        BY <1>7, <2>3 DEF Opaque
      <3> QED
        BY <2>1, <3>1, ProceedKeeps
    <2> QED
      BY <2>2, <2>3
  <1>8. CASE Deliver
    <2>1. Len(stack) > 0 /\ UNCHANGED <<registry, obj, made, inCall>>
      BY <1>8, Running DEF Deliver, registry
    <2>2. CASE Request(Top).shape \in Plural
      <3> DEFINE items == IF val = Nil THEN Top.items ELSE Append(Top.items, val)
      <3> DEFINE f == [Top EXCEPT !.items = items]
      <3>1. stack' = [stack EXCEPT ![Depth] = f] /\ f.reg = Top.reg /\ flow' = "run"
        BY <1>8, <2>2 DEF Deliver, Top
      <3> HIDE DEF f
      <3>2. Stacked(stack') /\ SameCalls(stack')
        BY <2>1, <3>1, SameCallsExcept DEF IInv
      <3> QED
        BY <2>1, <3>1, <3>2, SameCallsKeep
    <2>3. CASE Request(Top).shape \notin Plural /\ val = Nil
      BY <1>8, <2>1, <2>3, StackKept DEF Deliver, Raise
    <2>4. CASE Request(Top).shape \notin Plural /\ val # Nil
      <3>1. Proceed(Top, val) /\ flow' \in {"run", "return", "raise"}
        BY <1>8, <2>4 DEF Deliver
      <3> QED
        BY <2>1, <3>1, ProceedKeeps
    <2> QED
      BY <2>2, <2>3, <2>4
  <1>9. CASE Construct
    <2> DEFINE i == Top.reg
               value == IF wiring[i].makes = "none" THEN Nil ELSE Instance(i, made[i] + 1)
    <2>1. /\ Len(stack) > 0 /\ i # 0 /\ UNCHANGED registry
          /\ stack' = SubSeq(stack, 1, Depth - 1)
          /\ inCall' = [inCall EXCEPT ![i] = FALSE]
          /\ made' = [made EXCEPT ![i] = @ + 1]
          /\ obj' = Kept(i, value)
      BY <1>9, Running DEF Construct, registry
    <2>2. flow' \in {"return", "raise"}
      BY <1>9 DEF Construct, Typed, Raise, Return
    <2>3. i \in Regs /\ Stacked(stack') /\ StackOK' /\ MarkedExact'
      BY <2>1, <2>2, LeaveKeeps
    <2>4. RegistryOK' /\ Regs' = Regs
      BY <2>1 DEF IInv, RegistryOK, Regs, registry
    <2>5. inCall[i] /\ obj[i] = NotSet
      BY <2>1, <2>3 DEF IInv, StackOK, MarkedExact, Singles, Top, Depth
    <2>6. value # NotSet
      BY DEF Nil, NotSet, Instance
    <2> HIDE DEF value
    <2>7. Singles'
      <3>1. made' \in [Regs -> Nat] /\ DOMAIN obj' = Regs
        BY <2>1, <2>3 DEF IInv, Singles, Kept
      <3>2. ASSUME NEW j \in Regs, inCall'[j] PROVE obj'[j] = NotSet
        BY <2>1, <2>3, <3>2 DEF IInv, Singles, MarkedExact, Kept
      <3>3. ASSUME NEW j \in Regs, wiring[j].singleton
            PROVE  made'[j] <= 1 /\ (obj'[j] = NotSet => made'[j] = 0)
        <4>1. CASE j = i
          BY <2>1, <2>3, <2>5, <2>6, <3>3, <4>1 DEF IInv, Singles, Kept
        <4>2. CASE j # i
          BY <2>1, <2>3, <3>3, <4>2 DEF IInv, Singles, Kept
        <4> QED
          BY <4>1, <4>2
      <3> QED
        BY <2>1, <2>4, <3>1, <3>2, <3>3 DEF Singles, registry
    <2> QED
      BY <2>3, <2>4, <2>7 DEF IInv
  <1>10. CASE ConstructFails
    BY <1>10, Running, StackKept DEF ConstructFails, Raise, registry
  <1>11. CASE Unwind
    <2>1. Len(stack) > 0 /\ UNCHANGED <<registry, obj, made>>
      BY <1>11, Running DEF Unwind, registry
    <2>2. CASE Caught(Top)
      BY <1>11, <2>1, <2>2, ProceedKeeps DEF Unwind
    <2>3. CASE ~Caught(Top) /\ Top.reg = 0
      BY <1>11, <2>1, <2>3, EndKeeps DEF Unwind
    <2>4. CASE ~Caught(Top) /\ Top.reg # 0
      <3>1. /\ stack' = SubSeq(stack, 1, Depth - 1) /\ flow' \in {"return", "raise"}
            /\ inCall' = [inCall EXCEPT ![Top.reg] = FALSE]
        BY <1>11, <2>4 DEF Unwind
      <3>2. Top.reg \in Regs /\ Stacked(stack') /\ StackOK' /\ MarkedExact'
        BY <2>1, <2>4, <3>1, LeaveKeeps
      <3>3. RegistryOK' /\ Singles'
        BY <2>1, <3>1, <3>2 DEF IInv, RegistryOK, MarkedExact, Singles, Regs, registry
      <3> QED
        BY <3>2, <3>3 DEF IInv
    <2> QED
      BY <2>2, <2>3, <2>4
  <1>12. CASE Answer
    BY <1>12, Running, EndKeeps DEF Answer, registry
  <1>13. CASE UNCHANGED containerVars
    BY <1>13 DEF containerVars, IInv, RegistryOK, Stacked, StackOK, MarkedExact, Singles, Regs
  <1> QED
    BY <1>1, <1>2, <1>3, <1>4, <1>5, <1>6, <1>7, <1>8, <1>9, <1>10, <1>11, <1>12, <1>13
    DEF ContainerNext

LEMMA Invariant == ContainerSpec => []IInv
  BY Initial, Inductive, PTL DEF ContainerSpec

\* A singleton is built at most once, whatever the registrations, the requests and the errors.
THEOREM BuiltOnce == ContainerSpec => []OneInstance
  <1>1. IInv => OneInstance
    BY DEF IInv, Singles, OneInstance
  <1> QED
    BY <1>1, Invariant, PTL

\* After a request, whether it was answered or failed, no registration is marked as being
\* built: what failed can be asked for again.
THEOREM NothingMarked == ContainerSpec => [](flow = "idle" => \A i \in Regs : ~inCall[i])
  <1>1. IInv => (flow = "idle" => \A i \in Regs : ~inCall[i])
    BY DEF IInv, StackOK, MarkedExact
  <1> QED
    BY <1>1, Invariant, PTL

-----------------------------------------------------------------------------
(***************************************************************************)
(* What a request is answered.                                             *)
(***************************************************************************)
\* Registration i can be built, and so can what request q asks for.
Faultless(i) == \A j \in Closure({i}) : ~Faults(j)

Provided(q) ==
    /\ ~Gap(q) /\ ~(q.shape = "opaque" /\ q.used)
    /\ \A i \in Needs(q) : Faultless(i)

SoundParams(i) == \A q \in ParamsOf(i) : Provided(q)

\* What the provider of i returns, and what a constructor gets for q.
Gives(i, v) == IF wiring[i].makes = "none" THEN v = Nil ELSE v.kind = "object" /\ v.reg = i

Fits(q, v) ==
    /\ v.kind \notin Errors
    /\ v.kind = "object" => v.reg \in Needs(q)
    /\ q.used /\ q.shape \in Singular /\ ~Maybe(q) => v.kind = "object"

\* The arguments of a call so far are right, and the elements before the one under way, if
\* it is at a collection, can be built.
Before(f, n) ==
    Asks(f) /\ Request(f).shape \in Plural => \A j \in Elements(Request(f).name) : j < n => Faultless(j)

CallFields == {"reg", "at", "args", "items", "item", "request", "lazy"}
IsCall(f)  == f = [x \in CallFields |-> f[x]]

CallOK(f) ==
    /\ IsCall(f) /\ f.reg \in Nat
    /\ Params(f) \in Seq(Requests) /\ f.at \in 1..(Len(Params(f)) + 1)
    /\ Stacked(f.args) /\ Len(f.args) = f.at - 1
    /\ \A k \in 1..(f.at - 1) : Provided(Params(f)[k]) /\ Fits(Params(f)[k], f.args[k])
    /\ f.item \in Nat /\ Before(f, f.item)

\* A call is for what the one before it asks for.
IsFor(i, f) ==
    /\ Asks(f) /\ i \in Needs(Request(f))
    /\ Request(f).shape \in Plural => f.item = i

CallsOK(st) ==
    /\ \A k \in 1..Len(st) : CallOK(st[k])
    /\ \A k \in 2..Len(st) : IsFor(st[k].reg, st[k - 1])
    /\ \A m \in 2..Len(st) : \A k \in 2..(m - 1) : st[m].reg \in Closure(Edges(st[k].reg))

\* No call of st is for a registration in S.
NotOn(S, st) == \A k \in 1..Len(st) : st[k].reg \notin S

\* What is returned to the last call of st.
Returned(st, v) ==
    LET f == st[Len(st)]
    IN  \E i \in Regs : IsFor(i, f) /\ Faultless(i) /\ Gives(i, v) /\ NotOn({i}, st)

\* What is raised in the last call of st: an error of a constructor, one that the call asked
\* to catch, or one that is there.
GapBelow(q, name) ==
    \E request \in {q} \cup UNION {ParamsOf(i) : i \in Closure(Needs(q))} :
        Gap(request) /\ request.name = name

Cyclic(path, q, st) ==
    /\ path \in Seq(Regs) /\ Len(path) > 0 /\ path[1] \in Needs(q)
    /\ \A k \in 1..(Len(path) - 1) : path[k + 1] \in Edges(path[k])
    /\ \/ \E k \in 1..(Len(path) - 1) : path[k] = path[Len(path)]
       \/ \E m \in 2..Len(st) : st[m].reg = path[Len(path)]

ToCatch(q, v) == Maybe(q) /\ v = Missing(q.name)

Founded(q, v, st) ==
    /\ ~Provided(q) /\ ~ToCatch(q, v)
    /\ v.kind = "missing" => GapBelow(q, v.name) /\ NotOn(One(v.name), st)
    /\ v.kind = "cycle" => v = [kind |-> "cycle", path |-> v.path] /\ Cyclic(v.path, q, st)

Raised(st, v) ==
    LET f == st[Len(st)]
    IN  /\ v.kind \in Errors
        /\ \/ v.kind = "failed"
           \/ Asks(f) /\ ToCatch(Request(f), v) /\ Provided(Request(f))
           \/ Asks(f) /\ Founded(Request(f), v, st)

FlowOK(st, fl, v) ==
    /\ fl = "run" => Before(st[Len(st)], st[Len(st)].item + 1)
    /\ fl = "return" => Returned(st, v)
    /\ fl = "raise" => Raised(st, v)

\* What the answer to a request must be.
Answers(q, v) ==
    /\ v.kind \notin Errors => Buildable(q)
    /\ Buildable(q) /\ v.kind \in Errors => v.kind = "failed"
    /\ v.kind = "object" => v.reg \in Needs(q)
    /\ v.kind = "cycle" => RealCycle(v.path, q)
    /\ v.kind = "missing" => GapBelow(q, v.name)

\* A name stands for one registration, and none is made once something was asked for.
Distinct ==
    \A i, j \in accepted :
        ~wiring[i].all /\ ~wiring[j].all /\ wiring[i].name = wiring[j].name => i = j

Untouched == ~frozen => stack = <<>> /\ asked = NotSet /\ lazies = {} /\ \A i \in Regs : obj[i] = NotSet

\* The objects and arguments that are kept are right for any later request.
ObjectsOK == \A i \in Regs : obj[i] # NotSet => SoundParams(i) /\ Gives(i, obj[i])

LazyRequest(l) == [shape |-> "one", name |-> l.name, used |-> TRUE]

LaziesOK ==
    \A l \in lazies :
        /\ l = [owner |-> l.owner, at |-> l.at, name |-> l.name, value |-> l.value]
        /\ l.name \in STRING
        /\ l.value # NotSet => Provided(LazyRequest(l)) /\ Fits(LazyRequest(l), l.value)

FirstOK ==
    Len(stack) > 0 =>
        /\ stack[1].request = asked /\ asked \in Requests /\ asked.shape # "opaque"
        /\ stack[1].lazy # NotSet => stack[1].lazy \in lazies /\ asked = LazyRequest(stack[1].lazy)

AInv ==
    /\ Distinct /\ Untouched /\ ObjectsOK /\ LaziesOK /\ FirstOK
    /\ Len(stack) > 0 => CallsOK(stack) /\ FlowOK(stack, flow, val)
    /\ flow = "idle" /\ asked # NotSet => Answers(asked, val)

-----------------------------------------------------------------------------
\* What is needed, directly or not.
LEMMA AreRegs ==
  ASSUME RegistryOK
  PROVE  /\ \A name : One(name) \subseteq Regs /\ Elements(name) \subseteq Regs
         /\ \A q : Needs(q) \subseteq Regs
         /\ \A i : Edges(i) \subseteq Regs
         /\ \A i \in Regs : i \in Nat /\ i > 0
  <1>1. \A name : One(name) \subseteq Regs /\ Elements(name) \subseteq Regs
    BY DEF RegistryOK, One, Elements
  <1>2. \A q : Needs(q) \subseteq Regs
    BY <1>1 DEF Needs
  <1>3. \A i : Edges(i) \subseteq Regs
    BY <1>2 DEF Edges
  <1>4. \A i \in Regs : i \in Nat /\ i > 0
    BY WiringsAssumption DEF RegistryOK, Regs
  <1> QED
    BY <1>1, <1>2, <1>3, <1>4

LEMMA ClosureIs ==
  ASSUME RegistryOK, NEW S \in SUBSET Regs
  PROVE  /\ S \subseteq Closure(S) /\ Closure(S) \in SUBSET Regs /\ Closed(Closure(S))
         /\ \A C \in SUBSET Regs : S \subseteq C /\ Closed(C) => Closure(S) \subseteq C
  <1>1. S \subseteq Closure(S) /\ Closure(S) \in SUBSET Regs
    BY DEF Closure
  <1>2. \A C \in SUBSET Regs : S \subseteq C /\ Closed(C) => Closure(S) \subseteq C
    BY DEF Closure
  <1>3. ASSUME NEW j \in Closure(S), NEW i \in Edges(j) PROVE i \in Closure(S)
    <2>1. i \in Regs
      BY <1>3, AreRegs
    <2>2. ASSUME NEW C \in SUBSET Regs, S \subseteq C, Closed(C) PROVE i \in C
      <3>1. j \in C
        BY <1>2, <1>3, <2>2
      <3> QED
        BY <1>3, <2>2, <3>1 DEF Closed
    <2> QED
      BY <2>1, <2>2 DEF Closure
  <1> QED
    BY <1>1, <1>2, <1>3 DEF Closed

\* What a member of a closure needs is in it.
LEMMA ClosureOf ==
  ASSUME RegistryOK, NEW S \in SUBSET Regs, NEW T, T \subseteq Closure(S)
  PROVE  Closure(T) \subseteq Closure(S)
  <1>1. Closure(S) \in SUBSET Regs /\ Closed(Closure(S))
    BY ClosureIs
  <1>2. T \in SUBSET Regs
    BY <1>1
  <1> QED
    BY <1>1, <1>2, ClosureIs

\* A registration can be built if its parameters can and it makes what it should.
LEMMA FaultlessIs ==
  ASSUME RegistryOK, NEW i \in Regs
  PROVE  Faultless(i) <=> SoundParams(i) /\ wiring[i].makes # "alien"
  <1>1. {i} \in SUBSET Regs /\ Edges(i) \in SUBSET Regs
    BY AreRegs
  <1>2. i \in Closure({i}) /\ Closed(Closure({i})) /\ Closure({i}) \in SUBSET Regs
    BY <1>1, ClosureIs
  <1>3. Edges(i) \subseteq Closure({i})
    BY <1>2 DEF Closed
  <1>4. ASSUME Faultless(i) PROVE SoundParams(i) /\ wiring[i].makes # "alien"
    <2>1. ~Faults(i)
      BY <1>2, <1>4 DEF Faultless
    <2>2. ASSUME NEW q \in ParamsOf(i) PROVE Provided(q)
      <3>1. ~Gap(q) /\ ~(q.shape = "opaque" /\ q.used)
        BY <2>1, <2>2 DEF Faults
      <3>2. ASSUME NEW j \in Needs(q) PROVE Faultless(j)
        <4>1. j \in Edges(i)
          BY <2>2, <3>2 DEF Edges
        <4>2. Closure({j}) \subseteq Closure({i})
          BY <1>1, <1>3, <4>1, ClosureOf
        <4> QED
          BY <1>4, <4>2 DEF Faultless
      <3> QED
        BY <3>1, <3>2 DEF Provided
    <2> QED
      BY <2>1, <2>2 DEF SoundParams, Faults
  <1>5. ASSUME SoundParams(i), wiring[i].makes # "alien" PROVE Faultless(i)
    <2> DEFINE C == {j \in Regs : Faultless(j)}
    <2>1. C \in SUBSET Regs
      OBVIOUS
    <2>2. Edges(i) \subseteq C
      <3>1. ASSUME NEW j \in Edges(i) PROVE Faultless(j)
        <4>1. PICK q \in ParamsOf(i) : j \in Needs(q)
          BY <3>1 DEF Edges
        <4> QED
          BY <1>5, <4>1 DEF SoundParams, Provided
      <3> QED
        BY <1>1, <3>1
    <2>3. Closed(C)
      <3>1. ASSUME NEW j \in C, NEW k \in Edges(j) PROVE k \in C
        <4>1. {j} \in SUBSET Regs /\ k \in Regs
          BY <3>1, AreRegs
        <4>2. j \in Closure({j}) /\ Closed(Closure({j}))
          BY <4>1, ClosureIs
        <4>3. {k} \subseteq Closure({j})
          BY <3>1, <4>2 DEF Closed
        <4>4. Closure({k}) \subseteq Closure({j})
          BY <4>1, <4>3, ClosureOf
        <4> QED
          BY <3>1, <4>1, <4>4 DEF Faultless
      <3> QED
        BY <3>1 DEF Closed
    <2>4. Closure(Edges(i)) \subseteq C
      BY <1>1, <2>1, <2>2, <2>3, ClosureIs
    <2>5. CASE i \in Closure(Edges(i))
      BY <2>4, <2>5
    <2>6. CASE i \notin Closure(Edges(i))
      <3>1. ~Faults(i)
        BY <1>5, <2>6 DEF Faults, SoundParams, Provided
      <3> DEFINE D == {i} \cup Closure(Edges(i))
      <3>2. D \in SUBSET Regs /\ {i} \subseteq D /\ Closed(D)
        <4>1. Edges(i) \subseteq Closure(Edges(i)) /\ Closed(Closure(Edges(i))) /\ Closure(Edges(i)) \in SUBSET Regs
          BY <1>1, ClosureIs
        <4> QED
          BY <1>1, <4>1 DEF Closed
      <3>3. Closure({i}) \subseteq D
        BY <1>1, <3>2, ClosureIs
      <3>4. ASSUME NEW j \in Closure(Edges(i)) PROVE ~Faults(j)
        <4>1. j \in Regs /\ Faultless(j)
          BY <2>4, <3>4
        <4>2. {j} \in SUBSET Regs
          BY <4>1
        <4>3. j \in Closure({j})
          BY <4>2, ClosureIs
        <4> QED
          BY <4>1, <4>3 DEF Faultless
      <3> QED
        BY <3>1, <3>3, <3>4 DEF Faultless
    <2> QED
      BY <2>5, <2>6
  <1> QED
    BY <1>4, <1>5

LEMMA SoundIs ==
  ASSUME RegistryOK, NEW q, q.shape # "opaque"
  PROVE  Provided(q) <=> Buildable(q)
  <1>1. Needs(q) \in SUBSET Regs
    BY AreRegs
  <1>2. /\ Needs(q) \subseteq Closure(Needs(q)) /\ Closed(Closure(Needs(q)))
        /\ Closure(Needs(q)) \in SUBSET Regs
    BY <1>1, ClosureIs
  <1>3. ASSUME \A i \in Needs(q) : Faultless(i) PROVE \A i \in Closure(Needs(q)) : ~Faults(i)
    <2> DEFINE C == UNION {Closure({i}) : i \in Needs(q)}
    <2>1. \A i \in Needs(q) : i \in Closure({i}) /\ Closed(Closure({i})) /\ Closure({i}) \in SUBSET Regs
      <3> TAKE i \in Needs(q)
      <3>1. {i} \in SUBSET Regs
        BY <1>1
      <3> QED
        BY <3>1, ClosureIs
    <2>2. C \in SUBSET Regs /\ Needs(q) \subseteq C
      BY <2>1
    <2>3. Closed(C)
      BY <2>1 DEF Closed
    <2>4. Closure(Needs(q)) \subseteq C
      BY <1>1, <2>2, <2>3, ClosureIs
    <2> QED
      BY <1>3, <2>4 DEF Faultless
  <1>4. ASSUME \A i \in Closure(Needs(q)) : ~Faults(i), NEW i \in Needs(q) PROVE Faultless(i)
    <2>1. {i} \subseteq Closure(Needs(q))
      BY <1>2, <1>4
    <2>2. Closure({i}) \subseteq Closure(Needs(q))
      BY <1>1, <2>1, ClosureOf
    <2> QED
      BY <1>4, <2>2 DEF Faultless
  <1> QED
    BY <1>3, <1>4 DEF Provided, Buildable

\* A registration that comes to itself cannot be built.
LEMMA CycleFaults ==
  ASSUME RegistryOK, NEW i \in Regs, i \in Closure(Edges(i))
  PROVE  ~Faultless(i)
  <1>1. {i} \in SUBSET Regs
    OBVIOUS
  <1>2. i \in Closure({i})
    BY <1>1, ClosureIs
  <1> QED
    BY <1>2 DEF Faultless, Faults

\* What a parameter lacks, the registration lacks, and whoever needs that.
LEMMA BelowIs ==
  ASSUME RegistryOK, NEW q, NEW i \in Needs(q), NEW p \in ParamsOf(i), NEW name, GapBelow(p, name)
  PROVE  GapBelow(q, name)
  <1>1. Needs(q) \in SUBSET Regs /\ Needs(p) \in SUBSET Regs
    BY AreRegs
  <1>2. Needs(q) \subseteq Closure(Needs(q)) /\ Closed(Closure(Needs(q)))
    BY <1>1, ClosureIs
  <1>3. Needs(p) \subseteq Edges(i)
    BY DEF Edges
  <1>4. Needs(p) \subseteq Closure(Needs(q))
    BY <1>2, <1>3 DEF Closed
  <1>5. Closure(Needs(p)) \subseteq Closure(Needs(q))
    BY <1>1, <1>4, ClosureOf
  <1> QED
    BY <1>2, <1>5 DEF GapBelow

-----------------------------------------------------------------------------
\* What the operations on the stack keep of the calls on it.
LEMMA AreCallFields ==
  /\ "reg" \in CallFields /\ "at" \in CallFields /\ "args" \in CallFields /\ "items" \in CallFields
  /\ "item" \in CallFields /\ "request" \in CallFields /\ "lazy" \in CallFields
  BY DEF CallFields

LEMMA ParamsAre ==
  ASSUME RegistryOK, NEW i \in Regs
  PROVE  /\ wiring[i].params \in Seq(Requests)
         /\ wiring[i].makes \in {"object", "none", "alien"}
         /\ wiring[i].all \in BOOLEAN /\ wiring[i].singleton \in BOOLEAN
  <1>1. wiring[i] \in Registrations
    BY WiringsAssumption DEF RegistryOK, Regs
  <1> QED
    BY <1>1 DEF Registrations

\* What the call of a registration asks for is among its parameters.
LEMMA AsksParams ==
  ASSUME RegistryOK, NEW f, CallOK(f), Asks(f)
  PROVE  /\ f.at \in Nat /\ f.at >= 1 /\ Request(f) \in Requests
         /\ f.reg \in Regs => Request(f) \in ParamsOf(f.reg) /\ Needs(Request(f)) \subseteq Edges(f.reg)
  <1>1. Params(f) \in Seq(Requests) /\ f.at \in 1..(Len(Params(f)) + 1) /\ f.at <= Len(Params(f))
    BY DEF CallOK, Asks
  <1>2. f.at \in DOMAIN Params(f)
    BY <1>1
  <1>3. Request(f) \in Requests
    BY <1>1, <1>2 DEF Request
  <1>4. ASSUME f.reg \in Regs PROVE Request(f) \in ParamsOf(f.reg)
    <2>1. Params(f) = wiring[f.reg].params
      BY <1>4, AreRegs DEF Params
    <2> QED
      BY <1>2, <2>1 DEF ParamsOf, Request
  <1> QED
    BY <1>1, <1>2, <1>3, <1>4 DEF Edges

LEMMA PushCalls ==
  ASSUME RegistryOK, NEW S, NEW st \in Seq(S), Len(st) > 0, CallsOK(st),
         NEW i \in Regs, IsFor(i, st[Len(st)]), NEW new, new = Append(st, Frame(i, NotSet, NotSet))
  PROVE  CallsOK(new) /\ FlowOK(new, "run", NotSet) /\ new[1] = st[1]
  <1> DEFINE e == Frame(i, NotSet, NotSet)
             n == Len(st)
  <1>1. e.reg = i /\ e.at = 1 /\ e.args = <<>> /\ e.item = 0 /\ IsCall(e)
    BY DEF Frame, IsCall, CallFields
  <1> HIDE DEF e
  <1>2. /\ Len(new) = n + 1 /\ new[n + 1] = e /\ \A k \in 1..n : new[k] = st[k]
    BY Pushed DEF e
  <1>3. n \in Nat /\ n > 0 /\ i \in Nat /\ i > 0
    BY AreRegs
  <1> HIDE DEF n
  <1>4. Params(e) = wiring[i].params
    BY <1>1, <1>3 DEF Params
  <1>5. CallOK(e)
    <2>1. Params(e) \in Seq(Requests)
      BY <1>4, ParamsAre
    <2>2. Stacked(e.args) /\ Len(e.args) = 0
      <3>1. e.args \in Seq({}) /\ Len(e.args) = 0
        BY <1>1
      <3> QED
        BY <3>1 DEF Stacked
    <2>3. Before(e, 0)
      BY AreRegs DEF Before
    <2>4. e.at \in 1..(Len(Params(e)) + 1)
      BY <1>1, <2>1
    <2> QED
      BY <1>1, <1>3, <2>1, <2>2, <2>3, <2>4 DEF CallOK
  <1>6. Before(e, 0 + 1)
    BY AreRegs DEF Before
  <1>7. ASSUME NEW k \in 2..n PROVE st[k].reg \in Regs
    BY AreRegs, <1>7 DEF CallsOK, IsFor, n
  <1>8. ASSUME NEW k \in 2..n PROVE i \in Closure(Edges(st[k].reg))
    <2>1. n \in 2..n /\ n \in 1..n
      BY <1>3, <1>8
    <2>2. st[n].reg \in Regs
      BY <1>7, <2>1
    <2>3. i \in Edges(st[n].reg)
      BY <2>1, <2>2, AsksParams DEF CallsOK, IsFor, n
    <2>4. /\ Edges(st[k].reg) \in SUBSET Regs
          /\ Edges(st[k].reg) \subseteq Closure(Edges(st[k].reg)) /\ Closed(Closure(Edges(st[k].reg)))
      <3>1. Edges(st[k].reg) \in SUBSET Regs
        BY AreRegs
      <3> QED
        BY <3>1, ClosureIs
    <2>5. CASE k = n
      BY <2>3, <2>4, <2>5
    <2>6. CASE k # n
      <3>1. k \in 2..(n - 1)
        BY <1>3, <1>8, <2>6
      <3>2. st[n].reg \in Closure(Edges(st[k].reg))
        BY <2>1, <3>1 DEF CallsOK, n
      <3> QED
        BY <2>3, <2>4, <3>2 DEF Closed
    <2> QED
      BY <2>5, <2>6
  <1>9. CallsOK(new)
    <2>1. ASSUME NEW k \in 1..(n + 1) PROVE CallOK(new[k])
      <3>1. k \in 1..n \/ k = n + 1
        BY <1>3
      <3> QED
        BY <1>2, <1>5, <3>1 DEF CallsOK, n
    <2>2. ASSUME NEW k \in 2..(n + 1) PROVE IsFor(new[k].reg, new[k - 1])
      <3>1. CASE k \in 2..n
        <4>1. k \in 1..n /\ k - 1 \in 1..n
          BY <3>1, <1>3
        <4> QED
          BY <1>2, <3>1, <4>1 DEF CallsOK, n
      <3>2. CASE k = n + 1
        <4>1. k - 1 = n /\ n \in 1..n
          BY <1>3, <3>2
        <4> QED
          BY <1>1, <1>2, <3>2, <4>1 DEF n
      <3>3. k \in 2..n \/ k = n + 1
        BY <1>3
      <3> QED
        BY <3>1, <3>2, <3>3
    <2>3. ASSUME NEW m \in 2..(n + 1), NEW k \in 2..(m - 1) PROVE new[m].reg \in Closure(Edges(new[k].reg))
      <3>1. k \in 1..n /\ k \in 2..n
        BY <1>3
      <3>2. CASE m \in 2..n
        <4>1. m \in 1..n
          BY <1>3, <3>2
        <4> QED
          BY <1>2, <3>1, <3>2, <4>1 DEF CallsOK, n
      <3>3. CASE m = n + 1
        BY <1>1, <1>2, <1>8, <3>1, <3>3
      <3>4. m \in 2..n \/ m = n + 1
        BY <1>3
      <3> QED
        BY <3>2, <3>3, <3>4
    <2> QED
      BY <1>2, <2>1, <2>2, <2>3 DEF CallsOK
  <1>10. FlowOK(new, "run", NotSet)
    BY <1>1, <1>2, <1>6 DEF FlowOK
  <1>11. new[1] = st[1]
    <2>1. 1 \in 1..n
      BY <1>3
    <2> QED
      BY <1>2, <2>1
  <1> QED
    BY <1>9, <1>10, <1>11

\* The calls of st with another last one.
WithTop(st, f) == [st EXCEPT ![Len(st)] = f]

LEMMA TopCalls ==
  ASSUME NEW S, NEW st \in Seq(S), Len(st) > 0, CallsOK(st),
         NEW f, CallOK(f), f.reg = st[Len(st)].reg
  PROVE  /\ CallsOK(WithTop(st, f)) /\ Len(WithTop(st, f)) = Len(st) /\ WithTop(st, f)[Len(st)] = f
         /\ \A k \in 1..Len(st) : k # Len(st) => WithTop(st, f)[k] = st[k]
  <1> DEFINE n == Len(st)
             new == WithTop(st, f)
  <1>1. n \in Nat /\ n > 0 /\ n \in 1..n
    OBVIOUS
  <1>2. Len(new) = n /\ new[n] = f /\ \A k \in 1..n : k # n => new[k] = st[k]
    BY <1>1, Replaced DEF WithTop
  <1> HIDE DEF n, new
  <1>3. \A k \in 1..n : new[k].reg = st[k].reg
    BY <1>2 DEF n
  <1>4. \A k \in 1..n : CallOK(new[k])
    BY <1>2 DEF CallsOK, n
  <1>5. ASSUME NEW k \in 2..n PROVE IsFor(new[k].reg, new[k - 1])
    <2>1. k \in 1..n /\ k - 1 \in 1..n /\ k - 1 # n
      BY <1>1
    <2> QED
      BY <1>2, <1>3, <2>1 DEF CallsOK, n
  <1>6. ASSUME NEW m \in 2..n, NEW k \in 2..(m - 1) PROVE new[m].reg \in Closure(Edges(new[k].reg))
    <2>1. k \in 1..n /\ m \in 1..n
      BY <1>1
    <2> QED
      BY <1>3, <2>1 DEF CallsOK, n
  <1>7. CallsOK(new)
    BY <1>2, <1>4, <1>5, <1>6 DEF CallsOK
  <1> QED
    BY <1>2, <1>7 DEF n, new

LEMMA PopCalls ==
  ASSUME NEW S, NEW st \in Seq(S), Len(st) > 1, CallsOK(st),
         NEW new, new = SubSeq(st, 1, Len(st) - 1)
  PROVE  /\ CallsOK(new) /\ Len(new) = Len(st) - 1 /\ IsFor(st[Len(st)].reg, new[Len(new)])
         /\ \A k \in 1..Len(new) : new[k] = st[k]
  <1> DEFINE n == Len(st)
  <1>1. n \in Nat /\ n > 1 /\ n \in 2..n /\ n - 1 \in 1..(n - 1)
    OBVIOUS
  <1>2. Len(new) = n - 1 /\ \A k \in 1..(n - 1) : new[k] = st[k]
    BY Popped
  <1> HIDE DEF n
  <1>3. IsFor(st[n].reg, new[n - 1])
    BY <1>1, <1>2 DEF CallsOK, n
  <1>4. ASSUME NEW k \in 1..(n - 1) PROVE CallOK(new[k])
    <2>1. k \in 1..n
      BY <1>1
    <2> QED
      BY <1>2, <2>1 DEF CallsOK, n
  <1>5. ASSUME NEW k \in 2..(n - 1) PROVE IsFor(new[k].reg, new[k - 1])
    <2>1. k \in 2..n /\ k \in 1..(n - 1) /\ k - 1 \in 1..(n - 1)
      BY <1>1
    <2> QED
      BY <1>2, <2>1 DEF CallsOK, n
  <1>6. ASSUME NEW m \in 2..(n - 1), NEW k \in 2..(m - 1) PROVE new[m].reg \in Closure(Edges(new[k].reg))
    <2>1. m \in 2..n /\ m \in 1..(n - 1) /\ k \in 1..(n - 1)
      BY <1>1
    <2> QED
      BY <1>2, <2>1 DEF CallsOK, n
  <1> QED
    BY <1>2, <1>3, <1>4, <1>5, <1>6 DEF CallsOK, n

\* A call that has got an argument that fits goes on to what it asks for next.
GoneOn(f, arg) == [f EXCEPT !.at = @ + 1, !.args = Append(@, arg), !.items = <<>>, !.item = 0]

LEMMA NextParam ==
  ASSUME RegistryOK, NEW f, CallOK(f), Asks(f), NEW arg, Provided(Request(f)), Fits(Request(f), arg),
         NEW g, g = GoneOn(f, arg)
  PROVE  CallOK(g) /\ g.reg = f.reg /\ g.request = f.request /\ g.lazy = f.lazy /\ Before(g, g.item + 1)
  <1> DEFINE n == f.at
             more == Append(f.args, arg)
             P == Params(f)
  <1>1. /\ IsCall(f) /\ f.reg \in Nat /\ P \in Seq(Requests) /\ n \in 1..(Len(P) + 1) /\ n <= Len(P)
        /\ Stacked(f.args) /\ Len(f.args) = n - 1
        /\ \A k \in 1..(n - 1) : Provided(P[k]) /\ Fits(P[k], f.args[k])
    BY DEF CallOK, Asks
  <1> HIDE DEF n
  <1>2. g = [f EXCEPT !.at = n + 1, !.args = more, !.items = <<>>, !.item = 0]
    BY DEF n, GoneOn
  <1> HIDE DEF more
  <1>3. /\ IsCall(g) /\ g.at = n + 1 /\ g.args = more /\ g.item = 0
        /\ g.reg = f.reg /\ g.request = f.request /\ g.lazy = f.lazy
    BY <1>1, <1>2, AreCallFields DEF IsCall
  <1>4. Params(g) = P
    BY <1>3 DEF Params
  <1>5. Len(P) \in Nat /\ n \in Nat
    BY <1>1
  <1> HIDE DEF P
  <1>6. PICK S : f.args \in Seq(S)
    BY <1>1 DEF Stacked
  <1>7. /\ more \in Seq(S \cup {arg}) /\ Len(more) = n - 1 + 1 /\ more[n - 1 + 1] = arg
        /\ \A k \in 1..(n - 1) : more[k] = f.args[k]
    <2> DEFINE a == f.args
    <2>1. a \in Seq(S) /\ Len(a) = n - 1
      BY <1>1, <1>6
    <2> HIDE DEF a
    <2>2. /\ Append(a, arg) \in Seq(S \cup {arg}) /\ Len(Append(a, arg)) = Len(a) + 1
          /\ Append(a, arg)[Len(a) + 1] = arg /\ \A k \in 1..Len(a) : Append(a, arg)[k] = a[k]
      BY <2>1, Pushed
    <2> QED
      BY <2>1, <2>2 DEF more, a
  <1>8. n - 1 + 1 = n /\ (n + 1) - 1 = n /\ n + 1 \in 1..(Len(P) + 1)
    BY <1>1, <1>5
  <1>9. ASSUME NEW k \in 1..n PROVE Provided(P[k]) /\ Fits(P[k], more[k])
    <2>1. CASE k = n
      BY <1>7, <1>8, <2>1 DEF Request, P, n
    <2>2. CASE k # n
      <3>1. k \in 1..(n - 1)
        BY <1>5, <2>2
      <3> QED
        BY <1>1, <1>7, <3>1
    <2> QED
      BY <2>1, <2>2
  <1>10. Before(g, 0) /\ Before(g, 0 + 1)
    BY AreRegs DEF Before
  <1>11. Stacked(more)
    BY <1>7 DEF Stacked
  <1>12. g.at \in 1..(Len(Params(g)) + 1) /\ Len(g.args) = g.at - 1
    BY <1>3, <1>4, <1>7, <1>8
  <1>13. \A k \in 1..(g.at - 1) : Provided(Params(g)[k]) /\ Fits(Params(g)[k], g.args[k])
    BY <1>3, <1>4, <1>8, <1>9
  <1>14. IsCall(g) /\ g.reg \in Nat /\ Stacked(g.args) /\ g.item \in Nat
    <2>1. g.reg \in Nat /\ g.item \in Nat
      BY <1>1, <1>3
    <2>2. Stacked(g.args)
      BY <1>3, <1>11
    <2> QED
      BY <1>3, <2>1, <2>2
  <1>15. Params(g) \in Seq(Requests)
    BY <1>1, <1>4
  <1>16. Before(g, g.item)
    BY <1>3, <1>10
  <1>17. CallOK(g)
    BY <1>12, <1>13, <1>14, <1>15, <1>16 DEF CallOK
  <1> QED
    BY <1>3, <1>10, <1>17

-----------------------------------------------------------------------------
\* While the registrations stay, so does what is said of them.
LEMMA Meaning ==
  ASSUME UNCHANGED <<wiring, accepted>>
  PROVE  /\ Regs' = Regs /\ \A q : Needs(q)' = Needs(q) /\ (Provided(q)' <=> Provided(q))
         /\ \A i, v : (SoundParams(i)' <=> SoundParams(i)) /\ (Gives(i, v)' <=> Gives(i, v))
         /\ \A q, v : (Fits(q, v)' <=> Fits(q, v)) /\ (Answers(q, v)' <=> Answers(q, v))
         /\ \A st : CallsOK(st)' <=> CallsOK(st)
         /\ \A st, fl, v : FlowOK(st, fl, v)' <=> FlowOK(st, fl, v)
  <1>1. Regs' = Regs /\ \A name : One(name)' = One(name) /\ Elements(name)' = Elements(name)
    BY DEF Regs, One, Elements
  <1>2. \A q : Needs(q)' = Needs(q) /\ (Gap(q)' <=> Gap(q))
    BY <1>1 DEF Needs, Gap, Maybe
  <1>3. \A i : ParamsOf(i)' = ParamsOf(i)
    BY DEF ParamsOf
  <1>4. \A i : Edges(i)' = Edges(i)
    BY <1>2, <1>3 DEF Edges
  <1>5. \A C : Closed(C)' <=> Closed(C)
    BY <1>4 DEF Closed
  <1>6. \A S : Closure(S)' = Closure(S)
    BY <1>1, <1>5 DEF Closure
  <1>7. \A i : Faults(i)' <=> Faults(i)
    BY <1>2, <1>3, <1>4, <1>6 DEF Faults
  <1>8. \A i : Faultless(i)' <=> Faultless(i)
    BY <1>6, <1>7 DEF Faultless
  <1>9. \A q : (Provided(q)' <=> Provided(q)) /\ (Buildable(q)' <=> Buildable(q))
    BY <1>2, <1>6, <1>7, <1>8 DEF Provided, Buildable
  <1>10. \A i : SoundParams(i)' <=> SoundParams(i)
    BY <1>3, <1>9 DEF SoundParams
  <1>11. \A i, v : Gives(i, v)' <=> Gives(i, v)
    BY DEF Gives
  <1>12. \A q, v : Fits(q, v)' <=> Fits(q, v)
    BY <1>2 DEF Fits, Maybe
  <1>13. \A q, name : GapBelow(q, name)' <=> GapBelow(q, name)
    BY <1>2, <1>3, <1>6 DEF GapBelow
  <1>14. \A f : Params(f)' = Params(f) /\ (Asks(f)' <=> Asks(f)) /\ Request(f)' = Request(f)
    BY DEF Params, Asks, Request
  <1>15. \A f, n : Before(f, n)' <=> Before(f, n)
    BY <1>1, <1>8, <1>14 DEF Before
  <1>16. \A f : CallOK(f)' <=> CallOK(f)
    BY <1>9, <1>12, <1>14, <1>15 DEF CallOK, IsCall
  <1>17. \A i, f : IsFor(i, f)' <=> IsFor(i, f)
    BY <1>2, <1>14 DEF IsFor
  <1>18. \A st : CallsOK(st)' <=> CallsOK(st)
    BY <1>4, <1>6, <1>16, <1>17 DEF CallsOK
  <1>19. \A st, v : Returned(st, v)' <=> Returned(st, v)
    BY <1>1, <1>8, <1>11, <1>17 DEF Returned, NotOn
  <1>20. \A path, q, st : Cyclic(path, q, st)' <=> Cyclic(path, q, st)
    BY <1>1, <1>2, <1>4 DEF Cyclic
  <1>21. \A q, v, st : Founded(q, v, st)' <=> Founded(q, v, st)
    BY <1>1, <1>9, <1>13, <1>20 DEF Founded, ToCatch, Maybe, NotOn
  <1>22. \A st, v : Raised(st, v)' <=> Raised(st, v)
    BY <1>9, <1>14, <1>21 DEF Raised, ToCatch, Maybe
  <1>23. \A st, fl, v : FlowOK(st, fl, v)' <=> FlowOK(st, fl, v)
    BY <1>15, <1>19, <1>22 DEF FlowOK
  <1>24. \A path, q : RealCycle(path, q)' <=> RealCycle(path, q)
    BY <1>2, <1>4 DEF RealCycle
  <1>25. \A q, v : Answers(q, v)' <=> Answers(q, v)
    BY <1>2, <1>9, <1>13, <1>24 DEF Answers
  <1> QED
    BY <1>1, <1>2, <1>9, <1>10, <1>11, <1>12, <1>18, <1>23, <1>25

\* A step of a request under way: what is kept is kept right, and so are the calls.
LEMMA During ==
  ASSUME AInv, UNCHANGED <<wiring, accepted, asked>>, Len(stack) > 0, frozen' = frozen,
         flow' # "idle", stack'[1].request = stack[1].request, stack'[1].lazy = stack[1].lazy,
         ObjectsOK', LaziesOK', lazies \subseteq lazies', CallsOK(stack'), FlowOK(stack', flow', val')
  PROVE  AInv'
  <1>1. Distinct'
    BY DEF AInv, Distinct
  <1>2. frozen'
    <2>1. stack # <<>>
      OBVIOUS
    <2> QED
      BY <2>1 DEF AInv, Untouched
  <1>3. Untouched'
    BY <1>2 DEF Untouched
  <1>4. FirstOK'
    BY DEF AInv, FirstOK, LazyRequest
  <1>5. CallsOK(stack)' /\ FlowOK(stack, flow, val)'
    BY Meaning
  <1> QED
    BY <1>1, <1>3, <1>4, <1>5 DEF AInv

\* One that changes nothing but the calls.
LEMMA DuringCalls ==
  ASSUME AInv, UNCHANGED <<wiring, accepted, asked, obj, lazies>>, Len(stack) > 0, frozen' = frozen,
         flow' # "idle", stack'[1].request = stack[1].request, stack'[1].lazy = stack[1].lazy,
         CallsOK(stack'), FlowOK(stack', flow', val')
  PROVE  AInv'
  <1>1. ObjectsOK'
    BY Meaning DEF AInv, ObjectsOK
  <1>2. LaziesOK'
    BY Meaning DEF AInv, LaziesOK, LazyRequest
  <1> QED
    BY <1>1, <1>2, During

-----------------------------------------------------------------------------
\* The steps of a request.
LEMMA TopIs ==
  ASSUME IInv, AInv, Len(stack) > 0
  PROVE  /\ CallOK(Top) /\ CallsOK(stack) /\ FlowOK(stack, flow, val) /\ stack[Len(stack)] = Top
         /\ RegistryOK /\ Len(stack) \in Nat /\ Len(stack) \in 1..Len(stack)
         /\ \E S : stack \in Seq(S)
  <1>1. CallsOK(stack) /\ FlowOK(stack, flow, val) /\ Len(stack) \in Nat /\ RegistryOK
    BY DEF AInv, IInv, StackOK
  <1>2. Len(stack) \in 1..Len(stack)
    BY <1>1
  <1> QED
    BY <1>1, <1>2 DEF CallsOK, Top, Depth, IInv, Stacked

LEMMA EnterAnswers ==
  ASSUME IInv, AInv, Len(stack) > 0, NEW S, NEW st \in Seq(S), SameCalls(st), CallsOK(st),
         st[1].request = stack[1].request, st[1].lazy = stack[1].lazy,
         NEW i \in Regs, IsFor(i, st[Len(st)]), Enter(st, i),
         UNCHANGED <<wiring, accepted, asked, obj, lazies, frozen>>
  PROVE  AInv'
  <1> DEFINE f == st[Len(st)]
             q == Request(f)
  <1>1. /\ Len(st) = Len(stack) /\ Len(stack) \in Nat /\ RegistryOK
        /\ \A k \in 1..Len(stack) : st[k].reg = stack[k].reg
    BY DEF SameCalls, IInv, StackOK
  <1>2. Asks(f) /\ i \in Needs(q)
    BY DEF IsFor
  <1>3. CASE obj[i] = NotSet /\ ~inCall[i]
    <2>1. stack' = Append(st, Frame(i, NotSet, NotSet)) /\ flow' = "run" /\ val' = NotSet
      BY <1>3 DEF Enter
    <2>2. CallsOK(stack') /\ FlowOK(stack', "run", NotSet) /\ stack'[1] = st[1]
      BY <1>1, <2>1, PushCalls
    <2> QED
      BY <2>1, <2>2, DuringCalls
  <1>4. CASE obj[i] = NotSet /\ inCall[i]
    <2> DEFINE v == [kind |-> "cycle", path |-> <<i>>]
    <2>1. stack' = st /\ flow' = "raise" /\ val' = v
      BY <1>4 DEF Enter, Raise
    <2>2. PICK m \in 1..Len(stack) : stack[m].reg = i
      BY <1>4 DEF IInv, MarkedExact
    <2>3. m \in 2..Len(st) /\ st[m].reg = i
      <3>1. stack[1].reg = 0
        BY DEF IInv, StackOK
      <3>2. i # 0
        BY <1>1, AreRegs
      <3> QED
        BY <1>1, <2>2, <3>1, <3>2
    <2>4. ~Faultless(i)
      <3>1. Edges(i) \in SUBSET Regs /\ Edges(i) \subseteq Closure(Edges(i)) /\ Closed(Closure(Edges(i)))
        <4>1. Edges(i) \in SUBSET Regs
          BY <1>1, AreRegs
        <4> QED
          BY <1>1, <4>1, ClosureIs
      <3>2. Len(st) \in 1..Len(st) /\ f.reg \in Regs
        <4>1. Len(st) \in 2..Len(st) /\ Len(st) \in 1..Len(st)
          BY <1>1, <2>3
        <4> QED
          BY <1>1, <4>1, AreRegs DEF CallsOK, IsFor
      <3>3. i \in Edges(f.reg)
        BY <1>1, <1>2, <3>2, AsksParams DEF CallsOK
      <3>4. i \in Closure(Edges(i))
        <4>1. CASE m = Len(st)
          BY <2>3, <3>1, <3>3, <4>1
        <4>2. CASE m # Len(st)
          <5>1. Len(st) \in 2..Len(st) /\ m \in 2..(Len(st) - 1)
            BY <1>1, <2>3, <4>2
          <5>2. f.reg \in Closure(Edges(i))
            BY <2>3, <5>1 DEF CallsOK
          <5> QED
            BY <3>1, <3>3, <5>2 DEF Closed
        <4> QED
          BY <4>1, <4>2
      <3> QED
        BY <1>1, <3>4, CycleFaults
    <2>5. Cyclic(<<i>>, q, st)
      <3>1. <<i>> \in Seq(Regs) /\ Len(<<i>>) = 1 /\ <<i>>[1] = i
        OBVIOUS
      <3> QED
        BY <1>2, <2>3, <3>1 DEF Cyclic
    <2>6. v.kind = "cycle" /\ v.path = <<i>> /\ v = [kind |-> "cycle", path |-> v.path]
      OBVIOUS
    <2>7. ~ToCatch(q, v)
      BY <2>6 DEF ToCatch, Missing
    <2> HIDE DEF v
    <2>8. Founded(q, v, st)
      BY <1>2, <2>4, <2>5, <2>6, <2>7 DEF Founded, Provided
    <2>9. FlowOK(st, "raise", v)
      BY <1>2, <2>6, <2>8 DEF FlowOK, Raised, Errors
    <2> QED
      BY <2>1, <2>9, DuringCalls
  <1>5. CASE obj[i] # NotSet
    <2>1. stack' = st /\ Typed(i, obj[i])
      BY <1>5 DEF Enter
    <2>2. SoundParams(i) /\ Gives(i, obj[i])
      BY <1>5 DEF AInv, ObjectsOK
    <2>3. CASE wiring[i].makes = "alien"
      <3> DEFINE v == Error("internal")
      <3>1. flow' = "raise" /\ val' = v
        BY <2>1, <2>3 DEF Typed, Raise
      <3>2. ~Faultless(i)
        BY <1>1, <2>3, FaultlessIs
      <3>3. v.kind = "internal"
        BY DEF Error
      <3>4. ~ToCatch(q, v)
        BY <3>3 DEF ToCatch, Missing
      <3> HIDE DEF v
      <3>5. Founded(q, v, st)
        BY <1>2, <3>2, <3>3, <3>4 DEF Founded, Provided
      <3>6. FlowOK(st, "raise", v)
        BY <1>2, <3>3, <3>5 DEF FlowOK, Raised, Errors
      <3> QED
        BY <2>1, <3>1, <3>6, DuringCalls
    <2>4. CASE wiring[i].makes # "alien"
      <3>1. flow' = "return" /\ val' = obj[i]
        BY <2>1, <2>4 DEF Typed, Return
      <3>2. Faultless(i)
        BY <1>1, <2>2, <2>4, FaultlessIs
      <3>3. ~inCall[i]
        BY <1>5 DEF IInv, Singles, MarkedExact
      <3>4. NotOn({i}, st)
        BY <1>1, <3>3 DEF IInv, MarkedExact, NotOn
      <3>5. FlowOK(st, "return", obj[i])
        BY <2>2, <3>2, <3>4 DEF FlowOK, Returned
      <3> QED
        BY <2>1, <3>1, <3>5, DuringCalls
    <2> QED
      BY <2>3, <2>4
  <1> QED
    BY <1>3, <1>4, <1>5

LEMMA ProceedAnswers ==
  ASSUME IInv, AInv, Len(stack) > 0, Asks(Top), NEW arg, Provided(Request(Top)), Fits(Request(Top), arg),
         Proceed(Top, arg), flow' = "run", UNCHANGED <<wiring, accepted, asked, obj, lazies, frozen>>
  PROVE  AInv'
  <1> DEFINE n == Len(stack)
             g == GoneOn(Top, arg)
  <1>1. /\ CallOK(Top) /\ CallsOK(stack) /\ stack[n] = Top /\ RegistryOK
        /\ n \in Nat /\ n \in 1..n /\ \E S : stack \in Seq(S)
    BY TopIs
  <1>2. PICK S : stack \in Seq(S)
    BY <1>1
  <1>3. stack' = WithTop(stack, g) /\ stack' = [stack EXCEPT ![n] = g]
    BY DEF Proceed, Depth, WithTop, GoneOn
  <1>4. CallOK(g) /\ g.reg = Top.reg /\ g.request = Top.request /\ g.lazy = Top.lazy /\ Before(g, g.item + 1)
    BY <1>1, NextParam
  <1> HIDE DEF g
  <1>5. CallsOK(stack') /\ Len(stack') = n /\ stack'[n] = g
    <2>1. g.reg = stack[Len(stack)].reg
      BY <1>1, <1>4
    <2>2. CallsOK(WithTop(stack, g)) /\ Len(WithTop(stack, g)) = n /\ WithTop(stack, g)[n] = g
      BY <1>1, <1>2, <1>4, <2>1, TopCalls
    <2> QED
      BY <1>3, <2>2
  <1>6. FlowOK(stack', flow', val')
    BY <1>4, <1>5 DEF FlowOK
  <1>7. stack'[1].request = stack[1].request /\ stack'[1].lazy = stack[1].lazy
    <2>1. 1 \in 1..n /\ (n # 1 => stack'[1] = stack[1])
      BY <1>1, <1>2, <1>3, Replaced
    <2> QED
      BY <1>1, <1>4, <1>5, <2>1
  <1> QED
    BY <1>5, <1>6, <1>7, DuringCalls

\* A step that leaves the calls alone.
LEMMA SameCallsAnswer ==
  ASSUME IInv, AInv, Len(stack) > 0, UNCHANGED <<wiring, accepted, asked, obj, lazies, frozen, stack>>,
         flow' # "idle", FlowOK(stack, flow', val')
  PROVE  AInv'
  BY TopIs, DuringCalls

\* A name that cannot be had, whether there is no registration or its provider returns none.
LEMMA MissingIsRaised ==
  ASSUME RegistryOK, NEW st, Len(st) > 0, NEW q, q = Request(st[Len(st)]), Asks(st[Len(st)]),
         q.used, q.shape \in Singular, NotOn(One(q.name), st),
         \A i \in One(q.name) : Faultless(i) /\ wiring[i].makes = "none"
  PROVE  FlowOK(st, "raise", Missing(q.name))
  <1> DEFINE v == Missing(q.name)
  <1>1. v.kind = "missing" /\ v.name = q.name
    BY DEF Missing
  <1>2. q.shape # "opaque" /\ Needs(q) = One(q.name)
    BY DEF Needs, Singular
  <1>3. CASE Maybe(q)
    <2>1. Provided(q)
      BY <1>2, <1>3 DEF Provided, Gap
    <2>2. ToCatch(q, v)
      BY <1>3 DEF ToCatch
    <2> HIDE DEF v
    <2>3. Raised(st, v)
      BY <1>1, <2>1, <2>2 DEF Raised, Errors
    <2> QED
      BY <2>3 DEF FlowOK, v
  <1>4. CASE ~Maybe(q)
    <2>1. Gap(q)
      BY <1>4 DEF Gap
    <2>2. ~Provided(q) /\ ~ToCatch(q, v)
      BY <1>4, <2>1 DEF Provided, ToCatch
    <2>3. GapBelow(q, q.name)
      BY <2>1 DEF GapBelow
    <2> HIDE DEF v
    <2>4. Founded(q, v, st)
      BY <1>1, <2>2, <2>3 DEF Founded
    <2>5. Raised(st, v)
      BY <1>1, <2>4 DEF Raised, Errors
    <2> QED
      BY <2>5 DEF FlowOK, v
  <1> QED
    BY <1>3, <1>4

LEMMA ResolveAnswers == ASSUME IInv, AInv, Resolve PROVE AInv'
  <1> DEFINE q == Request(Top)
  <1>1. /\ Len(stack) > 0 /\ Asks(Top) /\ q.shape \in Singular /\ q.used
        /\ UNCHANGED <<wiring, accepted, asked, obj, lazies, frozen>>
    BY Running DEF Resolve
  <1>2. CallsOK(stack) /\ RegistryOK /\ stack[Len(stack)] = Top /\ \E S : stack \in Seq(S)
    BY <1>1, TopIs
  <1>3. ASSUME NEW i \in One(q.name), Enter(stack, i) PROVE AInv'
    <2>1. i \in Regs
      BY <1>2, <1>3, AreRegs
    <2>2. IsFor(i, Top)
      BY <1>1, <1>3 DEF IsFor, Needs, Singular, Plural
    <2>3. SameCalls(stack)
      BY DEF SameCalls
    <2> QED
      BY <1>1, <1>2, <1>3, <2>1, <2>2, <2>3, EnterAnswers
  <1>4. CASE One(q.name) = {} /\ Raise(Missing(q.name)) /\ UNCHANGED <<stack, inCall>>
    <2>1. NotOn(One(q.name), stack)
      BY <1>4 DEF NotOn
    <2>2. FlowOK(stack, "raise", Missing(q.name))
      BY <1>1, <1>2, <1>4, <2>1, MissingIsRaised
    <2> QED
      BY <1>1, <1>4, <2>2, SameCallsAnswer DEF Raise
  <1> QED
    BY <1>3, <1>4 DEF Resolve

\* A call of a collection goes from one element to another.
AtItem(f, i) == [f EXCEPT !.item = i]

LEMMA AtItemIs ==
  ASSUME NEW f, CallOK(f), NEW i \in Nat, Before(f, i), NEW g, g = AtItem(f, i)
  PROVE  /\ CallOK(g) /\ g.item = i /\ g.reg = f.reg /\ g.request = f.request /\ g.lazy = f.lazy
         /\ Request(g) = Request(f) /\ (Asks(g) <=> Asks(f))
  <1>1. IsCall(f)
    BY DEF CallOK
  <1>2. /\ IsCall(g) /\ g.item = i /\ g.reg = f.reg /\ g.request = f.request /\ g.lazy = f.lazy
        /\ g.at = f.at /\ g.args = f.args
    BY <1>1, AreCallFields DEF IsCall, AtItem
  <1>3. Params(g) = Params(f)
    BY <1>2 DEF Params
  <1>4. Request(g) = Request(f) /\ (Asks(g) <=> Asks(f))
    BY <1>2, <1>3 DEF Request, Asks
  <1>5. Before(g, i)
    BY <1>4 DEF Before
  <1>6. CallOK(g)
    BY <1>2, <1>3, <1>5 DEF CallOK
  <1> QED
    BY <1>2, <1>4, <1>6

LEMMA ResolveElementAnswers == ASSUME IInv, AInv, ResolveElement PROVE AInv'
  <1> DEFINE q == Request(Top)
             rest == {i \in Elements(q.name) : i > Top.item}
             n == Len(stack)
  <1>1. /\ n > 0 /\ flow = "run" /\ Asks(Top) /\ q.shape \in Plural /\ q.used
        /\ UNCHANGED <<wiring, accepted, asked, obj, lazies, frozen>>
    BY Running DEF ResolveElement
  <1>2. /\ CallOK(Top) /\ CallsOK(stack) /\ FlowOK(stack, flow, val) /\ stack[n] = Top /\ RegistryOK
        /\ n \in Nat /\ n \in 1..n /\ \E S : stack \in Seq(S)
    BY <1>1, TopIs
  <1>3. PICK S : stack \in Seq(S)
    BY <1>2
  <1>4. Needs(q) = Elements(q.name) /\ q.shape \notin Singular /\ q.shape # "opaque"
    BY <1>1 DEF Needs, Singular, Plural
  <1>5. Before(Top, Top.item + 1) /\ Top.item \in Nat
    BY <1>1, <1>2 DEF FlowOK, CallOK
  <1>6. Elements(q.name) \subseteq Regs /\ \A i \in Regs : i \in Nat /\ i > 0
    BY <1>2, AreRegs
  <1> HIDE DEF q
  <1>7. \A j \in Elements(q.name) : j \notin rest => Faultless(j)
    <2> TAKE j \in Elements(q.name)
    <2> HAVE j \notin rest
    <2>1. j < Top.item + 1
      BY <1>5, <1>6
    <2> QED
      BY <1>1, <1>5, <2>1 DEF Before, q
  <1> HIDE DEF n
  <1>8. ASSUME NEW i \in rest, \A j \in rest : i <= j, Enter([stack EXCEPT ![Depth].item = i], i)
        PROVE  AInv'
    <2> DEFINE g  == AtItem(Top, i)
               st == WithTop(stack, g)
    <2>1. [stack EXCEPT ![Depth].item = i] = st /\ st = [stack EXCEPT ![n] = g]
      BY DEF Top, Depth, AtItem, WithTop, n
    <2>2. i \in Regs /\ i \in Nat /\ i \in Elements(q.name)
      BY <1>6
    <2>3. Before(Top, i)
      <3>1. ASSUME NEW j \in Elements(q.name), j < i PROVE Faultless(j)
        <4>1. j \notin rest
          BY <1>6, <1>8, <3>1
        <4> QED
          BY <1>7, <4>1
      <3> QED
        BY <3>1 DEF Before, q
    <2>4. /\ CallOK(g) /\ g.item = i /\ g.reg = Top.reg /\ g.request = Top.request /\ g.lazy = Top.lazy
          /\ Request(g) = Request(Top) /\ (Asks(g) <=> Asks(Top))
      BY <1>2, <2>2, <2>3, AtItemIs
    <2> HIDE DEF g
    <2>5. IsFor(i, g)
      BY <1>1, <1>4, <2>2, <2>4 DEF IsFor, q
    <2>6. /\ CallsOK(st) /\ Len(st) = n /\ st[n] = g /\ \A k \in 1..n : k # n => st[k] = stack[k]
      <3>1. g.reg = stack[Len(stack)].reg /\ Len(stack) > 0
        BY <1>1, <1>2, <2>4 DEF n
      <3> QED
        BY <1>2, <1>3, <2>4, <3>1, TopCalls DEF n
    <2>7. SameCalls(st)
      BY <1>2, <2>4, <2>6 DEF SameCalls, n
    <2>8. st[1].request = stack[1].request /\ st[1].lazy = stack[1].lazy
      <3>1. 1 \in 1..n
        BY <1>1, <1>2
      <3> QED
        BY <1>2, <2>4, <2>6, <3>1
    <2>9. st \in Seq(S \cup {g})
      BY <1>2, <1>3, <2>1, Replaced DEF n
    <2> HIDE DEF st
    <2>10. Enter(st, i) /\ IsFor(i, st[Len(st)])
      BY <1>8, <2>1, <2>5, <2>6
    <2> QED
      BY <1>1, <2>2, <2>6, <2>7, <2>8, <2>9, <2>10, EnterAnswers DEF n
  <1>9. CASE rest = {} /\ Proceed(Top, [kind |-> "objects", objects |-> Top.items]) /\ UNCHANGED flow
    <2> DEFINE v == [kind |-> "objects", objects |-> Top.items]
    <2>1. Provided(q)
      BY <1>4, <1>7, <1>9 DEF Provided, Gap
    <2>2. Fits(q, v)
      BY <1>4 DEF Fits, Errors
    <2> HIDE DEF v
    <2>3. Proceed(Top, v) /\ flow' = "run"
      BY <1>1, <1>9 DEF v
    <2> QED
      BY <1>1, <2>1, <2>2, <2>3, ProceedAnswers DEF q, n
  <1> QED
    BY <1>8, <1>9 DEF ResolveElement, q

LEMMA PostponeAnswers == ASSUME IInv, AInv, Postpone PROVE AInv'
  <1> DEFINE q == Request(Top)
  <1>1. /\ Len(stack) > 0 /\ Asks(Top) /\ q.shape \in Deferred /\ ~q.used
        /\ Proceed(Top, Later) /\ flow' = "run"
        /\ UNCHANGED <<wiring, accepted, asked, obj, lazies, frozen>>
    BY Running DEF Postpone
  <1>2. Provided(q)
    BY <1>1 DEF Provided, Gap, Needs
  <1>3. Fits(q, Later)
    BY <1>1 DEF Fits, Later, Errors
  <1> QED
    BY <1>1, <1>2, <1>3, ProceedAnswers

LEMMA OpaqueAnswers == ASSUME IInv, AInv, Opaque PROVE AInv'
  <1> DEFINE q == Request(Top)
  <1>1. /\ Len(stack) > 0 /\ Asks(Top) /\ q.shape = "opaque" /\ flow = "run"
        /\ UNCHANGED <<wiring, accepted, asked, obj, lazies, frozen>>
    BY Running DEF Opaque
  <1>2. CASE q.used
    <2> DEFINE v == Error("wire")
    <2>1. flow' = "raise" /\ val' = v /\ UNCHANGED stack
      BY <1>1, <1>2 DEF Opaque, Raise
    <2>2. v.kind = "wire" /\ ~Provided(q) /\ ~ToCatch(q, v)
      BY <1>1, <1>2 DEF Error, Provided, ToCatch, Maybe
    <2> HIDE DEF v
    <2>3. Founded(q, v, stack)
      BY <2>2 DEF Founded
    <2>4. Top = stack[Len(stack)]
      BY DEF Top, Depth
    <2>5. FlowOK(stack, "raise", v)
      BY <1>1, <2>2, <2>3, <2>4 DEF FlowOK, Raised, Errors
    <2> QED
      BY <1>1, <2>1, <2>5, SameCallsAnswer
  <1>3. CASE ~q.used
    <2>1. Proceed(Top, Nil) /\ flow' = "run"
      BY <1>1, <1>3 DEF Opaque
    <2>2. Provided(q)
      BY <1>3 DEF Provided, Gap, Needs
    <2>3. Fits(q, Nil)
      BY <1>3 DEF Fits, Nil, Errors
    <2> QED
      BY <1>1, <2>1, <2>2, <2>3, ProceedAnswers
  <1> QED
    BY <1>2, <1>3

WithItems(f, items) == [f EXCEPT !.items = items]

LEMMA WithItemsIs ==
  ASSUME NEW f, CallOK(f), NEW items, NEW g, g = WithItems(f, items)
  PROVE  /\ CallOK(g) /\ g.item = f.item /\ g.reg = f.reg /\ g.request = f.request /\ g.lazy = f.lazy
         /\ Request(g) = Request(f) /\ (Asks(g) <=> Asks(f))
  <1>1. IsCall(f)
    BY DEF CallOK
  <1>2. /\ IsCall(g) /\ g.item = f.item /\ g.reg = f.reg /\ g.request = f.request /\ g.lazy = f.lazy
        /\ g.at = f.at /\ g.args = f.args
    BY <1>1, AreCallFields DEF IsCall, WithItems
  <1>3. Params(g) = Params(f)
    BY <1>2 DEF Params
  <1>4. Request(g) = Request(f) /\ (Asks(g) <=> Asks(f))
    BY <1>2, <1>3 DEF Request, Asks
  <1>5. Before(g, g.item)
    BY <1>2, <1>4 DEF Before, CallOK
  <1>6. CallOK(g)
    BY <1>2, <1>3, <1>5 DEF CallOK
  <1> QED
    BY <1>2, <1>4, <1>6

LEMMA DeliverAnswers == ASSUME IInv, AInv, Deliver PROVE AInv'
  <1> DEFINE q == Request(Top)
             n == Len(stack)
  <1>1. /\ n > 0 /\ flow = "return"
        /\ UNCHANGED <<wiring, accepted, asked, obj, lazies, frozen>>
    BY Running DEF Deliver
  <1>2. /\ CallOK(Top) /\ CallsOK(stack) /\ FlowOK(stack, flow, val) /\ stack[n] = Top /\ RegistryOK
        /\ n \in Nat /\ n \in 1..n /\ \E S : stack \in Seq(S)
    BY <1>1, TopIs
  <1>3. PICK S : stack \in Seq(S)
    BY <1>2
  <1>4. PICK i \in Regs : IsFor(i, Top) /\ Faultless(i) /\ Gives(i, val) /\ NotOn({i}, stack)
    BY <1>1, <1>2 DEF FlowOK, Returned
  <1>5. /\ Asks(Top) /\ i \in Needs(q) /\ q.used /\ q.shape \in Singular \cup Plural
        /\ q.shape \in Plural => Top.item = i
    BY <1>4 DEF IsFor, Needs
  <1>6. Top.item \in Nat /\ i \in Nat /\ Before(Top, Top.item)
    BY <1>2, AreRegs DEF CallOK
  <1> HIDE DEF n
  <1>7. CASE q.shape \in Plural
    <2> DEFINE items == IF val = Nil THEN Top.items ELSE Append(Top.items, val)
               g  == WithItems(Top, items)
    <2>1. stack' = WithTop(stack, g) /\ flow' = "run"
      BY <1>7 DEF Deliver, Top, Depth, WithItems, WithTop
    <2>2. /\ CallOK(g) /\ g.item = Top.item /\ g.reg = Top.reg /\ g.request = Top.request /\ g.lazy = Top.lazy
          /\ Request(g) = Request(Top) /\ (Asks(g) <=> Asks(Top))
      BY <1>2, WithItemsIs
    <2> HIDE DEF g
    <2>3. /\ CallsOK(WithTop(stack, g)) /\ Len(WithTop(stack, g)) = n /\ WithTop(stack, g)[n] = g
          /\ \A k \in 1..n : k # n => WithTop(stack, g)[k] = stack[k]
      <3>1. g.reg = stack[Len(stack)].reg /\ Len(stack) > 0
        BY <1>1, <1>2, <2>2 DEF n
      <3> QED
        BY <1>2, <1>3, <2>2, <3>1, TopCalls DEF n
    <2>4. Before(g, g.item + 1)
      <3>1. ASSUME NEW j \in Elements(q.name), j < Top.item + 1 PROVE Faultless(j)
        <4>1. j \in Nat
          BY <1>2, AreRegs
        <4>2. CASE j = i
          BY <1>4, <4>2
        <4>3. CASE j # i
          <5>1. j < Top.item
            BY <1>5, <1>6, <1>7, <3>1, <4>1, <4>3
          <5> QED
            BY <1>5, <1>6, <1>7, <5>1 DEF Before
        <4> QED
          BY <4>2, <4>3
      <3> QED
        BY <2>2, <3>1 DEF Before
    <2>5. FlowOK(stack', flow', val')
      BY <2>1, <2>3, <2>4 DEF FlowOK
    <2>6. stack'[1].request = stack[1].request /\ stack'[1].lazy = stack[1].lazy
      <3>1. 1 \in 1..n
        BY <1>1, <1>2
      <3> QED
        BY <1>2, <2>1, <2>2, <2>3, <3>1
    <2> QED
      BY <1>1, <2>1, <2>3, <2>5, <2>6, DuringCalls DEF n
  <1>8. ASSUME q.shape \notin Plural
        PROVE  Needs(q) = One(q.name) /\ q.shape \in Singular /\ \A j \in One(q.name) : j = i
    <2>1. Needs(q) = One(q.name) /\ q.shape \in Singular
      BY <1>5, <1>8 DEF Needs
    <2>2. Distinct
      BY DEF AInv
    <2> QED
      BY <1>5, <2>1, <2>2 DEF Distinct, One
  <1> HIDE DEF q
  <1>9. CASE q.shape \notin Plural /\ val = Nil
    <2>1. flow' = "raise" /\ val' = Missing(q.name) /\ UNCHANGED stack
      BY <1>9 DEF Deliver, Raise, q
    <2>2. wiring[i].makes = "none"
      BY <1>4, <1>9 DEF Gives, Nil
    <2>3. NotOn(One(q.name), stack)
      BY <1>4, <1>8, <1>9 DEF NotOn
    <2>4. \A j \in One(q.name) : Faultless(j) /\ wiring[j].makes = "none"
      BY <1>4, <1>8, <1>9, <2>2
    <2>5. q = Request(stack[Len(stack)]) /\ Asks(stack[Len(stack)]) /\ Len(stack) > 0
      BY <1>1, <1>2, <1>5 DEF q, n
    <2>6. FlowOK(stack, "raise", Missing(q.name))
      BY <1>2, <1>5, <1>8, <1>9, <2>3, <2>4, <2>5, MissingIsRaised
    <2> QED
      BY <1>1, <2>1, <2>6, SameCallsAnswer DEF n
  <1>10. CASE q.shape \notin Plural /\ val # Nil
    <2>1. Proceed(Top, val) /\ flow' = "run"
      BY <1>10 DEF Deliver, q
    <2>2. wiring[i].makes # "none" /\ val.kind = "object" /\ val.reg = i
      BY <1>4, <1>10 DEF Gives
    <2>3. Provided(q)
      <3>1. ~Gap(q)
        BY <1>5, <1>8, <1>10, <2>2 DEF Gap
      <3>2. \A j \in Needs(q) : Faultless(j)
        BY <1>4, <1>8, <1>10
      <3>3. q.shape # "opaque"
        BY <1>8, <1>10 DEF Singular
      <3> QED
        BY <3>1, <3>2, <3>3 DEF Provided
    <2>4. Fits(q, val)
      BY <1>5, <2>2 DEF Fits, Errors
    <2> QED
      BY <1>1, <1>5, <2>1, <2>3, <2>4, ProceedAnswers DEF q, n
  <1> QED
    BY <1>7, <1>9, <1>10

\* A provider's call ends: the one below it is for whom it was built.
LEMMA LeftCall ==
  ASSUME IInv, AInv, Len(stack) > 0, Top.reg # 0, NEW st, st = SubSeq(stack, 1, Depth - 1)
  PROVE  /\ Len(stack) > 1 /\ Len(st) = Len(stack) - 1 /\ Len(st) > 0 /\ CallsOK(st) /\ Top.reg \in Regs
         /\ IsFor(Top.reg, st[Len(st)]) /\ NotOn({Top.reg}, st) /\ RegistryOK
         /\ \A k \in 1..Len(st) : k \in 1..Len(stack) /\ st[k] = stack[k]
         /\ st[1].request = stack[1].request /\ st[1].lazy = stack[1].lazy
  <1> DEFINE n == Len(stack)
             i == Top.reg
  <1>1. /\ CallsOK(stack) /\ stack[n] = Top /\ RegistryOK /\ n \in Nat /\ \E S : stack \in Seq(S)
    BY TopIs
  <1>2. PICK S : stack \in Seq(S)
    BY <1>1
  <1>3. n > 1 /\ n \in 2..n
    BY <1>1 DEF IInv, StackOK
  <1>4. i \in Regs
    BY <1>1, <1>3 DEF IInv, StackOK
  <1>5. /\ CallsOK(st) /\ Len(st) = n - 1 /\ IsFor(stack[n].reg, st[Len(st)])
        /\ \A k \in 1..Len(st) : st[k] = stack[k]
    BY <1>1, <1>2, <1>3, PopCalls DEF Depth
  <1> DEFINE m == Len(st)
  <1>6. m = n - 1 /\ \A k \in 1..m : st[k] = stack[k]
    BY <1>5
  <1> HIDE DEF n, m
  <1>7. m > 0 /\ m \in Nat /\ 1 \in 1..m /\ n \in 1..n /\ \A k \in 1..m : k \in 1..n /\ k # n
    BY <1>1, <1>3, <1>6
  <1>8. NotOn({i}, st)
    <2>1. ASSUME NEW k \in 1..m PROVE st[k].reg # i
      <3>1. k \in 1..n /\ n \in 1..n /\ k # n /\ st[k] = stack[k]
        BY <1>6, <1>7
      <3> QED
        BY <1>1, <3>1 DEF IInv, MarkedExact, n
    <2> QED
      BY <2>1 DEF NotOn, m
  <1> QED
    BY <1>1, <1>3, <1>4, <1>5, <1>6, <1>7, <1>8 DEF n, m

LEMMA ConstructAnswers == ASSUME IInv, AInv, Construct PROVE AInv'
  <1> DEFINE i == Top.reg
             value == IF wiring[i].makes = "none" THEN Nil ELSE Instance(i, made[i] + 1)
             st == SubSeq(stack, 1, Depth - 1)
             P == Params(Top)
  <1>1. /\ Len(stack) > 0 /\ ~Asks(Top) /\ i # 0 /\ obj' = Kept(i, value) /\ stack' = st
        /\ lazies' = lazies \cup LaziesOf(Top, value) /\ Typed(i, value)
        /\ UNCHANGED <<wiring, accepted, asked, frozen>>
    BY Running DEF Construct
  <1>2. /\ Len(stack) > 1 /\ Len(st) > 0 /\ CallsOK(st) /\ i \in Regs /\ IsFor(i, st[Len(st)])
        /\ NotOn({i}, st) /\ RegistryOK
        /\ st[1].request = stack[1].request /\ st[1].lazy = stack[1].lazy
    BY <1>1, LeftCall
  <1> HIDE DEF st
  <1>3. CallOK(Top)
    BY <1>1, TopIs
  <1>4. P = wiring[i].params /\ P \in Seq(Requests)
    BY <1>1, <1>2, ParamsAre DEF Params
  <1>5. Stacked(Top.args) /\ Len(Top.args) = Len(P)
        /\ \A k \in 1..Len(P) : Provided(P[k]) /\ Fits(P[k], Top.args[k])
    <2>1. Top.at \in 1..(Len(P) + 1) /\ ~(Top.at <= Len(P)) /\ Len(P) \in Nat
      BY <1>1, <1>3, <1>4 DEF CallOK, Asks
    <2>2. Top.at - 1 = Len(P)
      BY <2>1
    <2> QED
      BY <1>3, <2>2 DEF CallOK
  <1>6. SoundParams(i)
    BY <1>4, <1>5 DEF SoundParams, ParamsOf
  <1>7. Gives(i, value)
    BY DEF Gives, Instance
  <1> HIDE DEF value
  <1>8. ObjectsOK'
    <2>1. ASSUME NEW j \in Regs, obj'[j] # NotSet PROVE SoundParams(j) /\ Gives(j, obj'[j])
      <3>1. CASE j = i
        <4>1. obj'[i] = value \/ obj'[i] = obj[i]
          BY <1>1, <1>2 DEF Kept, IInv, Singles
        <4> QED
          BY <1>6, <1>7, <2>1, <3>1, <4>1 DEF AInv, ObjectsOK
      <3>2. CASE j # i
        <4>1. obj'[j] = obj[j]
          BY <1>1, <3>2 DEF Kept
        <4> QED
          BY <2>1, <4>1 DEF AInv, ObjectsOK
      <3> QED
        BY <3>1, <3>2
    <2>2. Regs' = Regs /\ \A j, v : (SoundParams(j)' <=> SoundParams(j)) /\ (Gives(j, v)' <=> Gives(j, v))
      BY <1>1, Meaning
    <2> QED
      BY <2>1, <2>2 DEF ObjectsOK
  <1> HIDE DEF P
  <1>9. ASSUME NEW l \in LaziesOf(Top, value)
        PROVE  /\ l = [owner |-> l.owner, at |-> l.at, name |-> l.name, value |-> l.value]
               /\ l.name \in STRING
               /\ l.value # NotSet => Provided(LazyRequest(l)) /\ Fits(LazyRequest(l), l.value)
    <2>1. PICK k \in DOMAIN Top.args :
             /\ P[k].shape = "lazy"
             /\ l = [owner |-> value, at |-> k, name |-> P[k].name,
                     value |-> IF P[k].used THEN Top.args[k] ELSE NotSet]
      BY DEF LaziesOf, P
    <2>2. k \in 1..Len(P) /\ P[k] \in Requests
      <3>1. DOMAIN Top.args = 1..Len(P)
        BY <1>5 DEF Stacked
      <3> QED
        BY <1>4, <2>1, <3>1
    <2>3. Provided(P[k]) /\ Fits(P[k], Top.args[k])
      BY <1>5, <2>2
    <2> DEFINE p == P[k]
               q == LazyRequest(l)
    <2> HIDE DEF p
    <2>4. p.shape = "lazy" /\ p.name \in STRING /\ p.used \in BOOLEAN
      BY <2>1, <2>2 DEF p, Requests
    <2>5. /\ l = [owner |-> l.owner, at |-> l.at, name |-> l.name, value |-> l.value]
          /\ l.name = p.name /\ l.value = IF p.used THEN Top.args[k] ELSE NotSet
      BY <2>1 DEF p
    <2>6. ASSUME l.value # NotSet PROVE Provided(q) /\ Fits(q, l.value)
      <3>1. p.used /\ l.value = Top.args[k]
        BY <2>5, <2>6
      <3>2. q.shape = "one" /\ q.name = p.name /\ q.used
        BY <2>5 DEF LazyRequest
      <3> HIDE DEF q
      <3>3. Needs(q) = One(p.name) /\ Needs(p) = One(p.name)
        BY <2>4, <3>1, <3>2 DEF Needs, Singular
      <3>4. ~Maybe(p) /\ ~Maybe(q) /\ (Gap(q) <=> Gap(p))
        BY <2>4, <3>1, <3>2 DEF Gap, Maybe, Singular
      <3>5. Provided(q)
        BY <2>3, <3>2, <3>3, <3>4 DEF Provided, p
      <3>6. Fits(q, l.value)
        BY <2>3, <2>4, <3>1, <3>2, <3>3, <3>4 DEF Fits, p, Singular
      <3> QED
        BY <3>5, <3>6
    <2> QED
      BY <2>4, <2>5, <2>6
  <1>10. LaziesOK'
    <2>1. /\ \A q : Provided(q)' <=> Provided(q)
          /\ \A q, v : Fits(q, v)' <=> Fits(q, v)
      BY <1>1, Meaning
    <2> QED
      BY <1>1, <1>9, <2>1 DEF AInv, LaziesOK, LazyRequest
  <1>11. flow' # "idle" /\ FlowOK(st, flow', val')
    <2>1. CASE wiring[i].makes = "alien"
      <3> DEFINE v == Error("internal")
                 f == st[Len(st)]
                 q == Request(f)
      <3>1. flow' = "raise" /\ val' = v
        BY <1>1, <2>1 DEF Typed, Raise
      <3>2. ~Faultless(i)
        BY <1>2, <2>1, FaultlessIs
      <3>3. v.kind = "internal"
        BY DEF Error
      <3>4. ~ToCatch(q, v)
        BY <3>3 DEF ToCatch, Missing
      <3> HIDE DEF v
      <3>5. Asks(f) /\ ~Provided(q)
        BY <1>2, <3>2 DEF IsFor, Provided
      <3>6. Founded(q, v, st)
        BY <3>3, <3>4, <3>5 DEF Founded
      <3>7. FlowOK(st, "raise", v)
        BY <3>3, <3>5, <3>6 DEF FlowOK, Raised, Errors
      <3> QED
        BY <3>1, <3>7
    <2>2. CASE wiring[i].makes # "alien"
      <3>1. flow' = "return" /\ val' = value
        BY <1>1, <2>2 DEF Typed, Return
      <3>2. Faultless(i)
        BY <1>2, <1>6, <2>2, FaultlessIs
      <3>3. FlowOK(st, "return", value)
        BY <1>2, <1>7, <3>2 DEF FlowOK, Returned
      <3> QED
        BY <3>1, <3>3
    <2> QED
      BY <2>1, <2>2
  <1> QED
    BY <1>1, <1>2, <1>8, <1>10, <1>11, During

LEMMA ConstructFailsAnswers == ASSUME IInv, AInv, ConstructFails PROVE AInv'
  <1> DEFINE v == Error("failed")
  <1>1. /\ Len(stack) > 0 /\ flow' = "raise" /\ val' = v
        /\ UNCHANGED <<wiring, accepted, asked, obj, lazies, frozen, stack>>
    BY Running DEF ConstructFails, Raise
  <1>2. v.kind = "failed"
    BY DEF Error
  <1> HIDE DEF v
  <1>3. FlowOK(stack, "raise", v)
    BY <1>2 DEF FlowOK, Raised, Errors
  <1> QED
    BY <1>1, <1>3, SameCallsAnswer

\* The path of a cycle grows by the registration that it goes out of.
LEMMA CycleGrows ==
  ASSUME RegistryOK, NEW q, NEW p, NEW i \in Regs, i \in Needs(q), Needs(p) \subseteq Edges(i),
         NEW stk, NEW st, Len(stk) \in Nat, Len(st) = Len(stk) - 1, stk[Len(stk)].reg = i,
         \A k \in 1..Len(st) : st[k].reg = stk[k].reg, NEW path, Cyclic(path, p, stk)
  PROVE  Cyclic(<<i>> \o path, q, st)
  <1> DEFINE n == Len(path)
             N == Len(stk)
             m == Len(st)
             new == <<i>> \o path
  <1>1. /\ path \in Seq(Regs) /\ n \in Nat /\ n > 0 /\ path[1] \in Needs(p)
        /\ \A k \in 1..(n - 1) : path[k + 1] \in Edges(path[k])
        /\ \/ \E k \in 1..(n - 1) : path[k] = path[n]
           \/ \E k \in 2..N : stk[k].reg = path[n]
    BY DEF Cyclic
  <1>2. /\ new \in Seq(Regs) /\ Len(new) = n + 1 /\ new[1] = i
        /\ \A k \in 1..n : new[k + 1] = path[k]
    <2>1. <<i>> \in Seq(Regs) /\ Len(<<i>>) = 1 /\ <<i>>[1] = i
      OBVIOUS
    <2> DEFINE one == <<i>>
    <2>2. one \in Seq(Regs) /\ Len(one) = 1 /\ one[1] = i
      BY <2>1
    <2> HIDE DEF one
    <2> DEFINE a == Len(one)
               both == one \o path
    <2>3. /\ both \in Seq(Regs) /\ Len(both) = a + n
          /\ \A k \in 1..(a + n) : both[k] = IF k <= a THEN one[k] ELSE path[k - a]
      BY <1>1, <2>2, ConcatProperties
    <2> HIDE DEF a, both
    <2>4. /\ both \in Seq(Regs) /\ Len(both) = 1 + n
          /\ \A k \in 1..(1 + n) : both[k] = IF k <= 1 THEN one[k] ELSE path[k - 1]
      <3>1. a = 1
        BY <2>2 DEF a
      <3> QED
        BY <2>3, <3>1
    <2> HIDE DEF n
    <2>5. both[1] = i
      BY <1>1, <2>2, <2>4
    <2>6. ASSUME NEW k \in 1..n PROVE both[k + 1] = path[k]
      <3>1. k + 1 \in 1..(1 + n) /\ ~(k + 1 <= 1) /\ (k + 1) - 1 = k
        BY <1>1
      <3> QED
        BY <2>4, <3>1
    <2>7. Len(both) = n + 1
      BY <1>1, <2>4
    <2> QED
      BY <2>4, <2>5, <2>6, <2>7 DEF both, one
  <1>3. N \in Nat /\ m = N - 1 /\ stk[N].reg = i /\ \A k \in 1..m : st[k].reg = stk[k].reg
    OBVIOUS
  <1> HIDE DEF n, N, m, new
  <1>4. (n + 1) - 1 = n /\ n \in 1..n /\ 1 \in 1..n /\ n + 1 \in 1..(n + 1) /\ new[n + 1] = path[n]
    BY <1>1, <1>2
  <1>5. ASSUME NEW k \in 1..n PROVE new[k + 1] \in Edges(new[k])
    <2>1. CASE k = 1
      BY <1>1, <1>2, <2>1
    <2>2. CASE k # 1
      <3>1. k - 1 \in 1..(n - 1) /\ (k - 1) + 1 = k /\ k - 1 \in 1..n
        BY <1>1, <2>2
      <3>2. new[k] = path[k - 1] /\ new[k + 1] = path[k]
        BY <1>2, <3>1
      <3>3. path[(k - 1) + 1] \in Edges(path[k - 1])
        BY <1>1, <3>1
      <3> QED
        BY <3>1, <3>2, <3>3
    <2> QED
      BY <2>1, <2>2
  <1>6. (\E k \in 1..n : new[k] = new[n + 1]) \/ (\E k \in 2..m : st[k].reg = new[n + 1])
    <2>1. ASSUME NEW k \in 1..(n - 1), path[k] = path[n] PROVE \E j \in 1..n : new[j] = new[n + 1]
      <3>1. k \in 1..n /\ k + 1 \in 1..n
        BY <1>1
      <3>2. new[k + 1] = new[n + 1]
        BY <1>2, <1>4, <2>1, <3>1
      <3> QED
        BY <3>1, <3>2
    <2>2. ASSUME NEW k \in 2..N, stk[k].reg = path[n]
          PROVE  (\E j \in 1..n : new[j] = new[n + 1]) \/ (\E j \in 2..m : st[j].reg = new[n + 1])
      <3>1. CASE k = N
        BY <1>2, <1>3, <1>4, <2>2, <3>1
      <3>2. CASE k # N
        <4>1. k \in 2..m /\ k \in 1..m
          BY <1>3, <3>2
        <4> QED
          BY <1>3, <1>4, <2>2, <4>1
      <3> QED
        BY <3>1, <3>2
    <2> QED
      BY <1>1, <2>1, <2>2
  <1>7. new \in Seq(Regs) /\ Len(new) > 0 /\ new[1] \in Needs(q) /\ Len(new) = n + 1
    BY <1>1, <1>2
  <1>8. Cyclic(new, q, st)
    BY <1>4, <1>5, <1>6, <1>7 DEF Cyclic, m
  <1> QED
    BY <1>8 DEF new

\* The end of a request.
LEMMA EndAnswers ==
  ASSUME AInv, UNCHANGED <<wiring, accepted, asked>>, Len(stack) > 0, frozen' = frozen,
         stack' = <<>>, flow' = "idle", obj' = obj, LaziesOK', Answers(asked, val')
  PROVE  AInv'
  <1>1. Distinct'
    BY DEF AInv, Distinct
  <1>2. frozen'
    <2>1. stack # <<>>
      OBVIOUS
    <2> QED
      BY <2>1 DEF AInv, Untouched
  <1>3. Untouched'
    BY <1>2 DEF Untouched
  <1>4. ObjectsOK'
    BY Meaning DEF AInv, ObjectsOK
  <1>5. Len(stack') = 0
    OBVIOUS
  <1>6. FirstOK'
    BY <1>5 DEF FirstOK
  <1>7. Answers(asked, val)'
    BY Meaning
  <1> QED
    BY <1>1, <1>3, <1>4, <1>5, <1>6, <1>7 DEF AInv

\* The call of the application asks for one thing.
LEMMA FirstCall ==
  ASSUME IInv, AInv, Len(stack) > 0, Top.reg = 0
  PROVE  /\ Len(stack) = 1 /\ Top = stack[1] /\ asked \in Requests /\ asked.shape # "opaque"
         /\ Params(Top)[1] = asked
         /\ Asks(Top) => Request(Top) = asked
         /\ ~Asks(Top) => Top.at - 1 = 1
  <1>1. CallOK(Top) /\ stack[Len(stack)] = Top /\ Len(stack) \in Nat
    BY TopIs
  <1>2. Len(stack) = 1
    <2>1. CASE Len(stack) > 1
      <3>1. Len(stack) \in 2..Len(stack)
        BY <1>1, <2>1
      <3>2. Top.reg \in Regs
        BY <1>1, <3>1 DEF IInv, StackOK
      <3> QED
        BY <3>2, AreRegs DEF IInv
    <2> DEFINE n == Len(stack)
    <2>2. n \in Nat /\ n > 0 /\ ~(n > 1)
      BY <1>1, <2>1
    <2> HIDE DEF n
    <2>3. n = 1
      BY ONLY <2>2
    <2> QED
      BY <2>3 DEF n
  <1>3. Top.request = asked /\ asked \in Requests /\ asked.shape # "opaque"
    BY <1>1, <1>2 DEF AInv, FirstOK
  <1>4. Params(Top) = <<asked>>
    BY <1>3 DEF Params
  <1>5. Top.at \in 1..2 /\ (Asks(Top) <=> Top.at <= 1)
    BY <1>1, <1>4 DEF CallOK, Asks
  <1>6. Top.at = 1 \/ Top.at = 2
    BY <1>5
  <1>7. Asks(Top) => Top.at = 1
    BY <1>5, <1>6
  <1>8. ~Asks(Top) => Top.at - 1 = 1
    BY <1>5, <1>6
  <1>9. Asks(Top) => Request(Top) = asked
    BY <1>4, <1>7 DEF Request
  <1> QED
    BY <1>1, <1>2, <1>3, <1>4, <1>8, <1>9

LEMMA UnwindAnswers == ASSUME IInv, AInv, Unwind PROVE AInv'
  <1> DEFINE q == Request(Top)
             i == Top.reg
  <1>1. /\ Len(stack) > 0 /\ flow = "raise"
        /\ UNCHANGED <<wiring, accepted, asked, obj, lazies, frozen>>
    BY Running DEF Unwind
  <1>2. /\ CallOK(Top) /\ FlowOK(stack, flow, val) /\ stack[Len(stack)] = Top /\ RegistryOK
        /\ Len(stack) \in Nat
    BY <1>1, TopIs
  <1>3. /\ val.kind \in Errors
        /\ \/ val.kind = "failed"
           \/ Asks(Top) /\ ToCatch(q, val) /\ Provided(q)
           \/ Asks(Top) /\ Founded(q, val, stack)
    BY <1>1, <1>2 DEF FlowOK, Raised
  <1>4. Caught(Top) <=> Asks(Top) /\ ToCatch(q, val)
    BY DEF Caught, ToCatch
  <1> HIDE DEF q
  <1>5. CASE Caught(Top)
    <2>1. Proceed(Top, Nil) /\ flow' = "run"
      BY <1>5 DEF Unwind
    <2>2. val.kind = "missing"
      BY <1>4, <1>5 DEF ToCatch, Missing
    <2>3. Provided(q) /\ Asks(Top) /\ Maybe(q)
      BY <1>3, <1>4, <1>5, <2>2 DEF Founded, ToCatch
    <2>4. Fits(q, Nil)
      BY <2>3 DEF Fits, Nil, Errors
    <2> QED
      BY <1>1, <2>1, <2>3, <2>4, ProceedAnswers DEF q
  <1>6. ASSUME ~Caught(Top), val.kind # "failed" PROVE Asks(Top) /\ Founded(q, val, stack)
    BY <1>3, <1>4, <1>6
  <1>7. CASE ~Caught(Top) /\ i = 0
    <2>1. stack' = <<>> /\ flow' = "idle" /\ val' = Handed(Top)
      BY <1>7 DEF Unwind
    <2>2. /\ Len(stack) = 1 /\ Top = stack[1] /\ asked \in Requests /\ asked.shape # "opaque"
          /\ Asks(Top) => q = asked
      BY <1>1, <1>7, FirstCall DEF q
    <2>3. Answers(asked, val')
      <3>1. CASE val.kind = "failed"
        <4>1. val # Missing(Top.request.name)
          BY <3>1 DEF Missing
        <4>2. val' = val
          BY <2>1, <4>1 DEF Handed
        <4> QED
          BY <3>1, <4>2 DEF Answers, Errors
      <3>2. CASE val.kind # "failed"
        <4>1. Founded(asked, val, stack)
          BY <1>6, <1>7, <2>2, <3>2
        <4>2. ~Buildable(asked)
          BY <1>2, <2>2, <4>1, SoundIs DEF Founded
        <4>3. val' = val \/ val'.kind = "no such configuration"
          BY <2>1 DEF Handed, Error
        <4>4. CASE val'.kind = "no such configuration"
          BY <4>2, <4>4 DEF Answers, Errors
        <4>5. CASE val' = val
          <5>1. val.kind = "cycle" => RealCycle(val.path, asked)
            <6> HAVE val.kind = "cycle"
            <6>1. Cyclic(val.path, asked, stack)
              BY <4>1 DEF Founded
            <6>2. \A m \in 2..Len(stack) : FALSE
              BY <2>2
            <6> QED
              BY <6>1, <6>2 DEF Cyclic, RealCycle
          <5>2. val.kind = "missing" => GapBelow(asked, val.name)
            BY <4>1 DEF Founded
          <5>3. val.kind # "object"
            BY <1>3 DEF Errors
          <5> QED
            BY <1>3, <4>2, <4>5, <5>1, <5>2, <5>3 DEF Answers
        <4> QED
          BY <4>3, <4>4, <4>5
      <3> QED
        BY <3>1, <3>2
    <2>4. LaziesOK'
      BY <1>1, Meaning DEF AInv, LaziesOK, LazyRequest
    <2> QED
      BY <1>1, <2>1, <2>3, <2>4, EndAnswers
  <1>8. CASE ~Caught(Top) /\ i # 0
    <2> DEFINE st == SubSeq(stack, 1, Depth - 1)
               f  == st[Len(st)]
               p  == Request(f)
    <2>1. stack' = st /\ flow' = "raise" /\ val' = Through(i)
      BY <1>1, <1>8 DEF Unwind
    <2>2. /\ Len(st) = Len(stack) - 1 /\ Len(st) > 0 /\ CallsOK(st) /\ i \in Regs
          /\ IsFor(i, f) /\ \A k \in 1..Len(st) : k \in 1..Len(stack) /\ st[k] = stack[k]
          /\ st[1].request = stack[1].request /\ st[1].lazy = stack[1].lazy
      BY <1>1, <1>8, LeftCall
    <2> HIDE DEF st
    <2>3. Asks(f) /\ i \in Needs(p)
      BY <2>2 DEF IsFor
    <2> HIDE DEF p
    <2>4. Raised(st, val')
      <3>1. CASE val.kind = "failed"
        <4>1. val' = val
          BY <2>1, <3>1 DEF Through
        <4> QED
          BY <3>1, <4>1 DEF Raised, Errors
      <3>2. CASE val.kind # "failed"
        <4>1. Asks(Top) /\ Founded(q, val, stack)
          BY <1>6, <1>8, <3>2
        <4>2. q \in ParamsOf(i) /\ Needs(q) \subseteq Edges(i)
          BY <1>2, <2>2, <4>1, AsksParams DEF q
        <4>3. ~Provided(p)
          <5>1. ~Faultless(i)
            BY <1>2, <2>2, <4>1, <4>2, FaultlessIs DEF SoundParams, Founded
          <5> QED
            BY <2>3, <5>1 DEF Provided
        <4>4. CASE val.kind # "cycle"
          <5>1. val' = val
            BY <2>1, <4>4 DEF Through
          <5>2. val.kind = "missing" => GapBelow(p, val.name) /\ NotOn(One(val.name), st)
            <6> HAVE val.kind = "missing"
            <6>1. GapBelow(q, val.name) /\ NotOn(One(val.name), stack)
              BY <4>1 DEF Founded
            <6>2. GapBelow(p, val.name)
              BY <1>2, <2>3, <4>2, <6>1, BelowIs
            <6> QED
              BY <2>2, <6>1, <6>2 DEF NotOn
          <5>3. ~ToCatch(p, val)
            <6> SUFFICES ASSUME ToCatch(p, val) PROVE FALSE
              OBVIOUS
            <6>1. Maybe(p) /\ val.kind = "missing" /\ val.name = p.name
              BY DEF ToCatch, Missing
            <6>2. Needs(p) \subseteq One(p.name)
              BY <6>1 DEF Needs, Maybe, Singular
            <6>3. NotOn(One(p.name), stack)
              BY <4>1, <6>1 DEF Founded
            <6>4. Len(stack) \in 1..Len(stack)
              BY <1>1, <1>2
            <6> QED
              BY <1>2, <2>3, <6>2, <6>3, <6>4 DEF NotOn
          <5>4. Founded(p, val, st)
            BY <4>3, <4>4, <5>2, <5>3 DEF Founded
          <5> QED
            BY <1>3, <2>3, <5>1, <5>4 DEF Raised, p
        <4>5. CASE val.kind = "cycle"
          <5> DEFINE path == val.path
                     new  == <<i>> \o path
          <5>1. val = [kind |-> "cycle", path |-> path] /\ Cyclic(path, q, stack)
            BY <4>1, <4>5 DEF Founded
          <5>2. val' = [val EXCEPT !.path = new]
            BY <2>1, <4>5 DEF Through
          <5>3. Cyclic(new, p, st)
            <6>1. stack[Len(stack)].reg = i /\ \A k \in 1..Len(st) : st[k].reg = stack[k].reg
              BY <1>2, <2>2
            <6> QED
              BY <1>2, <2>2, <2>3, <4>2, <5>1, <6>1, CycleGrows
          <5> HIDE DEF path, new
          <5>4. val' = [kind |-> "cycle", path |-> new]
            BY <5>1, <5>2
          <5>5. val'.kind = "cycle" /\ val'.path = new /\ val' = [kind |-> "cycle", path |-> val'.path]
            BY <5>4
          <5>6. ~ToCatch(p, val')
            BY <5>5 DEF ToCatch, Missing
          <5>7. Founded(p, val', st)
            BY <4>3, <5>3, <5>5, <5>6 DEF Founded
          <5> QED
            BY <2>3, <5>5, <5>7 DEF Raised, Errors, p
        <4> QED
          BY <4>4, <4>5
      <3> QED
        BY <3>1, <3>2
    <2>5. FlowOK(st, "raise", val')
      BY <2>4 DEF FlowOK
    <2> QED
      BY <1>1, <2>1, <2>2, <2>5, DuringCalls
  <1> QED
    BY <1>5, <1>7, <1>8

LEMMA AnswerAnswers == ASSUME IInv, AInv, Answer PROVE AInv'
  <1> DEFINE lz == Top.lazy
             v  == Top.args[1]
             new == [lz EXCEPT !.value = v]
  <1>1. /\ Len(stack) > 0 /\ ~Asks(Top) /\ Top.reg = 0 /\ flow' = "idle" /\ stack' = <<>> /\ val' = v
        /\ lazies' = IF lz = NotSet THEN lazies ELSE (lazies \ {lz}) \cup {new}
        /\ UNCHANGED <<wiring, accepted, asked, obj, frozen>>
    BY Running DEF Answer
  <1>2. /\ Top = stack[1] /\ asked \in Requests /\ asked.shape # "opaque"
        /\ Params(Top)[1] = asked /\ Top.at - 1 = 1
    BY <1>1, FirstCall
  <1>3. CallOK(Top) /\ RegistryOK
    BY <1>1, TopIs
  <1>4. Provided(asked) /\ Fits(asked, v)
    <2>1. 1 \in 1..(Top.at - 1)
      BY <1>2
    <2> QED
      BY <1>2, <1>3, <2>1 DEF CallOK
  <1> HIDE DEF v
  <1>5. Answers(asked, v)
    <2>1. Buildable(asked)
      BY <1>2, <1>3, <1>4, SoundIs
    <2> QED
      BY <1>4, <2>1 DEF Fits, Answers, Errors
  <1>6. LaziesOK'
    <2>1. ASSUME NEW l \in lazies'
          PROVE  /\ l = [owner |-> l.owner, at |-> l.at, name |-> l.name, value |-> l.value]
                 /\ l.name \in STRING
                 /\ l.value # NotSet => Provided(LazyRequest(l)) /\ Fits(LazyRequest(l), l.value)
      <3>1. CASE l \in lazies
        BY <3>1 DEF AInv, LaziesOK
      <3>2. CASE l \notin lazies
        <4>1. lz # NotSet /\ l = new
          BY <1>1, <2>1, <3>2
        <4>2. lz \in lazies /\ asked = LazyRequest(lz)
          BY <1>1, <1>2, <4>1 DEF AInv, FirstOK
        <4>3. /\ lz = [owner |-> lz.owner, at |-> lz.at, name |-> lz.name, value |-> lz.value]
              /\ lz.name \in STRING
          BY <4>2 DEF AInv, LaziesOK
        <4> HIDE DEF lz
        <4>4. l = [owner |-> lz.owner, at |-> lz.at, name |-> lz.name, value |-> v]
          BY <4>1, <4>3
        <4>5. /\ l = [owner |-> l.owner, at |-> l.at, name |-> l.name, value |-> l.value]
              /\ l.name = lz.name /\ l.value = v
          BY <4>4
        <4>6. LazyRequest(l) = asked
          BY <4>2, <4>5 DEF LazyRequest
        <4> QED
          BY <1>4, <4>3, <4>5, <4>6
      <3> QED
        BY <3>1, <3>2
    <2>2. /\ \A q : Provided(q)' <=> Provided(q)
          /\ \A q, w : Fits(q, w)' <=> Fits(q, w)
      BY <1>1, Meaning
    <2> QED
      BY <2>1, <2>2 DEF LaziesOK, LazyRequest
  <1> QED
    BY <1>1, <1>5, <1>6, EndAnswers

\* A request begins.
LEMMA CallAnswers ==
  ASSUME IInv, AInv, NEW lazy, asked' \in Requests, asked'.shape # "opaque", Call(asked', lazy),
         lazy # NotSet => lazy \in lazies /\ asked' = LazyRequest(lazy),
         UNCHANGED <<wiring, accepted, obj, lazies>>
  PROVE  AInv'
  <1> DEFINE e == Frame(0, asked', lazy)
  <1>1. frozen' = TRUE /\ stack' = <<e>> /\ flow' = "run" /\ val' = NotSet
    BY DEF Call
  <1>2. /\ e.reg = 0 /\ e.at = 1 /\ e.args = <<>> /\ e.item = 0 /\ IsCall(e)
        /\ e.request = asked' /\ e.lazy = lazy
    BY DEF Frame, IsCall, CallFields
  <1> HIDE DEF e
  <1>3. RegistryOK
    BY DEF IInv
  <1>4. Len(stack') = 1 /\ stack'[1] = e
    BY <1>1
  <1>5. CallOK(e)
    <2>1. Params(e) = <<asked'>>
      BY <1>2 DEF Params
    <2>2. Params(e) \in Seq(Requests) /\ Len(Params(e)) = 1
      BY <2>1
    <2>3. Stacked(e.args) /\ Len(e.args) = 0
      <3>1. e.args \in Seq({}) /\ Len(e.args) = 0
        BY <1>2
      <3> QED
        BY <3>1 DEF Stacked
    <2>4. Before(e, 0)
      BY <1>3, AreRegs DEF Before
    <2> QED
      BY <1>2, <2>2, <2>3, <2>4 DEF CallOK
  <1>6. Before(e, 0 + 1)
    BY <1>3, AreRegs DEF Before
  <1>7. CallsOK(stack')
    BY <1>4, <1>5 DEF CallsOK
  <1>8. FlowOK(stack', flow', val')
    BY <1>1, <1>2, <1>4, <1>6 DEF FlowOK
  <1>9. CallsOK(stack)' /\ FlowOK(stack, flow, val)'
    BY <1>7, <1>8, Meaning
  <1>10. Distinct' /\ Untouched'
    BY <1>1 DEF AInv, Distinct, Untouched
  <1>11. ObjectsOK'
    BY Meaning DEF AInv, ObjectsOK
  <1>12. LaziesOK'
    BY Meaning DEF AInv, LaziesOK, LazyRequest
  <1>13. FirstOK'
    BY <1>2, <1>4 DEF FirstOK, LazyRequest
  <1> QED
    BY <1>1, <1>9, <1>10, <1>11, <1>12, <1>13 DEF AInv

LEMMA AskAnswers == ASSUME IInv, AInv, NEW request \in Wanted, Ask(request) PROVE AInv'
  <1>1. asked' = request /\ Call(request, NotSet) /\ UNCHANGED <<wiring, accepted, obj, lazies>>
    BY DEF Ask
  <1>2. request \in Requests /\ request.shape # "opaque"
    BY WiringsAssumption
  <1> QED
    BY <1>1, <1>2, CallAnswers

LEMMA GetLazyAnswers == ASSUME IInv, AInv, NEW l \in lazies, GetLazy(l) PROVE AInv'
  <1>1. asked' = LazyRequest(l) /\ UNCHANGED <<wiring, accepted, obj, lazies>> /\ flow = "idle"
    BY DEF GetLazy, LazyRequest
  <1>2. l.name \in STRING /\ (l.value # NotSet => Provided(LazyRequest(l)) /\ Fits(LazyRequest(l), l.value))
    BY DEF AInv, LaziesOK
  <1>3. asked' \in Requests /\ asked'.shape = "one"
    BY <1>1, <1>2 DEF LazyRequest, Requests, Singular
  <1>4. CASE l.value = NotSet
    <2>1. Call(asked', l)
      BY <1>4 DEF GetLazy
    <2> QED
      BY <1>1, <1>3, <2>1, CallAnswers
  <1>5. CASE l.value # NotSet
    <2>1. val' = l.value /\ UNCHANGED <<frozen, stack, flow>>
      BY <1>5 DEF GetLazy
    <2>2. Len(stack') = 0
      BY <1>1, <2>1 DEF IInv, StackOK
    <2>3. Answers(asked', val')
      <3> DEFINE q == LazyRequest(l)
      <3>1. Provided(q) /\ Fits(q, l.value) /\ q.shape = "one"
        BY <1>2, <1>5 DEF LazyRequest
      <3> HIDE DEF q
      <3>2. Buildable(q)
        BY <3>1, SoundIs DEF IInv
      <3> QED
        BY <1>1, <2>1, <3>1, <3>2 DEF Fits, Answers, Errors, q
    <2>4. Answers(asked, val)'
      BY <1>1, <2>3, Meaning
    <2>5. Distinct' /\ Untouched'
      BY <1>1, <2>1 DEF AInv, Distinct, Untouched
    <2>6. ObjectsOK'
      BY <1>1, Meaning DEF AInv, ObjectsOK
    <2>7. LaziesOK'
      BY <1>1, Meaning DEF AInv, LaziesOK, LazyRequest
    <2>8. FirstOK'
      BY <2>2 DEF FirstOK
    <2> QED
      BY <1>1, <2>1, <2>2, <2>4, <2>5, <2>6, <2>7, <2>8 DEF AInv
  <1> QED
    BY <1>4, <1>5

LEMMA UnchangedAnswers ==
  ASSUME AInv, UNCHANGED <<wiring, accepted, frozen, obj, stack, flow, val, lazies, asked>>
  PROVE  AInv'
  <1>1. Distinct' /\ Untouched'
    <2>1. Regs' = Regs
      BY Meaning
    <2> QED
      BY <2>1 DEF AInv, Distinct, Untouched
  <1>2. ObjectsOK'
    BY Meaning DEF AInv, ObjectsOK
  <1>3. LaziesOK'
    BY Meaning DEF AInv, LaziesOK, LazyRequest
  <1>4. FirstOK'
    BY DEF AInv, FirstOK, LazyRequest
  <1>5. Len(stack') > 0 => CallsOK(stack)' /\ FlowOK(stack, flow, val)'
    BY Meaning DEF AInv
  <1>6. flow' = "idle" /\ asked' # NotSet => Answers(asked, val)'
    BY Meaning DEF AInv
  <1> QED
    BY <1>1, <1>2, <1>3, <1>4, <1>5, <1>6 DEF AInv

\* A registration is refused once something was asked for, or if its name is taken.
LEMMA RegisterAnswers == ASSUME IInv, AInv, Register PROVE AInv'
  <1> DEFINE t == tried'
  <1>1. /\ UNCHANGED <<wiring, frozen, obj, stack, flow, val, lazies, asked>>
        /\ accepted' = IF Refused(t) THEN accepted ELSE accepted \cup {t}
    BY DEF Register
  <1> HIDE DEF t
  <1>2. CASE Refused(t)
    BY <1>1, <1>2, UnchangedAnswers
  <1>3. CASE ~Refused(t)
    <2>1. ~frozen
      BY <1>3 DEF Refused
    <2>2. accepted' = accepted \cup {t}
      BY <1>1, <1>3
    <2>3. stack = <<>> /\ asked = NotSet /\ lazies = {} /\ \A i \in Regs : obj[i] = NotSet
      BY <2>1 DEF AInv, Untouched
    <2>4. Regs' = Regs
      BY <1>1 DEF Regs
    <2>5. Distinct'
      <3>1. ASSUME NEW i \in accepted', NEW j \in accepted', ~wiring[i].all, ~wiring[j].all,
                   wiring[i].name = wiring[j].name
            PROVE  i = j
        <4>1. wiring[t].all \/ \A k \in accepted : ~(wiring[k].name = wiring[t].name /\ ~wiring[k].all)
          BY <1>3 DEF Refused, One
        <4>2. i = t \/ i \in accepted
          BY <2>2
        <4>3. j = t \/ j \in accepted
          BY <2>2
        <4>4. CASE i \in accepted /\ j \in accepted
          BY <3>1, <4>4 DEF AInv, Distinct
        <4> QED
          BY <3>1, <4>1, <4>2, <4>3, <4>4
      <3> QED
        BY <1>1, <3>1 DEF Distinct
    <2>6. Untouched' /\ ObjectsOK'
      BY <1>1, <2>3, <2>4 DEF Untouched, ObjectsOK
    <2>7. LaziesOK'
      BY <1>1, <2>3 DEF LaziesOK
    <2>8. Len(stack') = 0 /\ asked' = NotSet
      BY <1>1, <2>3
    <2>9. FirstOK'
      BY <2>8 DEF FirstOK
    <2> QED
      BY <2>5, <2>6, <2>7, <2>8, <2>9 DEF AInv
  <1> QED
    BY <1>2, <1>3

LEMMA AnswersInductive == IInv /\ AInv /\ [ContainerNext]_containerVars => AInv'
  <1> SUFFICES ASSUME IInv, AInv, [ContainerNext]_containerVars PROVE AInv'
    OBVIOUS
  <1>1. CASE UNCHANGED containerVars
    BY <1>1, UnchangedAnswers DEF containerVars
  <1>2. CASE Register
    BY <1>2, RegisterAnswers
  <1>3. ASSUME NEW request \in Wanted, Ask(request) PROVE AInv'
    BY <1>3, AskAnswers
  <1>4. ASSUME NEW l \in lazies, GetLazy(l) PROVE AInv'
    BY <1>4, GetLazyAnswers
  <1>5. CASE Resolve
    BY <1>5, ResolveAnswers
  <1>6. CASE ResolveElement
    BY <1>6, ResolveElementAnswers
  <1>7. CASE Postpone
    BY <1>7, PostponeAnswers
  <1>8. CASE Opaque
    BY <1>8, OpaqueAnswers
  <1>9. CASE Deliver
    BY <1>9, DeliverAnswers
  <1>10. CASE Construct
    BY <1>10, ConstructAnswers
  <1>11. CASE ConstructFails
    BY <1>11, ConstructFailsAnswers
  <1>12. CASE Unwind
    BY <1>12, UnwindAnswers
  <1>13. CASE Answer
    BY <1>13, AnswerAnswers
  <1> QED
    BY <1>1, <1>2, <1>3, <1>4, <1>5, <1>6, <1>7, <1>8, <1>9, <1>10, <1>11, <1>12, <1>13
    DEF ContainerNext

LEMMA AnswersInitial == ContainerInit => AInv
  <1> SUFFICES ASSUME ContainerInit PROVE AInv
    OBVIOUS
  <1>1. /\ accepted = {} /\ frozen = FALSE /\ stack = <<>> /\ Len(stack) = 0 /\ asked = NotSet /\ lazies = {}
        /\ \A i \in Regs : obj[i] = NotSet
    BY DEF ContainerInit
  <1> QED
    BY <1>1 DEF AInv, Distinct, Untouched, ObjectsOK, LaziesOK, FirstOK

\* Whatever was registered, asked and failed before, a request gets its object if everything
\* it needs can be built and no constructor fails, and otherwise an error that is there: a name
\* that something on the way lacks, or a cycle of the registrations. No provider's error is
\* swallowed by `maybe_resolve`, and none leaves something behind that changes a later answer.
THEOREM AnsweredAsRegistered == ContainerSpec => []AnsweredRight
  <1>1. AInv => AnsweredRight
    BY DEF AInv, Answers, GapBelow, AnsweredRight
  <1>2. IInv /\ AInv /\ [ContainerNext]_containerVars => (IInv /\ AInv)'
    BY Inductive, AnswersInductive
  <1>3. ContainerInit => IInv /\ AInv
    BY Initial, AnswersInitial
  <1> QED
    BY <1>1, <1>2, <1>3, PTL DEF ContainerSpec
===============================================================================
