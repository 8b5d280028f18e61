------------------------------ MODULE Downloads ------------------------------
(***************************************************************************)
(* The cache of downloaded assets: jobs that load one asset from a server, *)
(* through three directories of a shared file system.  A file is received  *)
(* in the temporary directory, which is then renamed to the download       *)
(* directory; from there it is extracted, or moved, to the asset           *)
(* directory.  There is no lock: a later job goes by what directories it   *)
(* finds, and any job may be killed at any step.                           *)
(*                                                                         *)
(* A job is a gang that loads a model, of which rank 0 downloads and every *)
(* rank then looks in the cache, or one call of the download manager with  *)
(* force or local_only.                                                    *)
(***************************************************************************)
EXTENDS Cards

CONSTANTS
    Jobs,       \* 1..n, in the order in which they start
    Ranks,      \* the processes of a gang; 0 is one of them
    Formats,    \* what the server may serve
    Sites,      \* the catalogs whose jobs are followed past the lookup
    Together,   \* bound: the jobs that may start while others run
    MaxKills    \* bound on the jobs that are killed

ASSUME JobAssumption ==
    /\ Jobs \subseteq Nat /\ 0 \in Ranks
    /\ Formats \subseteq {"plain", "zip", "tar", "tgz"}

VARIABLES
    format,     \* what the server serves
    cache,      \* the three directories: Absent, or the entries they hold
    received,   \* of the file of each job, how many of its Chunks are written
    named,      \* the file of a job has its final name, not a temporary one
    members,    \* how far each member of the archive is extracted
    job,
    kills,
    spoiled     \* history: the asset directory may hold what was never whole

cacheVars    == <<cache, received, named, members>>
downloadVars == <<format, cacheVars, job, kills, spoiled, cardVars>>

-----------------------------------------------------------------------------
Chunks  == 2
Members == 1..2
Absent  == {<<"absent", 0>>}
Dirs    == {"asset", "download", "tmp"}

File(j)   == <<"file", j>>
Member(k) == <<"member", k>>
Exists(d) == cache[d] # Absent
Has(d, e) == Exists(d) /\ e \in cache[d]

NewJob == [pc |-> "new", kind |-> "none", file |-> 0, step |-> 0, todo |-> {},
           dir |-> "none", why |-> "none", alone |-> TRUE, fault |-> FALSE,
           got |-> [r \in Ranks |-> "none"]]

Over   == {"new", "done", "failed", "killed"}
Active == {j \in Jobs : job[j].pc \notin Over}

DownloadsInit ==
    /\ CardsInit
    /\ format \in Formats
    /\ catalog \notin Sites => format = CHOOSE f \in Formats : TRUE
    /\ cache = [d \in Dirs |-> Absent]
    /\ received = [j \in Jobs |-> 0] /\ named = [j \in Jobs |-> FALSE]
    /\ members = [k \in Members |-> "none"]
    /\ job = [j \in Jobs |-> NewJob]
    /\ kills = 0 /\ spoiled = FALSE

At(j, pc)  == job[j].pc = pc
Go(j, pc)  == job' = [job EXCEPT ![j].pc = pc]
Fails(j)   == Go(j, "failed")

-----------------------------------------------------------------------------
\* load_model(): the card, and the scheme of its checkpoint; or a call of the
\* download manager with the address of the checkpoint.
Begin(j, kind, pc) ==
    LET others == IF pc \in Over THEN {} ELSE Active IN
    job' = [i \in Jobs |->
              IF i = j THEN [job[j] EXCEPT !.pc = pc, !.kind = kind, !.alone = others = {}]
              ELSE [job[i] EXCEPT !.alone = @ /\ i \notin others]]

\* A forced call does not go together with any other job.
Forcing(kind) == \/ kind = "force" /\ Active # {}
                 \/ \E i \in Active : job[i].kind = "force"

FirstStep(kind) == CASE kind = "load"  -> "check_asset"
                     [] kind = "force" -> "clean"
                     [] OTHER          -> "retrieve"

StartJob(j) ==
    /\ At(j, "new") /\ \A i \in Jobs : i < j => ~At(i, "new")
    /\ (Active = {} \/ j \in Together) /\ catalog \in Sites
    /\ \E n \in Names :
         LET card == Resolved(Retrieve(catalog, n, "default")) IN
         CASE card.tag # "ok"      -> Begin(j, "card", "failed") /\ UNCHANGED spoiled
           [] card.uri[1] = "file" -> Begin(j, "card", "done") /\ UNCHANGED spoiled
           [] OTHER ->
                \E kind \in {"load", "force", "local"} :
                   /\ Begin(j, kind, FirstStep(kind))
                   /\ spoiled' = (spoiled \/ Forcing(kind))
    /\ UNCHANGED <<cardVars, format, cacheVars, kills>>

\* The cards of the other catalogs are only looked at.
Browse ==
    /\ catalog \notin Sites
    /\ \E n \in Names, asked \in Asked : LookUp(n, asked)
    /\ UNCHANGED <<catalog, format, cacheVars, job, kills, spoiled>>

-----------------------------------------------------------------------------
\* remove_directory(): the entries are listed, then unlinked one by one, then the
\* directory is removed.  `why' says what it is for: to clean the cache, to finish
\* an extraction, or to leave nothing behind after an error.
Removal(j, d, why) ==
    IF ~Exists(d) THEN
      job' = [job EXCEPT ![j].pc = CASE why = "clean"  -> "cleaned"
                                     [] OTHER          -> "failed",
                         ![j].dir = d, ![j].why = why]
    ELSE job' = [job EXCEPT ![j].pc = "unlink", ![j].todo = cache[d],
                            ![j].dir = d, ![j].why = why]

\* FileNotFoundError is only caught while the cache is cleaned.
RemovalMissing(j) ==
    IF job[j].why = "clean" THEN Go(j, "cleaned") ELSE Fails(j)

Unlink(j) ==
    /\ At(j, "unlink") /\ job[j].todo # {}
    /\ LET d == job[j].dir IN
       \E e \in job[j].todo :
         IF Has(d, e)
         THEN /\ cache' = [cache EXCEPT ![d] = @ \ {e}]
              /\ job' = [job EXCEPT ![j].todo = @ \ {e}]
         ELSE RemovalMissing(j) /\ UNCHANGED cache
    /\ UNCHANGED <<cardVars, format, received, named, members, kills, spoiled>>

AfterRemoval(j) ==
    CASE job[j].why = "clean"  -> Go(j, "cleaned")
      [] job[j].why = "finish" -> Go(j, "retrieve")
      [] OTHER                 -> Go(j, "failed")

Rmdir(j) ==
    /\ At(j, "unlink") /\ job[j].todo = {}
    /\ LET d == job[j].dir IN
       CASE ~Exists(d)     -> RemovalMissing(j) /\ UNCHANGED cache
         [] Exists(d) /\ cache[d] # {} -> Fails(j) /\ UNCHANGED cache
         [] OTHER          -> AfterRemoval(j) /\ cache' = [cache EXCEPT ![d] = Absent]
    /\ UNCHANGED <<cardVars, format, received, named, members, kills, spoiled>>

\* _clean_cached_asset(): the asset, the download and the temporary directory.
Clean(j) ==
    /\ At(j, "clean") /\ Removal(j, "asset", "clean")
    /\ UNCHANGED <<cardVars, format, cacheVars, kills, spoiled>>

CleanNext(j) ==
    /\ At(j, "cleaned")
    /\ CASE job[j].dir = "asset"    -> Removal(j, "download", "clean") /\ UNCHANGED spoiled
         [] job[j].dir = "download" -> Removal(j, "tmp", "clean") /\ UNCHANGED spoiled
         [] OTHER -> Go(j, "check_asset") /\ spoiled' = (spoiled /\ ~job[j].alone)
    /\ UNCHANGED <<cardVars, format, cacheVars, kills>>

-----------------------------------------------------------------------------
\* _download_asset(): nothing to do if there is an asset or a download.
\* Mutant of CheckAsset: an asset directory is taken for an extracted asset.
CheckAssetOnly(j) ==
    /\ At(j, "check_asset")
    /\ Go(j, IF Exists("asset") THEN "retrieve" ELSE "check_download")
    /\ UNCHANGED <<cardVars, format, cacheVars, kills, spoiled>>

CheckAsset(j) ==
    /\ At(j, "check_asset")
    /\ Go(j, IF Exists("asset") THEN "check_extracted" ELSE "check_download")
    /\ UNCHANGED <<cardVars, format, cacheVars, kills, spoiled>>

CheckDownload(j) ==
    /\ At(j, "check_download")
    /\ Go(j, IF Exists("download") THEN "check_extracted" ELSE "make_tmp")
    /\ UNCHANGED <<cardVars, format, cacheVars, kills, spoiled>>

MakeTmp(j) ==
    /\ At(j, "make_tmp") /\ Go(j, "open")
    /\ cache' = [cache EXCEPT !["tmp"] = IF @ = Absent THEN {} ELSE @]
    /\ UNCHANGED <<cardVars, format, received, named, members, kills, spoiled>>

\* An error, whether of the server or of the job itself: the exit stack removes what
\* there is of the temporary directory.
Abandon(j, fault) ==
    LET end == [job[j] EXCEPT !.fault = fault, !.dir = "tmp", !.why = "abandon"] IN
    /\ job' = [job EXCEPT ![j] = IF Exists("tmp")
                                 THEN [end EXCEPT !.pc = "unlink", !.todo = cache["tmp"]]
                                 ELSE [end EXCEPT !.pc = "failed"]]
    /\ spoiled' = (spoiled \/ ~job[j].alone)

\* The request is made, and the file opened in the temporary directory, if it is
\* still there.
Open(j) ==
    /\ At(j, "open")
    /\ IF Exists("tmp")
       THEN /\ Go(j, "receive") /\ UNCHANGED spoiled
            /\ cache' = [cache EXCEPT !["tmp"] = @ \cup {File(j)}]
       ELSE Abandon(j, FALSE) /\ UNCHANGED cache
    /\ UNCHANGED <<cardVars, format, received, named, members, kills>>

\* The file is written wherever its directory is by now.
Receive(j) ==
    /\ At(j, "receive") /\ received[j] < Chunks
    /\ received' = [received EXCEPT ![j] = @ + 1]
    /\ UNCHANGED <<cardVars, format, cache, named, members, job, kills, spoiled>>

\* The server is not reachable, returns an error or sends too little.
ServerFails(j) ==
    /\ At(j, "open") \/ (At(j, "receive") /\ received[j] < Chunks)
    /\ Abandon(j, TRUE)
    /\ UNCHANGED <<cardVars, format, cacheVars, kills>>

\* The file gets its final name; another job's of the same name is replaced.
SameName(entries) == {File(i) : i \in {x \in Jobs : named[x] /\ File(x) \in entries}}

NameFile(j) ==
    /\ At(j, "receive") /\ received[j] = Chunks
    /\ IF Has("tmp", File(j))
       THEN /\ Go(j, "publish") /\ UNCHANGED spoiled
            /\ named' = [named EXCEPT ![j] = TRUE]
            /\ cache' = [cache EXCEPT !["tmp"] = (@ \ SameName(@)) \cup {File(j)}]
       ELSE Abandon(j, FALSE) /\ UNCHANGED <<cache, named>>
    /\ UNCHANGED <<cardVars, format, received, members, kills>>

\* A directory is only renamed over an empty one.
Publish(j) ==
    /\ At(j, "publish")
    /\ IF Exists("tmp") /\ cache["download"] \in {Absent, {}}
       THEN /\ Go(j, "check_extracted") /\ UNCHANGED spoiled
            /\ cache' = [cache EXCEPT !["download"] = cache["tmp"], !["tmp"] = Absent]
       ELSE Abandon(j, FALSE) /\ UNCHANGED cache
    /\ UNCHANGED <<cardVars, format, received, named, members, kills>>

-----------------------------------------------------------------------------
\* _ensure_asset_extracted(): a download directory is what is not extracted yet.
CheckExtracted(j) ==
    /\ At(j, "check_extracted")
    /\ Go(j, IF Exists("download") THEN "make_asset" ELSE "retrieve")
    /\ UNCHANGED <<cardVars, format, cacheVars, kills, spoiled>>

MakeAsset(j) ==
    /\ At(j, "make_asset") /\ Go(j, "pick")
    /\ cache' = [cache EXCEPT !["asset"] = IF @ = Absent THEN {} ELSE @]
    /\ UNCHANGED <<cardVars, format, received, named, members, kills, spoiled>>

\* The suffix of a zip archive is part of its final name; a tar archive, compressed
\* or not, is recognized by its first block.
IsArchive(f) == \/ format = "zip" /\ named[f]
                \/ format \in {"tar", "tgz"} /\ received[f] > 0

\* Mutant of Pick: the download directory is gone once the archive is open.
PickAndRemove(j) ==
    /\ At(j, "pick") /\ Exists("download")
    /\ \E f \in {x \in Jobs : File(x) \in cache["download"]} :
          /\ job' = [job EXCEPT ![j].pc = IF IsArchive(f) THEN "extract" ELSE "retrieve",
                                ![j].file = f, ![j].step = 0]
          /\ cache' = [cache EXCEPT !["download"] = Absent,
                                    !["asset"] = IF IsArchive(f) THEN @ ELSE @ \cup {File(f)}]
    /\ UNCHANGED <<cardVars, format, received, named, members, kills, spoiled>>

\* Whichever file iterdir() gives first; one with a temporary name was left there by
\* a job that was killed, or is that of another one.
Pick(j) ==
    /\ At(j, "pick")
    /\ CASE ~Exists("download")     -> Fails(j) /\ UNCHANGED spoiled
         [] cache["download"] = {}  -> Go(j, "retrieve") /\ UNCHANGED spoiled
         [] OTHER ->
              \E f \in {x \in Jobs : File(x) \in cache["download"]} :
                 /\ job' = [job EXCEPT ![j].pc = IF IsArchive(f) THEN "extract" ELSE "move",
                                       ![j].file = f, ![j].step = 0]
                 /\ spoiled' = (spoiled \/ ~named[f])
    /\ UNCHANGED <<cardVars, format, cacheVars, kills>>

MoveFile(j) ==
    /\ At(j, "move")
    /\ LET f == File(job[j].file) IN
       IF Has("download", f) /\ Exists("asset")
       THEN /\ Go(j, "finish")
            /\ cache' = [cache EXCEPT
                 !["asset"] = (IF named[job[j].file] THEN @ \ SameName(@) ELSE @) \cup {f},
                 !["download"] = @ \ {f}]
       ELSE Fails(j) /\ UNCHANGED cache
    /\ UNCHANGED <<cardVars, format, received, named, members, kills, spoiled>>

\* The members are extracted in order, each into a file that is truncated first.  A
\* tar archive that was not received whole may seem to end with its last whole
\* member; the compressed one cannot be opened.
Extract(j) ==
    /\ At(j, "extract") /\ job[j].step < 2 * Cardinality(Members)
    /\ LET f == job[j].file
           k == job[j].step \div 2 + 1
       IN  IF format = "tgz" \/ k > received[f]
           THEN /\ Fails(j) \/ (format = "tar" /\ Go(j, "drop"))
                /\ UNCHANGED <<cache, members>>
           ELSE /\ job' = [job EXCEPT ![j].step = @ + 1]
                /\ members' = [members EXCEPT ![k] = IF job[j].step % 2 = 0 THEN "partial"
                                                     ELSE "whole"]
                /\ cache' = [cache EXCEPT !["asset"] = (IF @ = Absent THEN {} ELSE @)
                                                       \cup {Member(k)}]
    /\ UNCHANGED <<cardVars, format, received, named, kills, spoiled>>

\* The file system fails in the middle.
ExtractFails(j) ==
    /\ At(j, "extract")
    /\ job' = [job EXCEPT ![j].pc = "failed", ![j].fault = TRUE]
    /\ spoiled' = (spoiled \/ ~job[j].alone)
    /\ UNCHANGED <<cardVars, format, cacheVars, kills>>

\* The archive is removed, if that is possible, before its directory.
Drop(j) ==
    /\ At(j, "drop") \/ (At(j, "extract") /\ job[j].step = 2 * Cardinality(Members))
    /\ Go(j, "finish")
    /\ cache' = [cache EXCEPT !["download"] = IF @ = Absent THEN @ ELSE @ \ {File(job[j].file)}]
    /\ UNCHANGED <<cardVars, format, received, named, members, kills, spoiled>>

Finish(j) ==
    /\ At(j, "finish") /\ Removal(j, "download", "finish")
    /\ UNCHANGED <<cardVars, format, cacheVars, kills, spoiled>>

-----------------------------------------------------------------------------
\* _retrieve_asset_path(): the only file of the asset directory, or the directory.
WholeFile(f) == named[f] /\ received[f] = Chunks
Whole ==
    IF format = "plain" THEN \E f \in Jobs : cache["asset"] = {File(f)} /\ WholeFile(f)
    ELSE cache["asset"] = {Member(k) : k \in Members} /\ \A k \in Members : members[k] = "whole"

Cached == cache["asset"] \notin {Absent, {}}

Look(j, r, then) ==
    job' = [job EXCEPT ![j].pc = then, ![j].got[r] = IF Whole THEN "whole" ELSE "partial"]

\* The end of the call of rank 0, or of the only call.
Find(j) ==
    /\ At(j, "retrieve")
    /\ IF ~Cached THEN Fails(j)
       ELSE IF job[j].kind = "load" THEN Go(j, "barrier")
       ELSE Look(j, 0, "done")
    /\ UNCHANGED <<cardVars, format, cacheVars, kills, spoiled>>

\* Behind the barrier every rank looks for itself, with local_only.
RankFinds(j, r) ==
    /\ At(j, "barrier") /\ job[j].got[r] = "none"
    /\ IF ~Cached THEN Fails(j)
       ELSE Look(j, r, IF \A q \in Ranks \ {r} : job[j].got[q] # "none" THEN "done"
                       ELSE "barrier")
    /\ UNCHANGED <<cardVars, format, cacheVars, kills, spoiled>>

\* A job is killed.  What it leaves is whole for the jobs to come, unless it was
\* cleaning the cache, or not alone.
Kill(j) ==
    /\ j \in Active /\ kills < MaxKills
    /\ kills' = kills + 1 /\ Go(j, "killed")
    /\ spoiled' = (\/ spoiled \/ ~job[j].alone
                   \/ job[j].why = "clean" /\ job[j].pc \in {"unlink", "cleaned"})
    /\ UNCHANGED <<cardVars, format, cacheVars>>

JobStep(j) ==
    \/ Unlink(j) \/ Rmdir(j) \/ Clean(j) \/ CleanNext(j)
    \/ CheckAsset(j) \/ CheckDownload(j) \/ MakeTmp(j) \/ Open(j) \/ Receive(j)
    \/ ServerFails(j) \/ NameFile(j) \/ Publish(j)
    \/ CheckExtracted(j) \/ MakeAsset(j) \/ Pick(j) \/ MoveFile(j)
    \/ Extract(j) \/ ExtractFails(j) \/ Drop(j) \/ Finish(j)
    \/ Find(j) \/ \E r \in Ranks : RankFinds(j, r)

DownloadsNext ==
    \/ Browse
    \/ \E j \in Jobs : StartJob(j) \/ JobStep(j) \/ Kill(j)

DownloadsSpec == DownloadsInit /\ [][DownloadsNext]_downloadVars

-----------------------------------------------------------------------------
Quiet == Active = {}

\* An asset directory without a download directory beside it holds the whole asset:
\* the order of the two renames, of the extraction and of the removal of what was
\* downloaded lets any later job go by what it finds, whenever the job that wrote
\* them was killed, or its server failed.
CachedWhole == Quiet /\ ~spoiled /\ Cached /\ ~Exists("download") => Whole

\* "If force is True, the model checkpoint will be downloaded even if it is already
\* in cache": such a call makes good whatever was left in the cache; a load does so
\* too, unless what was left was spoiled, and all of its ranks find the same.
Undisturbed(j) ==
    /\ job[j].alone /\ ~job[j].fault /\ job[j].pc \in {"done", "failed"}
    /\ \A i \in Jobs : i > j => At(i, "new")

LoadsHeal ==
    \A j \in Jobs :
        Undisturbed(j) /\ format # "tgz" /\
        (job[j].kind = "force" \/ (job[j].kind = "load" /\ ~spoiled)) =>
          /\ job[j].pc = "done"
          /\ \A r \in Ranks : job[j].kind = "load" \/ r = 0 => job[j].got[r] = "whole"

\* download_model: "Returns the path to the downloaded model checkpoint."
LoadedWhole ==
    \A j \in Jobs : job[j].kind \in {"load", "force"} /\ job[j].alone =>
        \A r \in Ranks : job[j].got[r] # "partial"
=============================================================================
