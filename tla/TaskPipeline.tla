----------------------------- MODULE TaskPipeline -----------------------------
(***************************************************************************)
(* Process of internal/unpack/unpacker.go, run by several task handlers at  *)
(* once: the stages of a task, the semaphores of the Unpacker that bound    *)
(* each stage for the whole client, the retries of the download, and the    *)
(* ways out of every stage: success, an error, the end of the task's        *)
(* context, and a panic, which runTaskSafely recovers from.                 *)
(*                                                                          *)
(* What the stages do to files is abstracted; the ACB stage is AcbExport.   *)
(***************************************************************************)
EXTENDS Integers, FiniteSets

CONSTANTS Runs,        \* calls of Process
          Cap,         \* the capacity of each semaphore
          MaxRetries   \* maxRetries of downloadBundle (4 in the code)

Sems == {"download", "studio", "post", "usm"}

ASSUME PipelineAssumption ==
    /\ IsFiniteSet(Runs)
    /\ Cap \in [Sems -> Nat \ {0}]
    /\ MaxRetries \in Nat \ {0}

VARIABLES
    st,     \* the stage of each run
    tries,  \* downloads it has tried
    used,   \* len of each semaphore channel
    dead    \* runs whose context is done

vars == <<st, tries, used, dead>>

Waiting == {"waitDownload", "waitStudio", "waitPost", "waitUsm", "waitFinal"}
Ended   == {"done", "failed", "panicked", "panickedInExport"}
Stages  == {"start", "downloading", "downloadPause", "exporting", "posting",
            "usm", "acb", "finalizing", "packing"} \cup Waiting \cup Ended

Init ==
    /\ st = [r \in Runs |-> "start"]
    /\ tries = [r \in Runs |-> 0]
    /\ used = [s \in Sems |-> 0]
    /\ dead = {}

Goto(r, from, to) == st[r] = from /\ st' = [st EXCEPT ![r] = to]

\* acquireSemaphore: a slot, or the end of the context; with both, either.
Acquire(r, s, from, to) ==
    /\ Goto(r, from, to)
    /\ used[s] < Cap[s]
    /\ used' = [used EXCEPT ![s] = @ + 1]

\* releaseSemaphore, for each semaphore in S.
Release(S) == used' = [s \in Sems |-> IF s \in S THEN used[s] - 1 ELSE used[s]]

\* Mutant: it waits for a slot only.
GiveUpNever(r, from, S) == FALSE

\* The select takes the end of the context; what is held in S is given back.
GiveUp(r, from, S) == r \in dead /\ Goto(r, from, "failed") /\ Release(S)

-----------------------------------------------------------------------------
(* Download.                                                                *)

Start(r) ==
    /\ \/ Goto(r, "start", "waitDownload")
       \/ Goto(r, "start", "failed")
    /\ UNCHANGED <<tries, used, dead>>

EnterDownload(r) ==
    /\ \/ Acquire(r, "download", "waitDownload", "downloading")
       \/ GiveUp(r, "waitDownload", {})
    /\ UNCHANGED <<tries, dead>>

RetryLeft(r) == tries'[r] < MaxRetries

\* downloadBundleOnce and what follows it.  The semaphore is released by a
\* deferred call: on success, on failure, and on a panic.
Download(r) ==
    /\ tries' = [tries EXCEPT ![r] = @ + 1]
    /\ \/ Goto(r, "downloading", "waitStudio") /\ Release({"download"})
       \/ /\ r \in dead \/ ~RetryLeft(r)
          /\ Goto(r, "downloading", "failed") /\ Release({"download"})
       \/ /\ r \notin dead /\ RetryLeft(r)
          /\ Goto(r, "downloading", "downloadPause") /\ UNCHANGED used
    /\ UNCHANGED dead

DownloadPause(r) ==
    /\ \/ Goto(r, "downloadPause", "downloading") /\ UNCHANGED used
       \/ GiveUp(r, "downloadPause", {"download"})
    /\ UNCHANGED <<tries, dead>>

-----------------------------------------------------------------------------
(* ExtractUnityAssetBundle, under the assetStudio semaphore, and in it      *)
(* postProcessExportedFiles, under the postProcess semaphore.               *)

EnterExport(r) ==
    /\ \/ Acquire(r, "studio", "waitStudio", "exporting")
       \/ GiveUp(r, "waitStudio", {})
    /\ UNCHANGED <<tries, dead>>

\* The end of ExtractUnityAssetBundle: nothing to post-process, or an error.
Export(r) ==
    /\ \/ Goto(r, "exporting", "waitPost") /\ UNCHANGED used
       \/ Goto(r, "exporting", "waitFinal") /\ Release({"studio"})
       \/ Goto(r, "exporting", "failed") /\ Release({"studio"})
    /\ UNCHANGED <<tries, dead>>

EnterPost(r) ==
    /\ \/ Acquire(r, "post", "waitPost", "posting")
       \/ GiveUp(r, "waitPost", {"studio"})
    /\ UNCHANGED <<tries, dead>>

\* handleUSMFiles finds USM files to decode, or none, or fails to look.
Post(r) ==
    /\ \/ Goto(r, "posting", "waitUsm") /\ UNCHANGED used
       \/ Goto(r, "posting", "acb") /\ UNCHANGED used
       \/ Goto(r, "posting", "failed") /\ Release({"post", "studio"})
    /\ UNCHANGED <<tries, dead>>

EnterUsm(r) ==
    /\ \/ Acquire(r, "usm", "waitUsm", "usm")
       \/ GiveUp(r, "waitUsm", {"post", "studio"})
    /\ UNCHANGED <<tries, dead>>

\* Mutant: an error leaves the loop without releasing.
UsmLeaks(r) ==
    /\ \/ Goto(r, "usm", "acb") /\ Release({"usm"})
       \/ Goto(r, "usm", "failed") /\ Release({"post", "studio"})
    /\ UNCHANGED <<tries, dead>>

Usm(r) ==
    /\ \/ Goto(r, "usm", "acb") /\ Release({"usm"})
       \/ Goto(r, "usm", "failed") /\ Release({"usm", "post", "studio"})
    /\ UNCHANGED <<tries, dead>>

\* handleACBFiles, the WAV and the PNG files.
Acb(r) ==
    /\ \/ Goto(r, "acb", "waitFinal")
       \/ Goto(r, "acb", "failed")
    /\ Release({"post", "studio"})
    /\ UNCHANGED <<tries, dead>>

-----------------------------------------------------------------------------
(* finalizeExportRoot, then the manifest, its validation and the archive.   *)

EnterFinal(r) ==
    /\ \/ Acquire(r, "post", "waitFinal", "finalizing")
       \/ GiveUp(r, "waitFinal", {})
    /\ UNCHANGED <<tries, dead>>

Finalize(r) ==
    /\ \/ Goto(r, "finalizing", "packing")
       \/ Goto(r, "finalizing", "failed")
    /\ Release({"post"})
    /\ UNCHANGED <<tries, dead>>

Pack(r) ==
    /\ \/ Goto(r, "packing", "done")
       \/ Goto(r, "packing", "failed")
    /\ UNCHANGED <<tries, used, dead>>

\* Mutant: the postProcess semaphore is released after the call, not deferred.
ReleasedByDefer(stage) ==
    CASE stage = "usm" -> {"usm"}
      [] stage \in {"finalizing", "acb", "posting"} -> {}
      [] OTHER -> {}

\* The semaphores that a panic in a stage gives back: those whose release is
\* deferred.  The one of assetStudio is an ordinary call after Extract.
Deferred(stage) ==
    CASE stage = "usm" -> {"usm", "post"}
      [] stage \in {"posting", "acb", "finalizing"} -> {"post"}
      [] OTHER -> {}

InExport == {"exporting", "posting", "usm", "acb"}

\* A panic on the handler's goroutine.
Panic(r) ==
    /\ st[r] \in InExport \cup {"finalizing", "packing"}
    /\ st' = [st EXCEPT ![r] = IF @ \in InExport THEN "panickedInExport" ELSE "panicked"]
    /\ Release(Deferred(st[r]))
    /\ UNCHANGED <<tries, dead>>

\* The deadline of the task, or a shutdown.
ContextEnds(r) ==
    /\ r \notin dead /\ st[r] \notin Ended
    /\ dead' = dead \cup {r}
    /\ UNCHANGED <<st, tries, used>>

Step(r) ==
    \/ Start(r) \/ EnterDownload(r) \/ Download(r) \/ DownloadPause(r)
    \/ EnterExport(r) \/ Export(r) \/ EnterPost(r) \/ Post(r) \/ EnterUsm(r)
    \/ Usm(r) \/ Acb(r) \/ EnterFinal(r) \/ Finalize(r) \/ Pack(r)

AllEnded == (\A r \in Runs : st[r] \in Ended) /\ UNCHANGED vars

Next == \/ \E r \in Runs : Step(r) \/ Panic(r) \/ ContextEnds(r)
        \/ AllEnded

Spec == Init /\ [][Next]_vars

\* The stages whose work ends at the latest with the task's context: a download, and
\* AssetStudio, which is started under it; and those whose work does not look at
\* it: ffmpeg, started without it, and the decoders.
Bounded   == {"downloading", "exporting"}
Unbounded == {"usm", "acb", "finalizing"}

\* A run that can go on does.  While its context lives, nothing makes the work of a
\* Bounded stage end, and that of an Unbounded one need not end at all.  A context
\* need not end, and nothing need fail.
FairSpec ==
    /\ Spec
    /\ \A r \in Runs :
          WF_vars(/\ st[r] \notin Unbounded
                  /\ st[r] \in Bounded => r \in dead
                  /\ Step(r))

\* The work of the stages S ends: a premise where the code does not see to it.
WorkEnds(S) == \A r \in Runs : []<>(st[r] \notin S)

-----------------------------------------------------------------------------
(* Properties.                                                              *)

TypeOK ==
    /\ st \in [Runs -> Stages]
    /\ tries \in [Runs -> 0..MaxRetries]
    /\ used \in [Sems -> Int]
    /\ dead \subseteq Runs

\* The stages during which the code holds each semaphore.
HoldStages(s) ==
    CASE s = "download" -> {"downloading", "downloadPause"}
      [] s = "studio"   -> {"waitPost", "waitUsm"} \cup InExport
      [] s = "post"     -> {"posting", "waitUsm", "usm", "acb", "finalizing"}
      [] s = "usm"      -> {"usm"}

At(places) == {r \in Runs : st[r] \in places}
Holders(s) == At(HoldStages(s))
Lost       == At({"panickedInExport"})

\* The channels count who holds them, through every error, cancellation and
\* panic: no semaphore ever has more holders than its capacity, and the only
\* slots that are never given back are those of assetStudio, one for each panic
\* inside ExtractUnityAssetBundle.
SlotsAccounted == \A s \in Sems :
    /\ used[s] = Cardinality(Holders(s)) + IF s = "studio" THEN Cardinality(Lost) ELSE 0
    /\ used[s] <= Cap[s]

\* The capacity that concurrency.asset_studio configures stays available: a slot
\* is taken only while a run is in ExtractUnityAssetBundle.
StudioCapacityKept == used["studio"] = Cardinality(Holders("studio"))

\* The order in which the semaphores nest cannot block the runs on each other:
\* as long as no panic has cost an assetStudio slot and the work of each stage
\* ends, every run ends, whether or not any context does.
RunsEnd ==
    [](Lost = {}) /\ WorkEnds(Bounded) /\ WorkEnds(Unbounded) =>
        \A r \in Runs : <>(st[r] \in Ended)

\* A context that ends frees a run wherever it waits or downloads or exports, even if
\* all slots are lost: only ffmpeg or a decoder of its own can keep it from ending.
CancelledEnds == \A r \in Runs :
    []<>(st[r] \notin Unbounded) => (r \in dead ~> st[r] \in Ended)
=============================================================================
