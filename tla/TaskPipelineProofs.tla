-------------------------- MODULE TaskPipelineProofs --------------------------
(***************************************************************************)
(* Slot accounting of TaskPipeline, for any runs and capacities.            *)
(*                                                                          *)
(* The invariant counts, for each semaphore, the runs whose stage keeps a   *)
(* slot of it taken; a run that panicked inside the export is at such a     *)
(* stage for ever.  Each action changes used by what the move of its run    *)
(* changes in that count.                                                   *)
(***************************************************************************)
EXTENDS TaskPipeline, FiniteSetTheorems, TLAPS

\* The stages at which a slot of s is taken, for good reason or not.
TakenStages(s) == HoldStages(s) \cup IF s = "studio" THEN {"panickedInExport"} ELSE {}

Takes(stage, s) == IF stage \in TakenStages(s) THEN 1 ELSE 0

Typed ==
    /\ st \in [Runs -> Stages]
    /\ tries \in [Runs -> 0..MaxRetries]
    /\ \A r \in Runs :
           /\ st[r] \in {"start", "waitDownload"} => tries[r] = 0
           /\ st[r] \in {"downloading", "downloadPause"} => tries[r] < MaxRetries
    /\ used \in [Sems -> Int]
    /\ dead \subseteq Runs

Counted == \A s \in Sems :
    /\ used[s] = Cardinality(At(TakenStages(s)))
    /\ used[s] <= Cap[s]

IInv == Typed /\ Counted

\* What an action does: one run moves, and each semaphore changes by what the two
\* stages of the move take, never beyond its capacity.
Shifts(r, to) ==
    /\ st' = [st EXCEPT ![r] = to]
    /\ used' \in [Sems -> Int]
    /\ \A s \in Sems :
           /\ used'[s] = used[s] + Takes(to, s) - Takes(st[r], s)
           /\ used'[s] <= used[s] \/ used'[s] <= Cap[s]

-----------------------------------------------------------------------------
\* The runs at given stages are finitely many.
LEMMA AtFinite == \A places : IsFiniteSet(At(places))
  BY PipelineAssumption, FS_Subset DEF PipelineAssumption, At

\* The count of a set of places changes by one at most, as its run leaves or enters.
LEMMA ShiftCounts ==
    ASSUME NEW r \in Runs, NEW to, NEW places, st \in [Runs -> Stages],
           st' = [st EXCEPT ![r] = to]
    PROVE  Cardinality(At(places))' =
               Cardinality(At(places)) + (IF to \in places THEN 1 ELSE 0)
                                       - (IF st[r] \in places THEN 1 ELSE 0)
<1>0. Cardinality(At(places)) \in Int
  BY AtFinite, FS_CardinalityType
<1>1. CASE to \in places /\ st[r] \notin places
  <2>1. At(places)' = At(places) \cup {r} /\ r \notin At(places)
    BY <1>1 DEF At
  <2>2. Cardinality(At(places) \cup {r}) = Cardinality(At(places)) + 1
    BY <2>1, AtFinite, FS_AddElement
  <2> QED
    BY <1>0, <1>1, <2>1, <2>2
<1>2. CASE to \notin places /\ st[r] \in places
  <2>1. At(places)' = At(places) \ {r} /\ r \in At(places)
    BY <1>2 DEF At
  <2>2. Cardinality(At(places) \ {r}) = Cardinality(At(places)) - 1
    BY <2>1, AtFinite, FS_RemoveElement
  <2> QED
    BY <1>0, <1>2, <2>1, <2>2
<1>3. CASE to \in places <=> st[r] \in places
  <2>1. At(places)' = At(places)
    BY <1>3 DEF At
  <2> QED
    BY <1>0, <1>3, <2>1
<1> QED
  BY <1>1, <1>2, <1>3

\* A shift keeps each semaphore equal to the number of its holders.
LEMMA ShiftsCounted ==
    ASSUME IInv, NEW r \in Runs, NEW to, Shifts(r, to)
    PROVE  Counted'
<1> SUFFICES ASSUME NEW s \in Sems
             PROVE  used'[s] = Cardinality(At(TakenStages(s)))' /\ used'[s] <= Cap[s]
  BY DEF Counted
<1>1. Cardinality(At(TakenStages(s)))' =
          Cardinality(At(TakenStages(s))) + Takes(to, s) - Takes(st[r], s)
  BY ShiftCounts DEF Shifts, Takes, IInv, Typed
<1>2. used[s] = Cardinality(At(TakenStages(s))) /\ used[s] <= Cap[s]
  BY DEF IInv, Counted
<1>3. used'[s] \in Int /\ used[s] \in Int /\ Cap[s] \in Nat
  BY PipelineAssumption DEF Shifts, IInv, Typed, PipelineAssumption
<1> QED
  BY <1>1, <1>2, <1>3 DEF Shifts

\* The initial state satisfies the invariant.
LEMMA InitInv == Init => IInv
<1> SUFFICES ASSUME Init PROVE IInv
  OBVIOUS
<1>1. Typed
  BY PipelineAssumption DEF PipelineAssumption, Init, Typed, Stages
<1>2. \A s \in Sems : At(TakenStages(s)) = {}
  BY DEF Init, At, TakenStages, HoldStages, InExport, Sems
<1>3. Counted
  BY <1>2, FS_EmptySet, PipelineAssumption DEF PipelineAssumption, Init, Counted
<1> QED
  BY <1>1, <1>3 DEF IInv

-----------------------------------------------------------------------------
\* The semaphores of which a run at a stage has a slot taken.
Taken(stage) == {s \in Sems : stage \in TakenStages(s)}

\* The slots of each stage, written out.
LEMMA TakenTable ==
    /\ \A stage \in {"start", "waitDownload", "waitStudio", "waitFinal", "packing",
                     "done", "failed", "panicked"} : Taken(stage) = {}
    /\ \A stage \in {"downloading", "downloadPause"} : Taken(stage) = {"download"}
    /\ \A stage \in {"exporting", "waitPost", "panickedInExport"} :
           Taken(stage) = {"studio"}
    /\ \A stage \in {"posting", "waitUsm", "acb"} : Taken(stage) = {"studio", "post"}
    /\ Taken("usm") = {"studio", "post", "usm"}
    /\ Taken("finalizing") = {"post"}
  BY DEF Taken, TakenStages, HoldStages, InExport, Sems

\* The same as a number for one semaphore.
LEMMA TakesIsTaken ==
    ASSUME NEW s \in Sems, NEW stage
    PROVE  Takes(stage, s) = IF s \in Taken(stage) THEN 1 ELSE 0
  BY DEF Takes, Taken

\* The three ways an action moves a run are shifts.
LEMMA StillShifts ==
    ASSUME Typed, NEW r \in Runs, NEW from, NEW to, Goto(r, from, to), UNCHANGED used,
           Taken(to) = Taken(from)
    PROVE  Shifts(r, to)
  BY TakesIsTaken DEF Shifts, Goto, Typed

\* A run that gives back what the next stage does not take.
LEMMA ReleaseShifts ==
    ASSUME Typed, NEW r \in Runs, NEW from, NEW to, NEW S,
           Goto(r, from, to), Release(S),
           S \subseteq Taken(from), Taken(to) = Taken(from) \ S
    PROVE  Shifts(r, to)
<1>1. used' \in [Sems -> Int]
  BY DEF Release, Typed
<1>2. ASSUME NEW s \in Sems
      PROVE  /\ used'[s] = used[s] + Takes(to, s) - Takes(st[r], s)
             /\ used'[s] <= used[s]
  BY <1>2, TakesIsTaken DEF Release, Typed, Goto
<1> QED
  BY <1>1, <1>2 DEF Shifts, Goto

\* A run that acquires the one slot the next stage takes besides.
LEMMA AcquireShifts ==
    ASSUME Typed, NEW r \in Runs, NEW s \in Sems, NEW from, NEW to,
           Acquire(r, s, from, to), s \notin Taken(from), Taken(to) = Taken(from) \cup {s}
    PROVE  Shifts(r, to)
<1>1. /\ used' \in [Sems -> Int] /\ used'[s] = used[s] + 1 /\ used'[s] <= Cap[s]
      /\ \A x \in Sems \ {s} : used'[x] = used[x]
  <2>1. /\ used \in [Sems -> Int] /\ Cap[s] \in Nat
        /\ used[s] < Cap[s] /\ used' = [used EXCEPT ![s] = @ + 1]
    BY PipelineAssumption DEF Acquire, Typed, PipelineAssumption
  <2>2. used[s] \in Int /\ used'[s] = used[s] + 1 /\ \A x \in Sems \ {s} : used'[x] = used[x]
    BY <2>1
  <2> QED
    BY <2>1, <2>2
<1>2. st[r] = from /\ st' = [st EXCEPT ![r] = to]
  BY DEF Acquire, Goto
<1>3. ASSUME NEW x \in Sems
      PROVE  Takes(to, x) - Takes(st[r], x) = IF x = s THEN 1 ELSE 0
  BY <1>2, <1>3, TakesIsTaken
<1>4. \A x \in Sems : Takes(to, x) \in Int /\ Takes(st[r], x) \in Int /\ used[x] \in Int
  BY DEF Takes, Typed
<1> QED
  BY <1>1, <1>2, <1>3, <1>4 DEF Shifts

-----------------------------------------------------------------------------
\* The stages after the download: their actions touch neither tries nor dead.
Late == Stages \ {"start", "waitDownload", "downloading", "downloadPause"}

\* A shift to one of them keeps the types.
LEMMA LateTyped ==
    ASSUME Typed, NEW r \in Runs, NEW to \in Late, Shifts(r, to), UNCHANGED <<tries, dead>>
    PROVE  Typed'
  BY DEF Typed, Shifts, Late

\* Every action of a run is a shift to a stage, and keeps the types.
Shifted(r) == Typed' /\ \E to \in Stages : Shifts(r, to)

\* Which is all there is to such an action.
LEMMA LateShifted ==
    ASSUME Typed, NEW r \in Runs, NEW to \in Late, Shifts(r, to), UNCHANGED <<tries, dead>>
    PROVE  Shifted(r)
  BY LateTyped DEF Shifted, Late

\* The download: its retries are counted, and the slot is held until the end.
LEMMA DownloadShifts ==
    ASSUME Typed, NEW r \in Runs,
           Start(r) \/ EnterDownload(r) \/ Download(r) \/ DownloadPause(r)
    PROVE  Shifted(r)
<1>1. CASE Start(r)
  <2>1. CASE Goto(r, "start", "waitDownload") /\ UNCHANGED used
    <3>1. Shifts(r, "waitDownload")
      BY <2>1, TakenTable, StillShifts
    <3> QED
      BY <1>1, <2>1, <3>1, PipelineAssumption
      DEF Start, Goto, Acquire, Shifted, Shifts, Typed, Stages, Waiting, Ended, PipelineAssumption
  <2>2. CASE Goto(r, "start", "failed") /\ UNCHANGED used
    <3>1. Shifts(r, "failed")
      BY <2>2, TakenTable, StillShifts
    <3> QED
      BY <1>1, <2>2, <3>1, PipelineAssumption
      DEF Start, Goto, Acquire, Shifted, Shifts, Typed, Stages, Waiting, Ended, PipelineAssumption
  <2> QED
    BY <1>1, <2>1, <2>2 DEF Start
<1>2. CASE EnterDownload(r)
  <2>1. CASE Acquire(r, "download", "waitDownload", "downloading")
    <3>1. Shifts(r, "downloading")
      BY <2>1, TakenTable, AcquireShifts DEF Sems
    <3> QED
      BY <1>2, <2>1, <3>1, PipelineAssumption
      DEF EnterDownload, Goto, Acquire, Shifted, Shifts, Typed, Stages, Waiting, Ended, PipelineAssumption
  <2>2. CASE Goto(r, "waitDownload", "failed") /\ Release({})
    <3>1. Shifts(r, "failed")
      BY <2>2, TakenTable, ReleaseShifts
    <3> QED
      BY <1>2, <2>2, <3>1, PipelineAssumption
      DEF EnterDownload, Goto, Acquire, Shifted, Shifts, Typed, Stages, Waiting, Ended, PipelineAssumption
  <2> QED
    BY <1>2, <2>1, <2>2 DEF GiveUp, EnterDownload
<1>3. CASE Download(r)
  <2>1. CASE Goto(r, "downloading", "waitStudio") /\ Release({"download"})
    <3>1. Shifts(r, "waitStudio")
      BY <2>1, TakenTable, ReleaseShifts
    <3> QED
      BY <1>3, <2>1, <3>1, PipelineAssumption
      DEF Download, RetryLeft, Goto, Acquire, Shifted, Shifts, Typed, Stages, Waiting, Ended, PipelineAssumption
  <2>2. CASE Goto(r, "downloading", "failed") /\ Release({"download"})
    <3>1. Shifts(r, "failed")
      BY <2>2, TakenTable, ReleaseShifts
    <3> QED
      BY <1>3, <2>2, <3>1, PipelineAssumption
      DEF Download, RetryLeft, Goto, Acquire, Shifted, Shifts, Typed, Stages, Waiting, Ended, PipelineAssumption
  <2>3. CASE Goto(r, "downloading", "downloadPause") /\ UNCHANGED used
    <3>1. Shifts(r, "downloadPause")
      BY <2>3, TakenTable, StillShifts
    <3> QED
      BY <1>3, <2>3, <3>1, PipelineAssumption
      DEF Download, RetryLeft, Goto, Acquire, Shifted, Shifts, Typed, Stages, Waiting, Ended, PipelineAssumption
  <2> QED
    BY <1>3, <2>1, <2>2, <2>3 DEF Download
<1>4. CASE DownloadPause(r)
  <2>1. CASE Goto(r, "downloadPause", "downloading") /\ UNCHANGED used
    <3>1. Shifts(r, "downloading")
      BY <2>1, TakenTable, StillShifts
    <3> QED
      BY <1>4, <2>1, <3>1, PipelineAssumption
      DEF DownloadPause, Goto, Acquire, Shifted, Shifts, Typed, Stages, Waiting, Ended, PipelineAssumption
  <2>2. CASE Goto(r, "downloadPause", "failed") /\ Release({"download"})
    <3>1. Shifts(r, "failed")
      BY <2>2, TakenTable, ReleaseShifts
    <3> QED
      BY <1>4, <2>2, <3>1, PipelineAssumption
      DEF DownloadPause, Goto, Acquire, Shifted, Shifts, Typed, Stages, Waiting, Ended, PipelineAssumption
  <2> QED
    BY <1>4, <2>1, <2>2 DEF GiveUp, DownloadPause
<1> QED
  BY <1>1, <1>2, <1>3, <1>4

\* The export, and the post-processing inside it.
LEMMA ExportShifts ==
    ASSUME Typed, NEW r \in Runs,
           EnterExport(r) \/ Export(r) \/ EnterPost(r) \/ Post(r) \/ EnterUsm(r) \/ Usm(r) \/ Acb(r)
    PROVE  Shifted(r)
<1>1. CASE EnterExport(r)
  <2>1. CASE Acquire(r, "studio", "waitStudio", "exporting")
    <3>1. Shifts(r, "exporting")
      BY <2>1, TakenTable, AcquireShifts DEF Sems
    <3> QED
      BY <1>1, <3>1, LateShifted DEF EnterExport, Late, Stages, Waiting, Ended
  <2>2. CASE Goto(r, "waitStudio", "failed") /\ Release({})
    <3>1. Shifts(r, "failed")
      BY <2>2, TakenTable, ReleaseShifts
    <3> QED
      BY <1>1, <3>1, LateShifted DEF EnterExport, Late, Stages, Waiting, Ended
  <2> QED
    BY <1>1, <2>1, <2>2 DEF GiveUp, EnterExport
<1>2. CASE Export(r)
  <2>1. CASE Goto(r, "exporting", "waitPost") /\ UNCHANGED used
    <3>1. Shifts(r, "waitPost")
      BY <2>1, TakenTable, StillShifts
    <3> QED
      BY <1>2, <3>1, LateShifted DEF Export, Late, Stages, Waiting, Ended
  <2>2. CASE Goto(r, "exporting", "waitFinal") /\ Release({"studio"})
    <3>1. Shifts(r, "waitFinal")
      BY <2>2, TakenTable, ReleaseShifts
    <3> QED
      BY <1>2, <3>1, LateShifted DEF Export, Late, Stages, Waiting, Ended
  <2>3. CASE Goto(r, "exporting", "failed") /\ Release({"studio"})
    <3>1. Shifts(r, "failed")
      BY <2>3, TakenTable, ReleaseShifts
    <3> QED
      BY <1>2, <3>1, LateShifted DEF Export, Late, Stages, Waiting, Ended
  <2> QED
    BY <1>2, <2>1, <2>2, <2>3 DEF Export
<1>3. CASE EnterPost(r)
  <2>1. CASE Acquire(r, "post", "waitPost", "posting")
    <3>1. Shifts(r, "posting")
      BY <2>1, TakenTable, AcquireShifts DEF Sems
    <3> QED
      BY <1>3, <3>1, LateShifted DEF EnterPost, Late, Stages, Waiting, Ended
  <2>2. CASE Goto(r, "waitPost", "failed") /\ Release({"studio"})
    <3>1. Shifts(r, "failed")
      BY <2>2, TakenTable, ReleaseShifts
    <3> QED
      BY <1>3, <3>1, LateShifted DEF EnterPost, Late, Stages, Waiting, Ended
  <2> QED
    BY <1>3, <2>1, <2>2 DEF GiveUp, EnterPost
<1>4. CASE Post(r)
  <2>1. CASE Goto(r, "posting", "waitUsm") /\ UNCHANGED used
    <3>1. Shifts(r, "waitUsm")
      BY <2>1, TakenTable, StillShifts
    <3> QED
      BY <1>4, <3>1, LateShifted DEF Post, Late, Stages, Waiting, Ended
  <2>2. CASE Goto(r, "posting", "acb") /\ UNCHANGED used
    <3>1. Shifts(r, "acb")
      BY <2>2, TakenTable, StillShifts
    <3> QED
      BY <1>4, <3>1, LateShifted DEF Post, Late, Stages, Waiting, Ended
  <2>3. CASE Goto(r, "posting", "failed") /\ Release({"post", "studio"})
    <3>1. Shifts(r, "failed")
      BY <2>3, TakenTable, ReleaseShifts
    <3> QED
      BY <1>4, <3>1, LateShifted DEF Post, Late, Stages, Waiting, Ended
  <2> QED
    BY <1>4, <2>1, <2>2, <2>3 DEF Post
<1>5. CASE EnterUsm(r)
  <2>1. CASE Acquire(r, "usm", "waitUsm", "usm")
    <3>1. Shifts(r, "usm")
      BY <2>1, TakenTable, AcquireShifts DEF Sems
    <3> QED
      BY <1>5, <3>1, LateShifted DEF EnterUsm, Late, Stages, Waiting, Ended
  <2>2. CASE Goto(r, "waitUsm", "failed") /\ Release({"post", "studio"})
    <3>1. Shifts(r, "failed")
      BY <2>2, TakenTable, ReleaseShifts
    <3> QED
      BY <1>5, <3>1, LateShifted DEF EnterUsm, Late, Stages, Waiting, Ended
  <2> QED
    BY <1>5, <2>1, <2>2 DEF GiveUp, EnterUsm
<1>6. CASE Usm(r)
  <2>1. CASE Goto(r, "usm", "acb") /\ Release({"usm"})
    <3>1. Shifts(r, "acb")
      BY <2>1, TakenTable, ReleaseShifts
    <3> QED
      BY <1>6, <3>1, LateShifted DEF Usm, Late, Stages, Waiting, Ended
  <2>2. CASE Goto(r, "usm", "failed") /\ Release({"usm", "post", "studio"})
    <3>1. Shifts(r, "failed")
      BY <2>2, TakenTable, ReleaseShifts
    <3> QED
      BY <1>6, <3>1, LateShifted DEF Usm, Late, Stages, Waiting, Ended
  <2> QED
    BY <1>6, <2>1, <2>2 DEF Usm
<1>7. CASE Acb(r)
  <2>1. CASE Goto(r, "acb", "waitFinal") /\ Release({"post", "studio"})
    <3>1. Shifts(r, "waitFinal")
      BY <2>1, TakenTable, ReleaseShifts
    <3> QED
      BY <1>7, <3>1, LateShifted DEF Acb, Late, Stages, Waiting, Ended
  <2>2. CASE Goto(r, "acb", "failed") /\ Release({"post", "studio"})
    <3>1. Shifts(r, "failed")
      BY <2>2, TakenTable, ReleaseShifts
    <3> QED
      BY <1>7, <3>1, LateShifted DEF Acb, Late, Stages, Waiting, Ended
  <2> QED
    BY <1>7, <2>1, <2>2 DEF Acb
<1> QED
  BY <1>1, <1>2, <1>3, <1>4, <1>5, <1>6, <1>7

\* The final stages.
LEMMA FinalShifts ==
    ASSUME Typed, NEW r \in Runs,
           EnterFinal(r) \/ Finalize(r) \/ Pack(r)
    PROVE  Shifted(r)
<1>1. CASE EnterFinal(r)
  <2>1. CASE Acquire(r, "post", "waitFinal", "finalizing")
    <3>1. Shifts(r, "finalizing")
      BY <2>1, TakenTable, AcquireShifts DEF Sems
    <3> QED
      BY <1>1, <3>1, LateShifted DEF EnterFinal, Late, Stages, Waiting, Ended
  <2>2. CASE Goto(r, "waitFinal", "failed") /\ Release({})
    <3>1. Shifts(r, "failed")
      BY <2>2, TakenTable, ReleaseShifts
    <3> QED
      BY <1>1, <3>1, LateShifted DEF EnterFinal, Late, Stages, Waiting, Ended
  <2> QED
    BY <1>1, <2>1, <2>2 DEF GiveUp, EnterFinal
<1>2. CASE Finalize(r)
  <2>1. CASE Goto(r, "finalizing", "packing") /\ Release({"post"})
    <3>1. Shifts(r, "packing")
      BY <2>1, TakenTable, ReleaseShifts
    <3> QED
      BY <1>2, <3>1, LateShifted DEF Finalize, Late, Stages, Waiting, Ended
  <2>2. CASE Goto(r, "finalizing", "failed") /\ Release({"post"})
    <3>1. Shifts(r, "failed")
      BY <2>2, TakenTable, ReleaseShifts
    <3> QED
      BY <1>2, <3>1, LateShifted DEF Finalize, Late, Stages, Waiting, Ended
  <2> QED
    BY <1>2, <2>1, <2>2 DEF Finalize
<1>3. CASE Pack(r)
  <2>1. CASE Goto(r, "packing", "done") /\ UNCHANGED used
    <3>1. Shifts(r, "done")
      BY <2>1, TakenTable, StillShifts
    <3> QED
      BY <1>3, <3>1, LateShifted DEF Pack, Late, Stages, Waiting, Ended
  <2>2. CASE Goto(r, "packing", "failed") /\ UNCHANGED used
    <3>1. Shifts(r, "failed")
      BY <2>2, TakenTable, StillShifts
    <3> QED
      BY <1>3, <3>1, LateShifted DEF Pack, Late, Stages, Waiting, Ended
  <2> QED
    BY <1>3, <2>1, <2>2 DEF Pack
<1> QED
  BY <1>1, <1>2, <1>3

\* A panic gives back what is deferred; the slot of assetStudio stays taken by the
\* run, which is at "panickedInExport" for ever.
LEMMA PanicShifts ==
    ASSUME Typed, NEW r \in Runs, Panic(r)
    PROVE  Shifted(r)
<1>1. CASE st[r] \in InExport
  <2>1. Goto(r, st[r], "panickedInExport") /\ Release(Deferred(st[r]))
    BY <1>1 DEF Panic, Goto, Typed
  <2>2. /\ Deferred(st[r]) \subseteq Taken(st[r])
        /\ Taken("panickedInExport") = Taken(st[r]) \ Deferred(st[r])
    BY <1>1, TakenTable DEF InExport, Deferred
  <2>3. Shifts(r, "panickedInExport")
    BY <2>1, <2>2, ReleaseShifts
  <2> QED
    BY <2>3, LateShifted DEF Panic, Late, Stages, Waiting, Ended
<1>2. CASE st[r] \in {"finalizing", "packing"}
  <2>1. Goto(r, st[r], "panicked") /\ Release(Deferred(st[r]))
    BY <1>2 DEF Panic, Goto, Typed, InExport
  <2>2. /\ Deferred(st[r]) \subseteq Taken(st[r])
        /\ Taken("panicked") = Taken(st[r]) \ Deferred(st[r])
    BY <1>2, TakenTable DEF Deferred
  <2>3. Shifts(r, "panicked")
    BY <2>1, <2>2, ReleaseShifts
  <2> QED
    BY <2>3, LateShifted DEF Panic, Late, Stages, Waiting, Ended
<1> QED
  BY <1>1, <1>2 DEF Panic

-----------------------------------------------------------------------------
\* The invariant is inductive.
LEMMA NextInv == IInv /\ [Next]_vars => IInv'
<1> SUFFICES ASSUME IInv, [Next]_vars PROVE IInv'
  OBVIOUS
<1>0. Typed
  BY DEF IInv
<1>1. ASSUME NEW r \in Runs, Step(r) \/ Panic(r) PROVE IInv'
  <2>1. Shifted(r)
    BY <1>0, <1>1, DownloadShifts, ExportShifts, FinalShifts, PanicShifts DEF Step
  <2> QED
    BY <2>1, ShiftsCounted DEF Shifted, IInv
<1>2. ASSUME UNCHANGED <<st, tries, used>>, dead' \subseteq Runs PROVE IInv'
  <2>1. \A places : At(places)' = At(places)
    BY <1>2 DEF At
  <2> QED
    BY <1>2, <2>1 DEF IInv, Typed, Counted
<1>3. ASSUME NEW r \in Runs, ContextEnds(r) PROVE IInv'
  BY <1>0, <1>2, <1>3 DEF ContextEnds, Typed
<1>4. CASE UNCHANGED vars
  BY <1>0, <1>2, <1>4 DEF vars, Typed
<1> QED
  BY <1>1, <1>3, <1>4 DEF Next, AllEnded

\* The inductive invariant of the pipeline: every semaphore counts its holders.
THEOREM Invariance == Spec => []IInv
  BY InitInv, NextInv, PTL DEF Spec

\* Type correctness, with the bound on the retries of a download.
THEOREM TypeCorrect == Spec => []TypeOK
<1>1. IInv => TypeOK
  BY DEF IInv, Typed, TypeOK
<1> QED
  BY <1>1, Invariance, PTL

\* Every semaphore counts its holders, whatever errors, cancellations and panics
\* there were; the slots lost are those of the panics inside the export.
THEOREM SlotsAreAccounted == Spec => []SlotsAccounted
<1>1. ASSUME IInv, NEW s \in Sems
      PROVE  Cardinality(At(TakenStages(s))) =
                 Cardinality(Holders(s)) + IF s = "studio" THEN Cardinality(Lost) ELSE 0
  <2>1. CASE s # "studio"
    <3>1. TakenStages(s) = HoldStages(s)
      BY <2>1 DEF TakenStages
    <3>2. Cardinality(Holders(s)) \in Nat
      BY AtFinite, FS_CardinalityType DEF Holders
    <3> QED
      BY <2>1, <3>1, <3>2 DEF Holders
  <2>2. CASE s = "studio"
    <3>1. At(TakenStages(s)) = Holders(s) \cup Lost /\ Holders(s) \cap Lost = {}
      BY <2>2 DEF At, Holders, Lost, TakenStages, HoldStages, InExport, Sems
    <3>2. Cardinality(Holders(s) \cup Lost) =
              Cardinality(Holders(s)) + Cardinality(Lost) - Cardinality(Holders(s) \cap Lost)
      BY AtFinite, FS_Union DEF Holders, Lost
    <3>3. Cardinality(Holders(s)) \in Nat /\ Cardinality(Lost) \in Nat
      BY AtFinite, FS_CardinalityType DEF Holders, Lost
    <3>4. Cardinality(Holders(s) \cap Lost) = 0
      BY <3>1, FS_EmptySet
    <3>5. Cardinality(At(TakenStages(s))) = Cardinality(Holders(s)) + Cardinality(Lost)
      BY <3>1, <3>2, <3>3, <3>4
    <3> QED
      BY <2>2, <3>5
  <2> QED
    BY <2>1, <2>2
<1>2. IInv => SlotsAccounted
  BY <1>1 DEF IInv, Counted, SlotsAccounted
<1> QED
  BY <1>2, Invariance, PTL
=============================================================================
