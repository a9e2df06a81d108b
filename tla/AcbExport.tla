------------------------------ MODULE AcbExport ------------------------------
(***************************************************************************)
(* The two nested worker pools of audio export: handleACBFiles of           *)
(* internal/unpack/unpacker.go feeds the ACB files of a task to its workers; *)
(* each runs ExportACB of internal/exporter/acb.go, which feeds the HCA      *)
(* tracks of that file to a pool of its own (exportHCAFiles) and then moves *)
(* the results into the directory of the ACB file (moveResultFiles).         *)
(* All ACB files here lie in one directory.  The workers of a pool are alike, *)
(* so a pool is the number of its jobs that are in hand.                    *)
(***************************************************************************)
EXTENDS Integers, FiniteSets

CONSTANTS Acbs,        \* the ACB files of the task
          Names,       \* names of result files
          Tracks,      \* the names of the tracks of each ACB file
          AcbCap,      \* capacity of acbSem
          HcaWorkers,  \* concurrency.hca: workers of one ACB file
          HcaCap,      \* capacity of hcaSem
          HcaGlobal,   \* concurrency.hca_global: tracks also take hcaSem
          Nobody       \* no result file has that name

ASSUME AcbAssumption ==
    /\ IsFiniteSet(Acbs) /\ IsFiniteSet(Names)
    /\ Tracks \in [Acbs -> SUBSET Names]
    /\ AcbCap \in Nat \ {0} /\ HcaWorkers \in Nat \ {0} /\ HcaCap \in Nat \ {0}
    /\ HcaGlobal \in BOOLEAN
    /\ Nobody \notin Acbs

VARIABLES
    feeder,   \* handleACBFiles: "feeding", "joining", or what it returned
    stopped,  \* sendErr
    job,      \* where each ACB file is
    errs,     \* errors in errChan
    acbUsed,  \* len(acbSem)
    others,   \* slots of it that other tasks hold
    inner,    \* exportHCAFiles of each file: "off", "feeding", "joining", "cut"
    track,    \* where each track is
    hcaUsed,  \* len(hcaSem)
    files,    \* ACB files that still exist
    out,      \* the ACB file whose result has each name in the directory
    ctxDone   \* the task's context is done

vars == <<feeder, stopped, job, errs, acbUsed, others, inner, track, hcaUsed,
          files, out, ctxDone>>

InHand == {"wantSlot", "extract", "hca", "move", "remove"}
Ended  == {"ok", "error"}

Init ==
    /\ feeder = "feeding" /\ stopped = FALSE
    /\ job = [a \in Acbs |-> "unsent"]
    /\ errs = 0 /\ acbUsed = 0 /\ others = 0
    /\ inner = [a \in Acbs |-> "off"]
    /\ track = [a \in Acbs |-> [n \in Tracks[a] |-> "unsent"]]
    /\ hcaUsed = 0
    /\ files = Acbs
    /\ out = [n \in Names |-> Nobody]
    /\ ctxDone = FALSE

Lesser(x, y) == IF x < y THEN x ELSE y

-----------------------------------------------------------------------------
(* handleACBFiles.                                                          *)

Workers == Lesser(Cardinality(Acbs), AcbCap)
Busy    == {a \in Acbs : job[a] \in InHand}

\* Mutants: room for one error only; the rest of the files is skipped silently.
ErrCapOne == 1
StopsSilently == FALSE

\* The capacity of errChan.
ErrCap == Cardinality(Acbs)

\* What sendErr becomes when the context ends the feeding.
StoppedByCtx == TRUE

\* The send loop: hand the next file to an idle worker, or stop on ctx.Done().
Feed ==
    /\ feeder = "feeding"
    /\ \/ \E a \in Acbs : /\ job[a] = "unsent" /\ Cardinality(Busy) < Workers
                          /\ job' = [job EXCEPT ![a] = "wantSlot"]
                          /\ UNCHANGED <<feeder, stopped>>
       \/ /\ ctxDone /\ \E a \in Acbs : job[a] = "unsent"
          /\ feeder' = "joining" /\ stopped' = StoppedByCtx
          /\ UNCHANGED job
       \/ /\ \A a \in Acbs : job[a] # "unsent"
          /\ feeder' = "joining"
          /\ UNCHANGED <<stopped, job>>
    /\ UNCHANGED <<errs, acbUsed, others, inner, track, hcaUsed, files, out, ctxDone>>

\* After wg.Wait: the context's error, the first of the errors, or none.
Join ==
    /\ feeder = "joining" /\ Busy = {}
    /\ feeder' = IF stopped THEN "cancelled" ELSE IF errs > 0 THEN "errors" ELSE "ok"
    /\ UNCHANGED <<stopped, job, errs, acbUsed, others, inner, track, hcaUsed,
                   files, out, ctxDone>>

SlotFree == acbUsed < AcbCap

\* A worker acquires the slot of its job, or reports that the context ended.
TakeSlot(a) ==
    /\ job[a] = "wantSlot"
    /\ \/ /\ SlotFree
          /\ acbUsed' = acbUsed + 1
          /\ job' = [job EXCEPT ![a] = "extract"]
          /\ UNCHANGED errs
       \/ /\ ctxDone /\ errs < ErrCap
          /\ errs' = errs + 1
          /\ job' = [job EXCEPT ![a] = "error"]
          /\ UNCHANGED acbUsed
    /\ UNCHANGED <<feeder, stopped, others, inner, track, hcaUsed, files, out, ctxDone>>

\* Mutant: a failed job keeps its slot.
FailsLeaks(a) == errs < ErrCap /\ errs' = errs + 1 /\ UNCHANGED acbUsed
                 /\ job' = [job EXCEPT ![a] = "error"]

\* The end of a job: an error (or a recovered panic) goes to errChan, which must
\* have room, and the slot is given back.
Fails(a) == errs < ErrCap /\ errs' = errs + 1 /\ acbUsed' = acbUsed - 1
            /\ job' = [job EXCEPT ![a] = "error"]

Advances(a, to) == job' = [job EXCEPT ![a] = to] /\ UNCHANGED <<errs, acbUsed>>

-----------------------------------------------------------------------------
(* ExportACB.                                                               *)

\* MkdirTemp and ExtractACBFromFile into it; then the tracks, if there are any to
\* decode.
Extract(a) ==
    /\ job[a] = "extract"
    /\ \/ Fails(a) /\ UNCHANGED inner
       \/ Tracks[a] # {} /\ Advances(a, "hca") /\ inner' = [inner EXCEPT ![a] = "feeding"]
       \/ Tracks[a] = {} /\ Advances(a, "remove") /\ UNCHANGED inner
    /\ UNCHANGED <<feeder, stopped, others, track, hcaUsed, files, out, ctxDone>>

TracksAt(a, place) == {n \in Tracks[a] : track[a][n] \in place}
TrackTo(a, n, place) == track' = [track EXCEPT ![a][n] = place]

\* The send loop of exportHCAFiles.
FeedTrack(a) ==
    /\ inner[a] = "feeding"
    /\ \/ \E n \in TracksAt(a, {"unsent"}) :
             /\ Cardinality(TracksAt(a, {"wantSlot", "busy"}))
                    < Lesser(HcaWorkers, Cardinality(Tracks[a]))
             /\ TrackTo(a, n, "wantSlot")
             /\ UNCHANGED inner
       \/ /\ ctxDone /\ TracksAt(a, {"unsent"}) # {}
          /\ inner' = [inner EXCEPT ![a] = "cut"] /\ UNCHANGED track
       \/ /\ TracksAt(a, {"unsent"}) = {}
          /\ inner' = [inner EXCEPT ![a] = "joining"] /\ UNCHANGED track
    /\ UNCHANGED <<feeder, stopped, job, errs, acbUsed, others, hcaUsed, files, out, ctxDone>>

\* acquireLimiter: a nil limiter is always free.
TakeTrackSlot(a) == \E n \in TracksAt(a, {"wantSlot"}) :
    /\ \/ /\ HcaGlobal => hcaUsed < HcaCap
          /\ hcaUsed' = IF HcaGlobal THEN hcaUsed + 1 ELSE hcaUsed
          /\ TrackTo(a, n, "busy")
       \/ ctxDone /\ TrackTo(a, n, "error") /\ UNCHANGED hcaUsed
    /\ UNCHANGED <<feeder, stopped, job, errs, acbUsed, others, inner, files, out, ctxDone>>

\* ExportHCA, or a recovered panic in it; the limiter is released either way.
Decode(a) == \E n \in TracksAt(a, {"busy"}) :
    /\ \E how \in Ended : TrackTo(a, n, how)
    /\ hcaUsed' = IF HcaGlobal THEN hcaUsed - 1 ELSE hcaUsed
    /\ UNCHANGED <<feeder, stopped, job, errs, acbUsed, others, inner, files, out, ctxDone>>

\* Mutant: the results are moved although a track failed.
TracksNotCut(a) == inner[a] # "cut"

\* exportHCAFiles returns no error.
TracksDone(a) == inner[a] # "cut" /\ TracksAt(a, {"error"}) = {}

\* The wg.Wait of exportHCAFiles and the errors it returns to ExportACB.
JoinTracks(a) ==
    /\ inner[a] \in {"joining", "cut"}
    /\ TracksAt(a, {"wantSlot", "busy"}) = {}
    /\ inner' = [inner EXCEPT ![a] = "off"]
    /\ IF TracksDone(a) THEN Advances(a, "move") ELSE Fails(a)
    /\ UNCHANGED <<feeder, stopped, others, track, hcaUsed, files, out, ctxDone>>

\* One Rename of moveResultFiles: it replaces a file that has the name.
Move(a) ==
    /\ job[a] = "move"
    /\ \/ \E n \in TracksAt(a, {"ok"}) :
             /\ TrackTo(a, n, "moved")
             /\ out' = [out EXCEPT ![n] = a]
             /\ UNCHANGED <<job, errs, acbUsed>>
       \/ TracksAt(a, {"ok"}) = {} /\ Advances(a, "remove") /\ UNCHANGED <<track, out>>
       \/ Fails(a) /\ UNCHANGED <<track, out>>
    /\ UNCHANGED <<feeder, stopped, others, inner, hcaUsed, files, ctxDone>>

Remove(a) ==
    /\ job[a] = "remove"
    /\ \/ /\ files' = files \ {a}
          /\ acbUsed' = acbUsed - 1
          /\ job' = [job EXCEPT ![a] = "ok"]
          /\ UNCHANGED errs
       \/ Fails(a) /\ UNCHANGED files
    /\ UNCHANGED <<feeder, stopped, others, inner, track, hcaUsed, out, ctxDone>>

\* What a worker and its goroutines do between the decoding of tracks.
Handles(a) == TakeSlot(a) \/ Extract(a) \/ FeedTrack(a) \/ TakeTrackSlot(a)
              \/ JoinTracks(a) \/ Move(a) \/ Remove(a)

Worker(a) == Handles(a) \/ Decode(a)

-----------------------------------------------------------------------------
(* The other tasks of the client, and the end of this one's context.        *)

OthersTake ==
    /\ SlotFree
    /\ acbUsed' = acbUsed + 1 /\ others' = others + 1
    /\ UNCHANGED <<feeder, stopped, job, errs, inner, track, hcaUsed, files, out, ctxDone>>

OthersLeave ==
    /\ others > 0
    /\ acbUsed' = acbUsed - 1 /\ others' = others - 1
    /\ UNCHANGED <<feeder, stopped, job, errs, inner, track, hcaUsed, files, out, ctxDone>>

ContextEnds ==
    /\ ~ctxDone /\ ctxDone' = TRUE
    /\ UNCHANGED <<feeder, stopped, job, errs, acbUsed, others, inner, track,
                   hcaUsed, files, out>>

Next == Feed \/ Join \/ (\E a \in Acbs : Worker(a))
        \/ OthersTake \/ OthersLeave \/ ContextEnds

Spec == Init /\ [][Next]_vars

\* Goroutines run, and a sender on a channel gets its turn (strong fairness of a
\* worker that waits for a slot).  A decoded track is converted by ffmpeg, which no
\* context ends, so nothing is assumed of Decode, nor of the other tasks.
FairSpec ==
    /\ Spec
    /\ WF_vars(Feed) /\ WF_vars(Join)
    /\ \A a \in Acbs : WF_vars(Handles(a)) /\ SF_vars(TakeSlot(a))

\* The work on each track ends, and other tasks give their slots back.
DecodesEnd == \A a \in Acbs : \A n \in Tracks[a] : []<>(track[a][n] # "busy")
OthersEnd  == []<>(others = 0) \/ []<><<OthersLeave>>_vars

-----------------------------------------------------------------------------
(* Properties.                                                              *)

TypeOK ==
    /\ feeder \in {"feeding", "joining", "ok", "errors", "cancelled"}
    /\ stopped \in BOOLEAN /\ ctxDone \in BOOLEAN
    /\ job \in [Acbs -> {"unsent"} \cup InHand \cup Ended]
    /\ errs \in 0..Cardinality(Acbs)
    /\ acbUsed \in 0..AcbCap /\ others \in 0..AcbCap /\ hcaUsed \in Nat
    /\ inner \in [Acbs -> {"off", "feeding", "joining", "cut"}]
    /\ \A a \in Acbs : track[a] \in
           [Tracks[a] -> {"unsent", "wantSlot", "busy", "moved"} \cup Ended]
    /\ files \subseteq Acbs
    /\ out \in [Names -> Acbs \cup {Nobody}]

\* Both limiters count exactly the jobs that run under them, so that a pool that
\* has returned, in whatever way, holds none of the client's slots.
LimitersMatch ==
    /\ acbUsed = others + Cardinality({a \in Busy : job[a] # "wantSlot"})
    /\ hcaUsed = IF ~HcaGlobal THEN 0
                 ELSE Cardinality({p \in Acbs \X Names :
                          p[2] \in TracksAt(p[1], {"busy"})})

\* handleACBFiles returns no error only if every ACB file was exported whole; in
\* particular a context that ends while files are fed is never taken for success.
OkMeansAll == feeder = "ok" => \A a \in Acbs : job[a] = "ok"

\* An ACB file is deleted only when the results of all its tracks are in the
\* directory: after a failure or a cancellation its audio can still be had again.
DeletedAfterMove == \A a \in Acbs \ files : \A n \in Tracks[a] :
    track[a][n] = "moved" /\ out[n] # Nobody

\* Each exported ACB file has its own results in the directory.  ("This avoids
\* race conditions when multiple ACBs share the same track names", acb.go:58.)
ResultsKept == \A a \in Acbs : job[a] = "ok" => \A n \in Tracks[a] : out[n] = a

\* If the work on tracks ends, here and in other tasks, handleACBFiles returns, with
\* or without an end of the context: no worker waits for ever on errChan, on a job,
\* or on a limiter that its own pool has filled.
PoolReturns == DecodesEnd /\ OthersEnd => <>(feeder \in {"ok", "errors", "cancelled"})
=============================================================================
