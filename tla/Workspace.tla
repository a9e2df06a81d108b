------------------------------ MODULE Workspace ------------------------------
(***************************************************************************)
(* The files of one task, from AssetStudio's export to the archive: what    *)
(* Process of internal/unpack/unpacker.go and the exporters do to the       *)
(* export root, and what a task that is delivered again finds there.        *)
(*                                                                          *)
(* A path is <<dir, stem, ext>>; dir is "in" (the expected export path) or  *)
(* "root" (anywhere else in the export root).  A file's content is the set  *)
(* of sources it was made from, each tagged with the delivery that exported *)
(* it; a file left half-written by a failed call holds none.  Each stage is *)
(* a step: TaskPipeline and AcbExport have their concurrency, and the names *)
(* two ACB files share.                                                     *)
(***************************************************************************)
EXTENDS Integers, FiniteSets

CONSTANTS Bundles,        \* what AssetStudio may write: sets of paths
          Options,        \* the export options of the tasks: records
          Tracks,         \* the HCA tracks of an ACB file, by its stem
          Clean,          \* sanitizeResultPathPart, where it is not the identity
          KeepFailed, Cleanup,
          MaxDeliveries   \* bound on the deliveries of the task

\* The names and the extensions there may be.
Stems == {p[2] : p \in UNION Bundles} \cup {"dir", "video"}
         \cup (UNION {Tracks[a] : a \in DOMAIN Tracks})
Exts  == {p[3] : p \in UNION Bundles}
         \cup {"usm", "m2v", "mp4", "wav", "mp3", "flac", "webp"}
Path  == {"in", "root"} \X Stems \X Exts

OptionSet == [usm : {"off", "keep", "decode"}, acb : {"off", "keep", "extract", "decode"},
              mp3 : BOOLEAN, flac : BOOLEAN, removeWav : BOOLEAN,
              mp4 : {"off", "m2v", "direct"}, removeM2V : BOOLEAN,
              webp : BOOLEAN, removePNG : BOOLEAN]

ASSUME WorkspaceAssumption ==
    /\ MaxDeliveries \in Nat \ {0}
    /\ KeepFailed \in BOOLEAN /\ Cleanup \in BOOLEAN
    /\ Options \subseteq OptionSet
    /\ \A a, b \in DOMAIN Tracks : a # b => Tracks[a] \cap Tracks[b] = {}

\* AssetStudio writes finitely many files, none in a format that only the conversions
\* make, and ACB files with tracks: an ACB file's content is its tracks here.
ASSUME BundleAssumption ==
    \A b \in Bundles :
        /\ IsFiniteSet(b) /\ b \subseteq Path
        /\ \A p \in b : p[3] \notin {"m2v", "mp4", "mp3", "flac", "webp"}
        /\ \A p \in b : p[3] = "acb" => p[2] \in DOMAIN Tracks /\ Tracks[p[2]] # {}

VARIABLES
    bundle,    \* what the bundle of this task holds
    opts,      \* its export options
    pc,        \* the stage Process is in
    place,     \* the directory that post-processing works on
    files,     \* the export root: path -> content
    delivery,  \* deliveries of the task so far
    left       \* history: the deliveries whose files were left behind since the
               \* directory was last removed, because they failed with keep_failed,
               \* because there is no cleanup, or because the process was killed

vars == <<bundle, opts, pc, place, files, delivery, left>>

Init ==
    /\ bundle \in Bundles /\ opts \in Options
    /\ pc = "idle" /\ place = "in" /\ files = << >>
    /\ delivery = 0 /\ left = {}

-----------------------------------------------------------------------------
(* Files.                                                                   *)

Paths         == DOMAIN files
Ext(p, ext)   == <<p[1], p[2], ext>>
Find(d, ext)  == {p \in Paths : p[3] = ext /\ d \in {p[1], "root"}}
\* files without the paths of gone, those of new added or replaced.
After(new, gone) == [p \in (Paths \cup DOMAIN new) \ gone |->
                        IF p \in DOMAIN new THEN new[p] ELSE files[p]]

\* What the file AssetStudio writes at p is made of: an ACB file, of its tracks.
Sources(p) == IF p[3] = "acb" THEN {<<delivery, p[1], t, "hca">> : t \in Tracks[p[2]]}
                              ELSE {<<delivery, p[1], p[2], p[3]>>}

\* --filter-by-name: what the options let AssetStudio write.
Exported == {p \in bundle : /\ p[3] = "usm" => opts.usm # "off"
                            /\ p[3] = "acb" => opts.acb # "off"}

Step(from, to) == pc = from /\ pc' = to
Keep           == UNCHANGED <<bundle, opts, place, delivery, left>>

-----------------------------------------------------------------------------
(* Process.                                                                 *)

\* The directories are made and the bundle downloaded; what is there stays.
Begin ==
    /\ Step("idle", "export") /\ delivery < MaxDeliveries
    /\ delivery' = delivery + 1
    /\ UNCHANGED <<bundle, opts, place, files, left>>

\* A stage fails before it does anything: its context ended, the download or a
\* listing failed.
Fail == /\ pc \in {"export", "usm", "acb", "wav", "png", "final", "manifest", "archive"}
        /\ pc' = "failed" /\ UNCHANGED files /\ Keep

\* Mutant: what lies outside the expected path is not looked for.
AlwaysExpected(paths) == "in"

\* resolvePostProcessExportPath: the expected path, unless files lie outside it.
PostPath(paths) == IF \E p \in paths : p[1] # "in" THEN "root" ELSE "in"

\* AssetStudio writes every file, or fails after some.
Export ==
    /\ \E written \in SUBSET Exported :
        /\ \/ Step("export", "usm") /\ written = Exported
           \/ Step("export", "failed")
        /\ files' = After([p \in written |-> Sources(p)], {})
    /\ place' = PostPath(DOMAIN files')
    /\ UNCHANGED <<bundle, opts, delivery, left>>

MergedPath == <<place, "dir", "usm">>

\* mergeUSMFiles: os.Create first; the inputs, but for one of that very name, are
\* appended and removed one by one.  They are the parts of one USM file here: of
\* complete files, ExtractUSM reads no further than the end of the first
\* (usm.go:446-449).
Merge ==
    LET inputs     == Find(place, "usm") \ {MergedPath}
        With(done) == After([p \in {MergedPath} |-> UNION {files[u] : u \in done}], done)
    IN  /\ opts.usm = "decode" /\ Cardinality(Find(place, "usm")) > 1
        /\ \E done \in SUBSET inputs :
            /\ \/ Step("usm", "usm") /\ done = inputs
               \/ Step("usm", "failed") /\ done # inputs
            /\ files' = With(done)
        /\ Keep

\* ExportUSM of the only USM file: straight to MP4, or its video stream to M2V
\* and that to MP4.  A failure leaves what was begun.
ExportUsm ==
    /\ opts.usm = "decode" /\ Cardinality(Find(place, "usm")) = 1
    /\ \E u \in Find(place, "usm") :
        LET mp4  == <<place, u[2], "mp4">>
            m2v  == <<place, "video", "m2v">>
            Of(paths, c) == [p \in paths |-> c]
            gone == {u} \cup (IF opts.removeM2V THEN {m2v} ELSE {})
        IN  \/ /\ Step("usm", "acb")
               /\ files' = CASE opts.mp4 = "direct" -> After(Of({mp4}, files[u]), {u})
                             [] opts.mp4 = "off"    -> After(Of({m2v}, files[u]), {u})
                             [] opts.mp4 = "m2v"    -> After(Of({mp4, m2v}, files[u]), gone)
            \/ /\ Step("usm", "failed")
               /\ \/ opts.mp4 = "direct" /\ files' = After(Of({mp4}, {}), {})
                  \/ opts.mp4 # "direct" /\ files' = After(Of({m2v}, {}), {})
                  \/ /\ opts.mp4 = "m2v"
                     /\ files' = After([p \in {mp4, m2v} |-> IF p = mp4 THEN {} ELSE files[u]], {})
    /\ Keep

NoUsm == /\ opts.usm # "decode" \/ Find(place, "usm") = {}
         /\ Step("usm", "acb") /\ UNCHANGED files /\ Keep

\* The extensions of what ExportHCA leaves of a track.
TrackExts == {"wav" : w \in {1} \ (IF opts.removeWav THEN {1} ELSE {})}
             \cup (IF opts.mp3 THEN {"mp3"} ELSE IF opts.flac THEN {"flac"} ELSE {})

\* ExportACB of those in done: their tracks are decoded in a directory of its
\* own and moved beside the ACB file, which is removed, decoded or not.
AcbDone(done) ==
    LET out == IF opts.acb = "extract" THEN {}
               ELSE UNION {{<<a[1], t, e>> : t \in Tracks[a[2]], e \in TrackExts} : a \in done}
        origin(p) == CHOOSE a \in done : a[1] = p[1] /\ p[2] \in Tracks[a[2]]
    IN  After([p \in out |-> {x \in files[origin(p)] : x[3] = p[2]}], done)

ExportAcb ==
    LET acbs == IF opts.acb \in {"off", "keep"} THEN {} ELSE Find(place, "acb") IN
    /\ \E done \in SUBSET acbs :
        /\ \/ Step("acb", "wav") /\ done = acbs
           \/ Step("acb", "failed") /\ done # acbs
        /\ files' = AcbDone(done)
    /\ Keep

-----------------------------------------------------------------------------
(* handleStandaloneWAVFiles.                                                *)

\* Mutant: a WAV file counts as converted if any output exists.
UnconvertedAny(wavs) ==
    IF \E p \in Paths : p[3] \in {"mp3", "flac"} THEN {} ELSE wavs

\* The switch: MP3 wins over FLAC.
Target(w) == Ext(w, IF opts.mp3 THEN "mp3" ELSE "flac")

Converts == opts.mp3 \/ opts.flac

\* The WAV files whose output does not exist yet.
Unconverted(wavs) == IF Converts THEN {w \in wavs : Target(w) \notin Paths} ELSE {}

\* The files once those of done are handled, and the conversion of broken failed.
WavAfter(done, broken) ==
    LET new == Unconverted(done) IN
    After([p \in {Target(w) : w \in new \cup broken} |->
               IF Ext(p, "wav") \in broken THEN {} ELSE files[Ext(p, "wav")]],
          IF opts.removeWav THEN done ELSE {})

WavsIn(dir) == IF Converts \/ opts.removeWav THEN Find(dir, "wav") ELSE {}

\* All are handled, or one conversion fails and leaves its output half-written.
StandaloneWavs ==
    /\ \/ Step("wav", "png") /\ files' = WavAfter(WavsIn(place), {})
       \/ /\ Step("wav", "failed")
          /\ \E w \in Unconverted(WavsIn(place)) : \E done \in SUBSET (WavsIn(place) \ {w}) :
                files' \in {WavAfter(done, {}), WavAfter(done, {w})}
    /\ Keep

\* handlePNGConversion.
Pngs ==
    LET pngs       == IF opts.webp THEN Find(place, "png") ELSE {}
        Webp(done) == After([p \in {Ext(q, "webp") : q \in done} |-> files[Ext(p, "png")]],
                            IF opts.removePNG THEN done ELSE {})
    IN  /\ \E done \in SUBSET pngs :
            /\ \/ Step("png", "final") /\ done = pngs
               \/ Step("png", "failed") /\ done # pngs
            /\ files' = Webp(done)
        /\ Keep

\* finalizeExportRoot: the WAV files again, wherever they are; none is left to fail.
Finalize == Step("final", "manifest") /\ files' = WavAfter(WavsIn("root"), {}) /\ Keep

-----------------------------------------------------------------------------
(* The manifest, its check and the archive.                                 *)

\* sanitizeResultRelativePath.
Sanitized(p) == <<p[1], IF p[2] \in DOMAIN Clean THEN Clean[p[2]] ELSE p[2], p[3]>>

Entries == {<<Sanitized(p), files[p]>> : p \in Paths}

\* rejectDuplicateResultPaths, and seen in createArchive.
Duplicate == \E p, q \in Paths : p # q /\ Sanitized(p) = Sanitized(q)

Has(ext) == \E p \in Paths : p[3] = ext

\* Mutant: an output is expected although there was nothing to convert.
ExpectedAlways ==
    /\ opts.acb \in {"decode", "extract"} =>
           /\ opts.mp3 => Has("mp3")
           /\ opts.flac /\ Has("wav") => Has("flac")
    /\ opts.removeWav /\ Converts => ~Has("wav")

\* validateExpectedManifestOutputs finds nothing wrong.
Expected ==
    /\ opts.acb \in {"decode", "extract"} =>
           /\ opts.mp3 /\ Has("wav") => Has("mp3")
           /\ opts.flac /\ Has("wav") => Has("flac")
    /\ opts.removeWav /\ Converts => ~Has("wav")
    /\ opts.mp4 # "off" /\ Has("m2v") => Has("mp4")
    /\ opts.webp /\ opts.removePNG /\ Has("png") => Has("webp")

\* buildManifest and its refusal of duplicates, then the check.
Manifest ==
    /\ \/ ~Duplicate /\ Expected /\ Step("manifest", "archive")
       \/ ~Duplicate /\ ~Expected /\ Step("manifest", "refused")
       \/ Duplicate /\ Step("manifest", "failed")
    /\ UNCHANGED files /\ Keep

\* createArchive writes an entry for each file.
Archive == Step("archive", "packed") /\ UNCHANGED files /\ Keep

\* Mutant: the files of a task that succeeded stay.
RemovesFailed(failed) == Cleanup /\ failed /\ ~KeepFailed

\* cleanupTaskDir of the handler.
Removes(failed) == Cleanup /\ ~(failed /\ KeepFailed)

\* The configuration asks for the files of a task to stay.
Stays(failed) == ~Cleanup \/ (failed /\ KeepFailed)

End ==
    /\ pc \in {"packed", "failed", "refused"}
    /\ pc' = "idle"
    /\ files' = IF Removes(pc # "packed") THEN << >> ELSE files
    /\ left' = IF Stays(pc # "packed") THEN left \cup {delivery} ELSE {}
    /\ UNCHANGED <<bundle, opts, place, delivery>>

\* The process is killed, or the handler panics: nothing is cleaned up.
Crash ==
    /\ pc # "idle"
    /\ pc' = "idle" /\ left' = left \cup {delivery}
    /\ UNCHANGED <<bundle, opts, place, files, delivery>>

Over == pc = "idle" /\ delivery = MaxDeliveries /\ UNCHANGED vars

Next == \/ Begin \/ Fail \/ Export \/ Merge \/ ExportUsm \/ NoUsm \/ ExportAcb
        \/ StandaloneWavs \/ Pngs \/ Finalize \/ Manifest \/ Archive
        \/ End \/ Crash \/ Over

Spec == Init /\ [][Next]_vars

-----------------------------------------------------------------------------
(* Properties.                                                              *)

\* Whether the content x is in an entry of the archive that nothing else shadows.
Packed(x) == \E e \in Entries : x \in e[2] /\ \A f \in Entries : f[1] = e[1] => f = e

\* The sources of this delivery that its options drop: audio that was to be
\* neither kept nor converted, an ACB file extracted only, and the USM file that
\* has the name the merged one gets.
Dropped(x) ==
    \/ x[4] \in {"wav", "hca"} /\ opts.removeWav /\ ~Converts
    \/ x[4] = "hca" /\ opts.acb = "extract"
    \/ x[4] = "usm" /\ opts.usm = "decode" /\ <<x[2], x[3], x[4]>> = MergedPath
       /\ Cardinality({p \in bundle : p[3] = "usm"}) > 1

\* A WAV file of the bundle that a track of an ACB file has the name of.
Shadowed(x) == \E p \in bundle : /\ p[3] = "acb" /\ p[1] = x[2] /\ x[3] \in Tracks[p[2]]
                                 /\ x[4] = "wav"

\* A WAV file that is removed once its output exists, where an earlier delivery may
\* have left that output.
Outdated(x) == left # {} /\ x[4] = "wav" /\ Converts /\ opts.removeWav

\* Nothing AssetStudio wrote is lost between the export and the archive, through
\* every conversion, removal and renaming and whatever earlier deliveries left,
\* unless the options drop it, another file has its name, or it is a WAV file for
\* which an earlier output is taken; several USM files being the parts of one
\* (Process).
DataKept ==
    pc = "packed" =>
        \A p \in Exported : \A x \in Sources(p) :
            Packed(x) \/ Dropped(x) \/ Shadowed(x) \/ Outdated(x)

\* What is archived was made by this delivery, or by one whose files were left since
\* the directory was last removed; and it is whole where there is no such delivery:
\* nothing outlives cleanupTaskDir, and no stage of a successful delivery takes a
\* half-written file of its own for an output (outputFileExistsNonEmpty).
ResultIsOwn ==
    pc = "packed" => \A p \in Paths :
        /\ files[p] = {} => left # {}
        /\ \A x \in files[p] : x[1] \in left \cup {delivery}

\* No archive holds a source its options convert: no ACB or USM file that was to be
\* decoded, and no WAV or PNG file without its own output, wherever AssetStudio
\* wrote it (the check of the manifest asks for any output).
AllConverted ==
    pc = "packed" =>
        /\ opts.acb \in {"extract", "decode"} => ~Has("acb")
        /\ opts.usm = "decode" => ~Has("usm")
        /\ \A p \in Paths : p[3] = "wav" /\ Converts => Target(p) \in Paths /\ ~opts.removeWav
        /\ \A p \in Paths : p[3] = "png" /\ opts.webp => Ext(p, "webp") \in Paths

\* The check of the manifest refuses no result of a run in which every stage
\* succeeded, except where MP3 and FLAC are both asked for and WAV files stay,
\* which no order of conversions can satisfy (validateExpectedManifestOutputs).
RefusalExcused == pc = "refused" => opts.mp3 /\ opts.flac /\ ~opts.removeWav
=============================================================================
