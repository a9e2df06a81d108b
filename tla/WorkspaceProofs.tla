--------------------------- MODULE WorkspaceProofs ---------------------------
(***************************************************************************)
(* What one task makes of AssetStudio's files, for any bundles, options and  *)
(* tracks, any number of deliveries, failures and kills.                     *)
(***************************************************************************)
EXTENDS Workspace, FiniteSetTheorems, TLAPS

\* The stages that follow each part of Process that succeeded.
AfterPng    == {"final", "manifest", "archive", "packed"}
AfterWav    == {"png"} \cup AfterPng
AfterAcb    == {"wav"} \cup AfterWav
AfterUsm    == {"acb"} \cup AfterAcb
AfterExport == {"usm"} \cup AfterUsm

Typed ==
    /\ bundle \in Bundles /\ opts \in OptionSet
    /\ pc \in {"idle", "export", "failed", "refused"} \cup AfterExport
    /\ place \in {"in", "root"}
    /\ Paths \subseteq Path
    /\ delivery \in Nat
    /\ pc # "idle" => delivery > 0
    /\ \A d \in left : d \in 1..delivery /\ (d = delivery => pc = "idle")

Videos(paths) == {p \in paths : p[3] = "usm"}

\* Whatever an earlier delivery left: ACB files are the bundle's, so are USM files but
\* for merged ones, which several files of the bundle were merged into, and only the export of a USM file makes a video stream.
Sourced ==
    /\ \A p \in Paths : p[3] = "acb" => p \in bundle
    /\ \A p \in Paths : p[3] = "usm" => p \in bundle \cup {<<d, "dir", "usm">> : d \in {"in", "root"}}
    /\ Has("usm") => Videos(bundle) # {}
    /\ (\E p \in Paths : p[3] = "usm" /\ p \notin bundle) => Cardinality(Videos(bundle)) > 1
    /\ Has("m2v") => opts.usm = "decode" /\ Videos(bundle) # {}

\* What each stage has done when the next one is reached.
Placed    == pc \in AfterExport /\ place = "in" => \A p \in Paths : p[1] = "in"
VideoLeft == pc = "usm" /\ opts.usm = "decode" /\ Videos(bundle) # {} => Find(place, "usm") # {}
VideoDone == pc \in AfterUsm /\ opts.usm = "decode" =>
    /\ ~Has("usm")
    /\ opts.mp4 # "off" /\ Videos(bundle) # {} => Has("mp4")
AcbsDone  == pc \in AfterAcb /\ opts.acb \in {"extract", "decode"} => ~Has("acb")
PngsDone  == pc \in AfterPng /\ opts.webp =>
    \A p \in Paths : p[3] = "png" => ~opts.removePNG /\ Ext(p, "webp") \in Paths
WavsDone  == pc \in {"manifest", "archive", "packed"} /\ Converts =>
    \A p \in Paths : p[3] = "wav" => ~opts.removeWav /\ Target(p) \in Paths
Unique    == pc \in {"archive", "packed"} => ~Duplicate

Staged == /\ Placed /\ VideoLeft /\ VideoDone /\ AcbsDone /\ PngsDone /\ WavsDone
          /\ Unique /\ RefusalExcused

StageInv == Typed /\ Sourced /\ Staged

-----------------------------------------------------------------------------
(* Where the sources of a delivery are, whatever earlier ones left.         *)

\* Nothing was left since the directory was last removed.
Fresh   == left = {}
NoFiles == pc \in {"idle", "export"} /\ Fresh => Paths = {}

\* What is in the files was exported by this delivery or by one that left files.
Whose == left \cup (IF pc = "idle" THEN {} ELSE {delivery})
Tags  == \A p \in Paths : \A x \in files[p] : x[1] \in Whose

\* No file is half-written, where none was left.
Whole == pc \in AfterExport /\ Fresh => \A p \in Paths : files[p] # {}

Untouched(p)  == p \in Paths /\ files[p] = Sources(p)
Kept(x, exts) == \E q \in Paths : q[3] \in exts /\ x \in files[q]

\* The sources of the exported files of one extension.
SourcesOf(ext) == UNION {Sources(p) : p \in {q \in Exported : q[3] = ext}}

\* USM files: as exported, or merged into one but for the one of that name.
AsExported == \A p \in Exported : p[3] = "usm" => Untouched(p)
Merged     == /\ Find(place, "usm") = {MergedPath}
              /\ \A x \in SourcesOf("usm") : x \in files[MergedPath] \/ Dropped(x)

\* The extensions a source of audio may be kept in for good.
AudioExts == {"acb", "mp3", "flac"} \cup (IF opts.removeWav THEN {} ELSE {"wav"})

KeptVideo == /\ pc = "usm" => AsExported \/ Merged
             /\ pc \in AfterUsm => \A x \in SourcesOf("usm") : Kept(x, {"usm", "mp4", "m2v"}) \/ Dropped(x)

KeptTracks ==
    /\ pc \in {"usm", "acb"} => \A p \in Exported : p[3] = "acb" => Untouched(p)
    /\ pc \in AfterAcb => \A x \in SourcesOf("acb") : Kept(x, AudioExts) \/ Dropped(x)

\* Where nothing was left, only tracks are MP3 or FLAC files before the stage of the WAV
\* files.
NoOutput == Fresh =>
    /\ pc \in {"usm", "acb"} => ~Has("mp3") /\ ~Has("flac")
    /\ pc = "wav" => \A q \in Paths : q[3] \in {"mp3", "flac"} =>
           \E p \in bundle : p[3] = "acb" /\ p[1] = q[1] /\ q[2] \in Tracks[p[2]]

KeptWavs ==
    /\ pc \in {"usm", "acb"} => \A p \in Exported : p[3] = "wav" => Untouched(p)
    /\ pc = "wav" => \A p \in Exported : p[3] = "wav" =>
           Untouched(p) \/ \A x \in Sources(p) : Shadowed(x)
    /\ pc \in AfterWav => \A x \in SourcesOf("wav") :
           Kept(x, AudioExts) \/ Dropped(x) \/ Shadowed(x) \/ Outdated(x)

KeptPngs ==
    /\ pc \in AfterExport \ AfterPng => \A p \in Exported : p[3] = "png" => Untouched(p)
    /\ pc \in AfterPng => \A x \in SourcesOf("png") : Kept(x, {"png", "webp"})

KeptRest == pc \in AfterExport =>
    \A p \in Exported : p[3] \notin {"usm", "acb", "wav", "png"} => Untouched(p)

Traced  == /\ Whole /\ KeptVideo /\ KeptTracks /\ NoOutput
           /\ KeptWavs /\ KeptPngs /\ KeptRest

FileInv == NoFiles /\ Tags /\ Traced

IInv == StageInv /\ FileInv

-----------------------------------------------------------------------------
(* Paths, and the files a step leaves.                                      *)

USE DEF Paths, AfterExport, AfterUsm, AfterAcb, AfterWav, AfterPng

\* Another extension gives another path beside the first.
LEMMA ExtPath ==
    \A p \in Path, e \in Exts :
        /\ Ext(p, e) \in Path
        /\ Ext(p, e)[1] = p[1] /\ Ext(p, e)[2] = p[2] /\ Ext(p, e)[3] = e
        /\ Ext(Ext(p, e), p[3]) = p
  BY DEF Ext, Path

\* The names and extensions that post-processing gives its files.
LEMMA GivenNames ==
    /\ "dir" \in Stems /\ "video" \in Stems
    /\ "usm" \in Exts /\ "m2v" \in Exts /\ "mp4" \in Exts /\ "wav" \in Exts
    /\ "mp3" \in Exts /\ "flac" \in Exts /\ "webp" \in Exts
  BY DEF Stems, Exts

\* Three parts of the right kind make a path.
LEMMA MakePath ==
    ASSUME NEW d \in {"in", "root"}, NEW s \in Stems, NEW e \in Exts
    PROVE  <<d, s, e>> \in Path
  BY DEF Path

\* A path is its three parts.
LEMMA PathParts == \A p, q \in Path : p[1] = q[1] /\ p[2] = q[2] /\ p[3] = q[3] => p = q
  BY DEF Path

\* Which files there are once new are written and gone removed.
LEMMA AfterFiles ==
    ASSUME NEW new, NEW gone, files' = After(new, gone)
    PROVE  /\ Paths' = (Paths \cup DOMAIN new) \ gone
           /\ \A p \in Paths' : files'[p] = IF p \in DOMAIN new THEN new[p] ELSE files[p]
  BY DEF After, Paths

\* Only files with an extension in made are written, only those with one in gone are
\* removed, and nothing is written outside the expected path unless something is there.
Touches(made, gone) ==
    /\ Paths' \subseteq Path
    /\ \A p \in Paths' : p[3] \notin made => p \in Paths /\ files'[p] = files[p]
    /\ \A p \in Paths : p[3] \notin gone => p \in Paths'
    /\ place = "in" /\ (\A p \in Paths : p[1] = "in") => \A p \in Paths' : p[1] = "in"

\* It is enough to know what is written and what is removed.
LEMMA AfterTouches ==
    ASSUME Typed, NEW made, NEW removed, NEW new, NEW gone, files' = After(new, gone),
           \A p \in DOMAIN new : p \in Path /\ p[3] \in made,
           \A p \in gone \cap Paths : p[3] \in removed,
           place = "in" /\ (\A p \in Paths : p[1] = "in") => \A p \in DOMAIN new : p[1] = "in"
    PROVE  Touches(made, removed)
<1>1. /\ Paths' = (Paths \cup DOMAIN new) \ gone
      /\ \A p \in Paths' : files'[p] = IF p \in DOMAIN new THEN new[p] ELSE files[p]
  BY AfterFiles
<1>2. Paths \subseteq Path
  BY DEF Typed
<1> QED
  BY <1>1, <1>2 DEF Touches

-----------------------------------------------------------------------------
(* What each stage writes.                                                  *)

\* What is found lies in the expected path, where nothing lies outside it.
LEMMA Found ==
    ASSUME NEW d \in {"in", "root"}, NEW e, Typed
    PROVE  /\ Find(d, e) \subseteq Paths /\ \A p \in Find(d, e) : p \in Path /\ p[3] = e
           /\ d = "in" => \A p \in Find(d, e) : p[1] = "in"
           /\ (d = "in" => \A p \in Paths : p[1] = "in") => \A p \in Paths : p[3] = e => p \in Find(d, e)
  BY DEF Find, Typed, Path

\* The merged file is a path of the directory that is worked on.
LEMMA MergedPathType ==
    ASSUME Typed
    PROVE  MergedPath \in Path /\ MergedPath[3] = "usm" /\ MergedPath[1] = place
<1>1. place \in {"in", "root"}
  BY DEF Typed
<1> QED
  BY <1>1, GivenNames, MakePath DEF MergedPath

\* Merging touches USM files only.
LEMMA MergeTouches ==
    ASSUME Typed, Merge
    PROVE  Touches({"usm"}, {"usm"})
<1>1. PICK done \in SUBSET (Find(place, "usm") \ {MergedPath}) :
          files' = After([p \in {MergedPath} |-> UNION {files[u] : u \in done}], done)
  BY DEF Merge
<1> DEFINE new == [p \in {MergedPath} |-> UNION {files[u] : u \in done}]
<1>2. DOMAIN new = {MergedPath} /\ files' = After(new, done)
  BY <1>1
<1>3. place \in {"in", "root"}
  BY DEF Typed
<1>4. \A p \in DOMAIN new \cup done : p \in Path /\ p[3] = "usm"
  BY <1>1, <1>2, <1>3, Found, MergedPathType
<1> HIDE DEF new
<1> QED
  BY <1>2, <1>4, AfterTouches, MergedPathType

\* What ExportUSM leaves of the file u.
Mp4Of(u) == <<place, u[2], "mp4">>
M2v      == <<place, "video", "m2v">>

\* The outputs of ExportUSM are paths of the directory that is worked on.
LEMMA VideoPaths ==
    ASSUME Typed, NEW u \in Path
    PROVE  /\ Mp4Of(u) \in Path /\ Mp4Of(u)[1] = place /\ Mp4Of(u)[3] = "mp4"
           /\ M2v \in Path /\ M2v[1] = place /\ M2v[3] = "m2v"
<1>1. place \in {"in", "root"} /\ u[2] \in Stems
  BY DEF Typed, Path
<1> QED
  BY <1>1, GivenNames, MakePath DEF Mp4Of, M2v

\* A success leaves the content of the only USM file in an output and removes the file;
\* a failure adds or replaces outputs, with nothing else in them.
LEMMA ExportUsmOutcome ==
    ASSUME Typed, ExportUsm
    PROVE  \E u \in Find(place, "usm") : \E outs \in SUBSET {Mp4Of(u), M2v} :
              \/ /\ pc' = "acb" /\ opts.mp4 # "off" => Mp4Of(u) \in outs
                 /\ \E gone \in SUBSET {u, M2v} :
                        /\ u \in gone /\ \E p \in outs : p \notin gone
                        /\ files' = After([p \in outs |-> files[u]], gone)
              \/ /\ pc' = "failed"
                 /\ \E new : /\ DOMAIN new = outs /\ \A p \in outs : new[p] \subseteq files[u]
                             /\ files' = After(new, {})
<1> PICK u \in Find(place, "usm") :
         LET mp4  == <<place, u[2], "mp4">>
             m2v  == <<place, "video", "m2v">>
             Of(paths, c) == [p \in paths |-> c]
             gone == {u} \cup (IF opts.removeM2V THEN {m2v} ELSE {})
         IN  \/ /\ Step("usm", "acb")
                /\ files' = CASE opts.mp4 = "direct" -> After(Of({mp4}, files[u]), {u})
                              [] opts.mp4 = "off"    -> After(Of({m2v}, files[u]), {u})
                              [] opts.mp4 = "m2v"    -> After(Of({mp4, m2v}, files[u]), gone)
             \/ /\ Step("usm", "failed")
                /\ \/ opts.mp4 = "direct" /\ files' = After(Of({mp4}, {}), {})
                   \/ opts.mp4 # "direct" /\ files' = After(Of({m2v}, {}), {})
                   \/ /\ opts.mp4 = "m2v"
                      /\ files' = After([p \in {mp4, m2v} |-> IF p = mp4 THEN {} ELSE files[u]], {})
  BY DEF ExportUsm
<1>1. u \in Path /\ u[3] = "usm" /\ opts.mp4 \in {"off", "m2v", "direct"}
  BY Found DEF Typed, OptionSet
<1>2. Mp4Of(u) # u /\ M2v # u /\ Mp4Of(u) # M2v
  BY <1>1, VideoPaths
<1>3. CASE pc' = "acb"
  <2>1. CASE opts.mp4 = "direct"
    <3>1. files' = After([p \in {Mp4Of(u)} |-> files[u]], {u})
      BY <1>3, <2>1 DEF Step, Mp4Of
    <3> QED
      BY <1>2, <1>3, <3>1
  <2>2. CASE opts.mp4 = "off"
    <3>1. files' = After([p \in {M2v} |-> files[u]], {u})
      BY <1>3, <2>2 DEF Step, M2v
    <3> QED
      BY <1>2, <1>3, <2>2, <3>1
  <2>3. CASE opts.mp4 = "m2v"
    <3> DEFINE gone == {u} \cup (IF opts.removeM2V THEN {M2v} ELSE {})
    <3>1. files' = After([p \in {Mp4Of(u), M2v} |-> files[u]], gone)
      BY <1>3, <2>3 DEF Step, M2v, Mp4Of
    <3>2. gone \in SUBSET {u, M2v} /\ u \in gone /\ Mp4Of(u) \notin gone
      BY <1>2
    <3> HIDE DEF gone
    <3> QED
      BY <1>2, <1>3, <3>1, <3>2
  <2> QED
    BY <1>1, <2>1, <2>2, <2>3
<1>4. CASE pc' # "acb"
  <2>1. pc' = "failed"
    BY <1>4 DEF Step
  <2>2. \/ files' = After([p \in {Mp4Of(u)} |-> {}], {})
        \/ files' = After([p \in {M2v} |-> {}], {})
        \/ files' = After([p \in {Mp4Of(u), M2v} |-> IF p = Mp4Of(u) THEN {} ELSE files[u]], {})
    BY <1>4 DEF Step, M2v, Mp4Of
  <2>3. \E outs \in SUBSET {Mp4Of(u), M2v} : \E new :
           /\ DOMAIN new = outs /\ \A p \in outs : new[p] \subseteq files[u]
           /\ files' = After(new, {})
    BY <2>2
  <2> QED
    BY <2>1, <2>3
<1> QED
  BY <1>3, <1>4

\* Exporting the USM file touches it, the stream and the video.
LEMMA ExportUsmTouches ==
    ASSUME Typed, ExportUsm
    PROVE  Touches({"mp4", "m2v"}, {"usm", "m2v"})
<1>1. PICK u \in Find(place, "usm") : \E new : \E gone \in SUBSET {u, M2v} :
         DOMAIN new \subseteq {Mp4Of(u), M2v} /\ files' = After(new, gone)
  <2>1. PICK u \in Find(place, "usm") : \E outs \in SUBSET {Mp4Of(u), M2v} :
              \/ \E gone \in SUBSET {u, M2v} : files' = After([p \in outs |-> files[u]], gone)
              \/ \E new : DOMAIN new = outs /\ files' = After(new, {})
    BY ExportUsmOutcome
  <2>2. \A outs : DOMAIN [p \in outs |-> files[u]] = outs
    OBVIOUS
  <2> QED
    BY <2>1, <2>2
<1> PICK new : \E gone \in SUBSET {u, M2v} :
         DOMAIN new \subseteq {Mp4Of(u), M2v} /\ files' = After(new, gone)
  BY <1>1
<1>5. PICK gone \in SUBSET {u, M2v} :
         DOMAIN new \subseteq {Mp4Of(u), M2v} /\ files' = After(new, gone)
  OBVIOUS
<1>2. u \in Path /\ u[3] = "usm" /\ place \in {"in", "root"}
  BY Found DEF Typed
<1>3. \A p \in gone : p[3] \in {"usm", "m2v"}
  BY <1>5, <1>2, VideoPaths
<1>4. \A p \in DOMAIN new : p \in Path /\ p[1] = place /\ p[3] \in {"mp4", "m2v"}
  BY <1>5, <1>2, VideoPaths
<1> QED
  BY <1>5, <1>3, <1>4, AfterTouches

\* The files of the tracks of the ACB files in done.
TrackFiles(done) ==
    IF opts.acb = "extract" THEN {}
    ELSE UNION {{<<a[1], t, e>> : t \in Tracks[a[2]], e \in TrackExts} : a \in done}

\* What a track may be left as.
LEMMA TrackExtsAre ==
    /\ TrackExts \subseteq {"wav", "mp3", "flac"}
    /\ "wav" \in TrackExts <=> ~opts.removeWav
    /\ ~opts.removeWav \/ Converts => TrackExts # {}
  BY DEF TrackExts, Converts

\* The ACB files found are the bundle's, with tracks.
LEMMA AcbsFound ==
    ASSUME Typed, Sourced, NEW a \in Paths, a[3] = "acb"
    PROVE  /\ a \in bundle /\ a \in Path /\ a[1] \in {"in", "root"}
           /\ a[2] \in DOMAIN Tracks /\ Tracks[a[2]] # {} /\ Tracks[a[2]] \subseteq Stems
<1>1. a \in bundle /\ a \in Path /\ bundle \in Bundles
  BY DEF Typed, Sourced
<1>2. a[2] \in DOMAIN Tracks /\ Tracks[a[2]] # {}
  BY <1>1, BundleAssumption DEF BundleAssumption
<1>3. Tracks[a[2]] \subseteq Stems
  BY <1>2 DEF Stems
<1> QED
  BY <1>1, <1>2, <1>3 DEF Path

\* The file of a track lies beside its ACB file.
LEMMA TrackFilesAre ==
    ASSUME Typed, Sourced, NEW done \in SUBSET Find(place, "acb"), NEW p \in TrackFiles(done)
    PROVE  /\ p \in Path /\ p[3] \in TrackExts /\ opts.acb # "extract"
           /\ \E a \in done : a[1] = p[1] /\ p[2] \in Tracks[a[2]]
<1>1. opts.acb # "extract"
  BY DEF TrackFiles
<1>2. PICK a \in done : p \in {<<a[1], t, e>> : t \in Tracks[a[2]], e \in TrackExts}
  BY <1>1 DEF TrackFiles
<1>3. PICK t \in Tracks[a[2]], e \in TrackExts : p = <<a[1], t, e>>
  BY <1>2
<1>4. a \in Paths /\ a[3] = "acb"
  BY Found DEF Typed
<1>5. a[1] \in {"in", "root"} /\ t \in Stems /\ e \in Exts
  BY <1>3, <1>4, AcbsFound, TrackExtsAre, GivenNames
<1> QED
  BY <1>1, <1>3, <1>5, MakePath

\* Every track of an ACB file that is done has its files.
LEMMA TrackFilesHave ==
    ASSUME opts.acb # "extract", NEW done, NEW a \in done, NEW t \in Tracks[a[2]], NEW e \in TrackExts
    PROVE  <<a[1], t, e>> \in TrackFiles(done)
  BY DEF TrackFiles

\* What the stage of the ACB files leaves.
LEMMA ExportAcbOutcome ==
    ASSUME ExportAcb
    PROVE  /\ pc = "acb"
           /\ \E done \in SUBSET Find(place, "acb") :
                 /\ files' = AcbDone(done)
                 /\ opts.acb \in {"off", "keep"} => done = {}
                 /\ \/ /\ pc' = "wav"
                       /\ opts.acb \notin {"off", "keep"} => done = Find(place, "acb")
                    \/ pc' = "failed"
  BY DEF ExportAcb, Step

\* The ACB file of a track's file.
Origin(done, p) == CHOOSE a \in done : a[1] = p[1] /\ p[2] \in Tracks[a[2]]

\* The files after those of done are exported.
LEMMA AcbDoneFiles ==
    ASSUME NEW done, files' = AcbDone(done)
    PROVE  \E new : /\ DOMAIN new = TrackFiles(done) /\ files' = After(new, done)
                    /\ \A p \in DOMAIN new : new[p] = {x \in files[Origin(done, p)] : x[3] = p[2]}
<1> DEFINE new == [p \in TrackFiles(done) |-> {x \in files[Origin(done, p)] : x[3] = p[2]}]
<1>1. files' = After(new, done)
  BY DEF AcbDone, TrackFiles, Origin
<1>2. DOMAIN new = TrackFiles(done)
  OBVIOUS
<1>3. \A p \in DOMAIN new : new[p] = {x \in files[Origin(done, p)] : x[3] = p[2]}
  OBVIOUS
<1> HIDE DEF new
<1> QED
  BY <1>1, <1>2, <1>3

\* The stage touches ACB files and audio.
LEMMA ExportAcbTouches ==
    ASSUME Typed, Sourced, ExportAcb
    PROVE  Touches({"wav", "mp3", "flac"}, {"acb"})
<1>1. PICK done \in SUBSET Find(place, "acb") : files' = AcbDone(done)
  BY ExportAcbOutcome
<1>2. PICK new : DOMAIN new = TrackFiles(done) /\ files' = After(new, done)
  BY <1>1, AcbDoneFiles
<1>3. \A p \in DOMAIN new : /\ p \in Path /\ p[3] \in {"wav", "mp3", "flac"}
                            /\ \E a \in done : a[1] = p[1]
  BY <1>2, TrackFilesAre, TrackExtsAre
<1>4. \A a \in done : a[3] = "acb" /\ a \in Paths
  BY Found DEF Typed
<1> QED
  BY <1>2, <1>3, <1>4, AfterTouches

-----------------------------------------------------------------------------
\* The output of a WAV file lies beside it.
LEMMA TargetPath ==
    ASSUME NEW w \in Path, w[3] = "wav"
    PROVE  /\ Target(w) \in Path /\ Target(w)[1] = w[1] /\ Target(w)[2] = w[2]
           /\ Target(w)[3] \in {"mp3", "flac"}
           /\ Ext(Target(w), "wav") = w
<1>1. PICK e \in {"mp3", "flac"} : Target(w) = Ext(w, e)
  BY DEF Target
<1>2. e \in Exts
  BY GivenNames
<1> QED
  BY <1>1, <1>2, ExtPath

\* The files after those of done are handled.
LEMMA WavAfterFiles ==
    ASSUME NEW d \in {"in", "root"}, Typed, NEW done \in SUBSET WavsIn(d),
           NEW broken \in SUBSET WavsIn(d), files' = WavAfter(done, broken)
    PROVE  \E new : \E gone \in SUBSET done :
              /\ files' = After(new, gone)
              /\ DOMAIN new = {Target(w) : w \in Unconverted(done) \cup broken}
              /\ \A w \in Unconverted(done) \ broken : new[Target(w)] = files[w]
              /\ gone = IF opts.removeWav THEN done ELSE {}
<1> DEFINE outs == {Target(w) : w \in Unconverted(done) \cup broken}
           new  == [p \in outs |-> IF Ext(p, "wav") \in broken THEN {} ELSE files[Ext(p, "wav")]]
           gone == IF opts.removeWav THEN done ELSE {}
<1>1. files' = After(new, gone) /\ gone \in SUBSET done /\ DOMAIN new = outs
  BY DEF WavAfter
<1>2. ASSUME NEW w \in Unconverted(done) \ broken PROVE new[Target(w)] = files[w]
  <2>1. w \in Path /\ w[3] = "wav"
    BY Found DEF WavsIn, Unconverted
  <2>2. Ext(Target(w), "wav") = w
    BY <2>1, TargetPath
  <2> QED
    BY <2>2
<1> HIDE DEF new, gone
<1> QED
  BY <1>1, <1>2 DEF gone

\* Handling WAV files touches them and their outputs.
LEMMA WavTouches ==
    ASSUME NEW d \in {"in", "root"}, Typed, NEW done \in SUBSET WavsIn(d),
           NEW broken \in SUBSET WavsIn(d), files' = WavAfter(done, broken)
    PROVE  Touches({"mp3", "flac"}, {"wav"})
<1>1. PICK new : \E gone \in SUBSET done :
           /\ files' = After(new, gone)
           /\ DOMAIN new = {Target(w) : w \in Unconverted(done) \cup broken}
  BY WavAfterFiles
<1>2. PICK gone \in SUBSET done : files' = After(new, gone)
  BY <1>1
<1>3. \A w \in done \cup broken : w \in Paths /\ w \in Path /\ w[3] = "wav"
  BY Found DEF WavsIn, Typed
<1>4. Unconverted(done) \subseteq done
  BY DEF Unconverted
<1>5. \A p \in DOMAIN new : /\ p \in Path /\ p[3] \in {"mp3", "flac"}
                            /\ \E w \in Paths : w[1] = p[1]
  BY <1>1, <1>3, <1>4, TargetPath
<1> QED
  BY <1>2, <1>3, <1>5, AfterTouches

\* The stage handles all WAV files of the directory, or fails.
LEMMA StandaloneOutcome ==
    ASSUME StandaloneWavs
    PROVE  /\ pc = "wav"
           /\ \/ pc' = "png" /\ files' = WavAfter(WavsIn(place), {})
              \/ /\ pc' = "failed"
                 /\ \E done, broken \in SUBSET WavsIn(place) : files' = WavAfter(done, broken)
<1>1. Unconverted(WavsIn(place)) \subseteq WavsIn(place)
  BY DEF Unconverted
<1> QED
  BY <1>1 DEF StandaloneWavs, Step

-----------------------------------------------------------------------------
\* What the stage of the PNG files leaves.
LEMMA PngsOutcome ==
    ASSUME Typed, Pngs
    PROVE  /\ pc = "png"
           /\ \E done \in SUBSET Find(place, "png") : \E new :
                 /\ files' = After(new, IF opts.removePNG THEN done ELSE {})
                 /\ DOMAIN new = {Ext(q, "webp") : q \in done}
                 /\ \A q \in done : new[Ext(q, "webp")] = files[q]
                 /\ ~opts.webp => done = {}
                 /\ \/ pc' = "final" /\ (opts.webp => done = Find(place, "png"))
                    \/ pc' = "failed"
<1> DEFINE Webp(done) == [p \in {Ext(q, "webp") : q \in done} |-> files[Ext(p, "png")]]
<1>1. pc = "png"
  BY DEF Pngs, Step
<1>2. PICK done \in SUBSET Find(place, "png") :
         /\ files' = After(Webp(done), IF opts.removePNG THEN done ELSE {})
         /\ ~opts.webp => done = {}
         /\ \/ pc' = "final" /\ (opts.webp => done = Find(place, "png"))
            \/ pc' = "failed"
  BY DEF Pngs, Step
<1>3. ASSUME NEW q \in done PROVE Webp(done)[Ext(q, "webp")] = files[q]
  <2>1. q \in Path /\ q[3] = "png" /\ "png" \in Exts
    BY Found DEF Typed, Path
  <2>2. Ext(Ext(q, "webp"), "png") = q
    BY <2>1, ExtPath, GivenNames
  <2> QED
    BY <2>2
<1>4. DOMAIN Webp(done) = {Ext(q, "webp") : q \in done}
  OBVIOUS
<1> HIDE DEF Webp
<1> QED
  BY <1>1, <1>2, <1>3, <1>4

\* The stage touches the images.
LEMMA PngsTouches ==
    ASSUME Typed, Pngs
    PROVE  Touches({"webp"}, {"png"})
<1>1. PICK done \in SUBSET Find(place, "png") : \E new :
         /\ files' = After(new, IF opts.removePNG THEN done ELSE {})
         /\ DOMAIN new = {Ext(q, "webp") : q \in done}
  BY PngsOutcome
<1>2. PICK new :
         /\ files' = After(new, IF opts.removePNG THEN done ELSE {})
         /\ DOMAIN new = {Ext(q, "webp") : q \in done}
  BY <1>1
<1>3. \A q \in done : q \in Paths /\ q \in Path /\ q[3] = "png"
  BY Found DEF Typed
<1>4. ASSUME NEW p \in DOMAIN new
      PROVE  p \in Path /\ p[3] = "webp" /\ \E q \in Paths : q[1] = p[1]
  <2>1. PICK q \in done : p = Ext(q, "webp")
    BY <1>2
  <2>2. q \in Paths /\ q \in Path /\ "webp" \in Exts
    BY <1>3, GivenNames
  <2>3. Ext(q, "webp") \in Path /\ Ext(q, "webp")[1] = q[1] /\ Ext(q, "webp")[3] = "webp"
    BY <2>2, ExtPath
  <2> QED
    BY <2>1, <2>2, <2>3
<1> QED
  BY <1>2, <1>3, <1>4, AfterTouches

-----------------------------------------------------------------------------
(* What each stage has done: StageInv is inductive.                          *)

\* A failed task promises nothing of its files.
LEMMA FailedStaged == pc' = "failed" => Staged'
  BY DEF Staged, Placed, VideoLeft, VideoDone, AcbsDone, PngsDone, WavsDone, Unique,
         RefusalExcused, AfterExport, AfterUsm, AfterAcb, AfterWav, AfterPng

\* A step that keeps the task and writes only paths keeps the types.
LEMMA TypedStep ==
    ASSUME Typed, Keep, Paths' \subseteq Path, pc # "idle",
           pc' \in {"export", "failed", "refused"} \cup AfterExport
    PROVE  Typed'
  BY DEF Typed, Keep, AfterExport

\* A stage that writes none of what only earlier ones write keeps where it came from.
LEMMA SourcedStep ==
    ASSUME Typed, Sourced, Keep, NEW made, NEW gone, Touches(made, gone),
           {"acb", "usm", "m2v"} \cap made = {}
    PROVE  Sourced'
  BY DEF Sourced, Keep, Touches, Has

\* So does a step that leaves the files alone.
LEMMA SameSourced == Sourced /\ UNCHANGED <<files, bundle, opts>> => Sourced'
  BY DEF Sourced, Has

\* The steps that leave the files alone, of any stage.
LEMMA QuietStage ==
    ASSUME StageInv, Begin \/ Fail \/ Crash \/ NoUsm \/ Archive \/ UNCHANGED vars
    PROVE  StageInv'
<1> USE DEF StageInv
<1>1. Sourced'
  BY SameSourced DEF Begin, Fail, Crash, NoUsm, Archive, Keep, vars
<1>2. CASE Begin
  <2>1. Typed'
    BY <1>2 DEF Begin, Step, Typed, AfterExport
  <2> QED
    BY <1>1, <1>2, <2>1 DEF Begin, Step, Staged, Placed, VideoLeft, VideoDone, AcbsDone, PngsDone,
          WavsDone, Unique, RefusalExcused, AfterExport, AfterUsm, AfterAcb, AfterWav, AfterPng
<1>3. CASE Fail
  <2>1. Typed'
    BY <1>3 DEF Fail, Keep, Typed, AfterExport
  <2> QED
    BY <1>1, <1>3, <2>1, FailedStaged DEF Fail
<1>4. CASE Crash
  <2>1. Typed'
    BY <1>4 DEF Crash, Typed, AfterExport
  <2> QED
    BY <1>1, <1>4, <2>1 DEF Crash, Staged, Placed, VideoLeft, VideoDone, AcbsDone, PngsDone,
          WavsDone, Unique, RefusalExcused, AfterExport, AfterUsm, AfterAcb, AfterWav, AfterPng
<1>5. CASE NoUsm
  <2>1. Typed' /\ pc = "usm" /\ pc' = "acb" /\ UNCHANGED <<files, bundle, opts, place>>
    BY <1>5 DEF NoUsm, Step, Keep, Typed, AfterExport, AfterUsm
  <2>2. Placed'
    BY <2>1 DEF Staged, Placed, AfterExport, AfterUsm
  <2>3. VideoDone'
    <3>1. SUFFICES ASSUME opts.usm = "decode" PROVE ~Has("usm") /\ Videos(bundle) = {}
      BY <2>1 DEF VideoDone, Has
    <3>2. Find(place, "usm") = {}
      BY <1>5, <3>1 DEF NoUsm
    <3>3. \A p \in Paths : p[3] # "usm"
      <4>1. place = "in" => \A p \in Paths : p[1] = "in"
        BY <2>1 DEF Staged, Placed, AfterExport
      <4> QED
        BY <3>2, <4>1, Found DEF Typed
    <3> QED
      BY <2>1, <3>1, <3>2, <3>3 DEF Has, Staged, VideoLeft
  <2> QED
    BY <1>1, <2>1, <2>2, <2>3 DEF Staged, VideoLeft, AcbsDone, PngsDone,
          WavsDone, Unique, RefusalExcused, AfterExport, AfterUsm, AfterAcb, AfterWav, AfterPng
<1>6. CASE Archive
  <2>1. Typed' /\ pc = "archive" /\ pc' = "packed" /\ UNCHANGED <<files, bundle, opts, place>>
    BY <1>6 DEF Archive, Step, Keep, Typed, AfterExport, AfterUsm, AfterAcb, AfterWav, AfterPng
  <2> QED
    BY <1>1, <2>1 DEF Staged, Placed, VideoLeft, VideoDone, AcbsDone, PngsDone, Target, Converts,
          WavsDone, Unique, RefusalExcused, AfterExport, AfterUsm, AfterAcb, AfterWav, AfterPng,
          Has, Ext, Duplicate, Sanitized
<1>7. CASE UNCHANGED vars
  BY <1>1, <1>7 DEF vars, Typed, Staged, Placed, VideoLeft, VideoDone, AcbsDone, PngsDone, Target,
          Converts, WavsDone, Unique, RefusalExcused, Has, Ext, Duplicate, Sanitized, Find
<1> QED
  BY <1>2, <1>3, <1>4, <1>5, <1>6, <1>7

\* What AssetStudio writes.
LEMMA ExportOutcome ==
    ASSUME Typed, Export
    PROVE  /\ pc = "export" /\ place' = PostPath(Paths')
           /\ UNCHANGED <<bundle, opts, delivery, left>>
           /\ \E written \in SUBSET Exported :
                 /\ (pc' = "usm" /\ written = Exported) \/ pc' = "failed"
                 /\ Paths' = Paths \cup written
                 /\ \A p \in Paths' : files'[p] = IF p \in written THEN Sources(p) ELSE files[p]
<1>1. PICK written \in SUBSET Exported :
         /\ (pc' = "usm" /\ written = Exported) \/ pc' = "failed"
         /\ files' = After([p \in written |-> Sources(p)], {})
  BY DEF Export, Step
<1> DEFINE new == [p \in written |-> Sources(p)]
<1>2. /\ Paths' = (Paths \cup DOMAIN new) \ {}
      /\ \A p \in Paths' : files'[p] = IF p \in DOMAIN new THEN new[p] ELSE files[p]
  <2>1. files' = After(new, {})
    BY <1>1
  <2> HIDE DEF new
  <2> QED
    BY <2>1, AfterFiles
<1>3. DOMAIN new = written /\ \A p \in written : new[p] = Sources(p)
  OBVIOUS
<1> HIDE DEF new
<1>4. pc = "export" /\ place' = PostPath(Paths') /\ UNCHANGED <<bundle, opts, delivery, left>>
  BY DEF Export, Step
<1>5. /\ Paths' = Paths \cup written
      /\ \A p \in Paths' : files'[p] = IF p \in written THEN Sources(p) ELSE files[p]
  BY <1>2, <1>3
<1> QED
  BY <1>1, <1>4, <1>5

\* What is exported is the bundle's, and in no format that only conversions make.
LEMMA ExportedAre ==
    ASSUME Typed, NEW p \in Exported
    PROVE  p \in bundle /\ p \in Path /\ p[3] \notin {"m2v", "mp4", "mp3", "flac", "webp"}
  BY BundleAssumption DEF BundleAssumption, Exported, Typed

\* The export puts every file where post-processing looks for it.
LEMMA ExportStage == StageInv /\ Export => StageInv'
<1> SUFFICES ASSUME StageInv, Export PROVE StageInv'
  OBVIOUS
<1> USE DEF StageInv
<1>1. PICK written \in SUBSET Exported :
         /\ (pc' = "usm" /\ written = Exported) \/ pc' = "failed"
         /\ Paths' = Paths \cup written
  BY ExportOutcome
<1>2. /\ pc = "export" /\ place' = PostPath(Paths')
      /\ UNCHANGED <<bundle, opts, delivery, left>>
  BY ExportOutcome
<1>3. Typed'
  BY <1>1, <1>2, ExportedAre DEF PostPath, Typed
<1>4. Sourced'
  <2>1. \A p \in Paths' : p \in Paths \/ (p \in bundle /\ p[3] # "m2v")
    BY <1>1, ExportedAre
  <2>2. Has("m2v")' => Has("m2v")
    BY <2>1 DEF Has
  <2>3. Has("usm")' => Has("usm") \/ Videos(bundle) # {}
    BY <2>1 DEF Has, Videos
  <2> QED
    BY <1>2, <2>1, <2>2, <2>3 DEF Sourced, Videos
<1>5. CASE pc' = "failed"
  BY <1>3, <1>4, <1>5, FailedStaged
<1>6. CASE pc' = "usm"
  <2>1. place' = "in" => \A p \in Paths' : p[1] = "in"
    BY <1>2 DEF PostPath
  <2>2. ASSUME opts.usm = "decode", NEW v \in Videos(bundle) PROVE v \in Find(place, "usm")'
    <3>1. v \in Paths' /\ v[3] = "usm"
      BY <1>1, <1>6, <2>2 DEF Exported, Videos
    <3>2. place' \in {v[1], "root"}
      BY <1>3, <2>1, <3>1 DEF Typed
    <3> QED
      BY <3>1, <3>2 DEF Find
  <2> QED
    BY <1>2, <1>3, <1>4, <1>6, <2>1, <2>2
    DEF Staged, Placed, VideoLeft, VideoDone, AcbsDone, PngsDone, WavsDone, Unique,
        RefusalExcused, Videos
<1> QED
  BY <1>1, <1>5, <1>6

\* What merging does.
LEMMA MergeOutcome ==
    ASSUME Typed, Merge
    PROVE  /\ pc = "usm" /\ opts.usm = "decode" /\ Cardinality(Find(place, "usm")) > 1 /\ Keep
           /\ \E done \in SUBSET (Find(place, "usm") \ {MergedPath}) :
                 /\ (pc' = "usm" /\ done = Find(place, "usm") \ {MergedPath}) \/ pc' = "failed"
                 /\ Paths' = (Paths \cup {MergedPath}) \ done
                 /\ files'[MergedPath] = UNION {files[u] : u \in done}
<1>1. /\ pc = "usm" /\ opts.usm = "decode" /\ Cardinality(Find(place, "usm")) > 1 /\ Keep
  BY DEF Merge, Step
<1>2. PICK done \in SUBSET (Find(place, "usm") \ {MergedPath}) :
         /\ (pc' = "usm" /\ done = Find(place, "usm") \ {MergedPath}) \/ pc' = "failed"
         /\ files' = After([p \in {MergedPath} |-> UNION {files[u] : u \in done}], done)
  BY DEF Merge, Step
<1> DEFINE new == [p \in {MergedPath} |-> UNION {files[u] : u \in done}]
<1>3. DOMAIN new = {MergedPath} /\ new[MergedPath] = UNION {files[u] : u \in done}
  OBVIOUS
<1>4. files' = After(new, done)
  BY <1>2
<1> HIDE DEF new
<1>5. Paths' = (Paths \cup {MergedPath}) \ done /\ files'[MergedPath] = new[MergedPath]
  BY <1>3, <1>4, AfterFiles
<1> QED
  BY <1>1, <1>2, <1>3, <1>5

\* Where several USM files are found, the bundle has several.
LEMMA SeveralVideos ==
    ASSUME StageInv, Cardinality(Find(place, "usm")) > 1
    PROVE  Cardinality(Videos(bundle)) > 1
<1>1. IsFiniteSet(Videos(bundle))
  <2>1. IsFiniteSet(bundle)
    BY BundleAssumption DEF BundleAssumption, StageInv, Typed
  <2> QED
    BY <2>1, FS_Subset DEF Videos
<1>2. CASE Find(place, "usm") \subseteq bundle
  <2>1. Find(place, "usm") \subseteq Videos(bundle)
    BY <1>2 DEF Find, Videos
  <2>2. /\ IsFiniteSet(Find(place, "usm"))
        /\ Cardinality(Find(place, "usm")) <= Cardinality(Videos(bundle))
    BY <1>1, <2>1, FS_Subset
  <2> QED
    BY <1>1, <2>2, FS_CardinalityType
<1>3. CASE ~(Find(place, "usm") \subseteq bundle)
  BY <1>3 DEF Find, StageInv, Sourced
<1> QED
  BY <1>2, <1>3

\* Merging leaves one USM file.
LEMMA MergeStage == StageInv /\ Merge => StageInv'
<1> SUFFICES ASSUME StageInv, Merge PROVE StageInv'
  OBVIOUS
<1> USE DEF StageInv
<1>1. PICK done \in SUBSET (Find(place, "usm") \ {MergedPath}) :
         /\ pc' = "usm" \/ pc' = "failed"
         /\ Paths' = (Paths \cup {MergedPath}) \ done
  BY MergeOutcome
<1>2. pc = "usm" /\ opts.usm = "decode" /\ Keep /\ Cardinality(Find(place, "usm")) > 1
  BY MergeOutcome
<1>3. Touches({"usm"}, {"usm"})
  BY MergeTouches
<1>4. Typed'
  BY <1>1, <1>2, <1>3, TypedStep DEF Touches
<1>5. Find(place, "usm") # {}
  BY <1>2, FS_EmptySet
<1>6. MergedPath \in {<<d, "dir", "usm">> : d \in {"in", "root"}} /\ MergedPath \in Paths'
  <2>1. place \in {"in", "root"} /\ MergedPath \notin done
    BY <1>1 DEF Typed
  <2> QED
    BY <1>1, <2>1 DEF MergedPath
<1>7. Sourced'
  <2>1. Videos(bundle) # {}
    BY <1>5, Found DEF Sourced, Has, Typed
  <2>2. \A p \in Paths' : p \in Paths \/ p = MergedPath
    BY <1>1
  <2>3. Has("m2v")' => Has("m2v")
    BY <1>3 DEF Has, Touches
  <2>4. MergedPath[3] = "usm"
    BY MergedPathType
  <2>5. Cardinality(Videos(bundle)) > 1
    BY <1>2, SeveralVideos
  <2> QED
    BY <1>2, <1>6, <2>1, <2>2, <2>3, <2>4, <2>5 DEF Sourced, Keep, Videos
<1>8. CASE pc' = "failed"
  BY <1>4, <1>7, <1>8, FailedStaged
<1>9. CASE pc' = "usm"
  <2>1. Placed'
    BY <1>2, <1>3, <1>9 DEF Placed, Staged, Touches, Keep
  <2>2. VideoLeft'
    <3>1. MergedPath[1] = place /\ MergedPath[3] = "usm" /\ place' = place
      BY <1>2, MergedPathType DEF Keep
    <3>2. MergedPath \in Find(place, "usm")'
      BY <1>6, <3>1 DEF Find
    <3> QED
      BY <3>2 DEF VideoLeft
  <2> QED
    BY <1>4, <1>7, <1>9, <2>1, <2>2
    DEF Staged, VideoDone, AcbsDone, PngsDone, WavsDone, Unique, RefusalExcused
<1> QED
  BY <1>1, <1>8, <1>9

\* There are finitely many USM files, whatever was left.
LEMMA VideosFinite == StageInv => IsFiniteSet(Find(place, "usm"))
<1> SUFFICES ASSUME StageInv PROVE IsFiniteSet(Find(place, "usm"))
  OBVIOUS
<1>1. IsFiniteSet(bundle)
  BY BundleAssumption DEF BundleAssumption, StageInv, Typed
<1>2. IsFiniteSet(bundle \cup {<<"in", "dir", "usm">>} \cup {<<"root", "dir", "usm">>})
  BY <1>1, FS_AddElement
<1>3. Find(place, "usm") \subseteq bundle \cup {<<"in", "dir", "usm">>} \cup {<<"root", "dir", "usm">>}
  BY DEF Find, StageInv, Sourced
<1> QED
  BY <1>2, <1>3, FS_Subset

\* A success of ExportUSM: the only USM file is gone, its content is in an output.
LEMMA ExportUsmSuccess ==
    ASSUME StageInv, ExportUsm, pc' = "acb"
    PROVE  \E u \in Path : \E outs \in SUBSET {Mp4Of(u), M2v} : \E gone \in SUBSET {u, M2v} :
              /\ Find(place, "usm") = {u} /\ u \in gone
              /\ opts.mp4 # "off" => Mp4Of(u) \in outs
              /\ \E p \in outs : p \notin gone
              /\ Paths' = (Paths \cup outs) \ gone
              /\ \A p \in Paths' : files'[p] = IF p \in outs THEN files[u] ELSE files[p]
<1>1. PICK u \in Find(place, "usm") : \E outs \in SUBSET {Mp4Of(u), M2v} :
         \E gone \in SUBSET {u, M2v} :
            /\ u \in gone /\ \E p \in outs : p \notin gone
            /\ opts.mp4 # "off" => Mp4Of(u) \in outs
            /\ files' = After([p \in outs |-> files[u]], gone)
  BY ExportUsmOutcome DEF StageInv
<1>2. PICK outs \in SUBSET {Mp4Of(u), M2v} : \E gone \in SUBSET {u, M2v} :
            /\ u \in gone /\ \E p \in outs : p \notin gone
            /\ opts.mp4 # "off" => Mp4Of(u) \in outs
            /\ files' = After([p \in outs |-> files[u]], gone)
  BY <1>1
<1>3. PICK gone \in SUBSET {u, M2v} :
            /\ u \in gone /\ \E p \in outs : p \notin gone
            /\ opts.mp4 # "off" => Mp4Of(u) \in outs
            /\ files' = After([p \in outs |-> files[u]], gone)
  BY <1>2
<1> DEFINE new == [p \in outs |-> files[u]]
<1>4. DOMAIN new = outs /\ \A p \in outs : new[p] = files[u]
  OBVIOUS
<1>5. files' = After(new, gone)
  BY <1>3
<1> HIDE DEF new
<1>6. /\ Paths' = (Paths \cup outs) \ gone
      /\ \A p \in Paths' : files'[p] = IF p \in outs THEN files[u] ELSE files[p]
  <2>1. /\ Paths' = (Paths \cup DOMAIN new) \ gone
        /\ \A p \in Paths' : files'[p] = IF p \in DOMAIN new THEN new[p] ELSE files[p]
    BY <1>5, AfterFiles
  <2> QED
    BY <1>4, <2>1
<1>7. Find(place, "usm") = {u}
  <2>1. Cardinality(Find(place, "usm")) = 1
    BY DEF ExportUsm
  <2> QED
    BY <2>1, VideosFinite, FS_Singleton
<1>8. u \in Path
  BY Found DEF StageInv, Typed
<1> QED
  BY <1>3, <1>6, <1>7, <1>8

\* Exporting the USM file leaves no USM file, and the video that is asked for.
LEMMA ExportUsmStage == StageInv /\ ExportUsm => StageInv'
<1> SUFFICES ASSUME StageInv, ExportUsm PROVE StageInv'
  OBVIOUS
<1>1. /\ pc = "usm" /\ opts.usm = "decode" /\ Keep
      /\ Cardinality(Find(place, "usm")) = 1 /\ pc' \in {"acb", "failed"}
  BY DEF ExportUsm, Step
<1>2. Touches({"mp4", "m2v"}, {"usm", "m2v"})
  BY ExportUsmTouches DEF StageInv
<1> USE DEF StageInv
<1>3. Typed'
  BY <1>1, <1>2, TypedStep DEF Touches
<1>4. Sourced'
  <2>1. Find(place, "usm") # {}
    BY <1>1, FS_EmptySet
  <2>2. Videos(bundle) # {}
    BY <2>1, Found DEF Sourced, Has, Typed
  <2> QED
    BY <1>1, <1>2, <2>2 DEF Sourced, Keep, Videos, Touches, Has
<1>5. CASE pc' = "failed"
  BY <1>3, <1>4, <1>5, FailedStaged
<1>6. CASE pc' = "acb"
  <2>1. PICK u \in Path : \E outs \in SUBSET {Mp4Of(u), M2v} : \E gone \in SUBSET {u, M2v} :
              /\ Find(place, "usm") = {u} /\ u \in gone
              /\ opts.mp4 # "off" => Mp4Of(u) \in outs
              /\ Paths' = (Paths \cup outs) \ gone
    BY <1>6, ExportUsmSuccess
  <2>2. Placed'
    BY <1>1, <1>2, <1>6 DEF Placed, Staged, Touches, Keep
  <2>3. VideoDone'
    <3>1. place = "in" => \A p \in Paths : p[1] = "in"
      BY <1>1 DEF Staged, Placed
    <3>2. \A p \in Paths : p[3] = "usm" => p = u
      BY <2>1, <3>1, Found DEF Typed
    <3>3. \A p \in Paths' : p[3] # "usm"
      BY <1>2, <2>1, <3>2 DEF Touches
    <3>4. opts.mp4 # "off" => Mp4Of(u) \in Paths' /\ Mp4Of(u)[3] = "mp4"
      <4>1. Mp4Of(u)[3] = "mp4" /\ Mp4Of(u) # u /\ Mp4Of(u) # M2v
        BY <2>1, VideoPaths, Found DEF Typed
      <4> QED
        BY <2>1, <4>1
    <3> QED
      BY <1>1, <3>3, <3>4 DEF VideoDone, Has, Keep
  <2> QED
    BY <1>3, <1>4, <1>6, <2>2, <2>3
    DEF Staged, VideoLeft, AcbsDone, PngsDone, WavsDone, Unique, RefusalExcused
<1> QED
  BY <1>1, <1>5, <1>6

\* A stage that writes no USM or ACB file keeps what was done of them.
LEMMA DoneStays ==
    ASSUME StageInv, Keep, NEW made, NEW gone, Touches(made, gone),
           {"usm", "acb", "png"} \cap made = {}, "mp4" \notin gone, pc \in AfterUsm, pc' \in AfterUsm
    PROVE  Placed' /\ VideoLeft' /\ VideoDone' /\ (pc \in AfterAcb => AcbsDone')
  BY DEF StageInv, Staged, Placed, VideoLeft, VideoDone, AcbsDone, Keep, Touches, Has

\* Exporting the ACB files leaves none.
LEMMA ExportAcbStage == StageInv /\ ExportAcb => StageInv'
<1> SUFFICES ASSUME StageInv, ExportAcb PROVE StageInv'
  OBVIOUS
<1>1. PICK done \in SUBSET Find(place, "acb") :
         /\ files' = AcbDone(done)
         /\ \/ /\ pc' = "wav"
               /\ opts.acb \notin {"off", "keep"} => done = Find(place, "acb")
            \/ pc' = "failed"
  BY ExportAcbOutcome
<1>2. pc = "acb" /\ Keep
  BY DEF ExportAcb, Step
<1>3. Touches({"wav", "mp3", "flac"}, {"acb"})
  BY ExportAcbTouches DEF StageInv
<1>4. Typed' /\ Sourced'
  <2>1. Paths' \subseteq Path /\ {"acb", "usm", "m2v"} \cap {"wav", "mp3", "flac"} = {}
    BY <1>3 DEF Touches
  <2>2. Typed'
    BY <1>1, <1>2, <2>1, TypedStep DEF StageInv
  <2>3. Sourced'
    BY <1>2, <1>3, <2>1, SourcedStep DEF StageInv
  <2> QED
    BY <2>2, <2>3
<1>5. CASE pc' = "failed"
  BY <1>4, <1>5, FailedStaged DEF StageInv
<1>6. CASE pc' = "wav"
  <2>1. Placed' /\ VideoLeft' /\ VideoDone'
    BY <1>2, <1>3, <1>6, DoneStays
  <2>2. AcbsDone'
    <3> SUFFICES ASSUME opts.acb \in {"extract", "decode"} PROVE \A p \in Paths' : p[3] # "acb"
      BY <1>2 DEF AcbsDone, Has, Keep
    <3>1. place = "in" => \A p \in Paths : p[1] = "in"
      BY <1>2 DEF StageInv, Staged, Placed
    <3>2. \A p \in Paths : p[3] = "acb" => p \in done
      BY <1>1, <1>6, <3>1, Found DEF StageInv, Typed
    <3>3. PICK new : DOMAIN new = TrackFiles(done) /\ files' = After(new, done)
      BY <1>1, AcbDoneFiles
    <3>4. Paths' = (Paths \cup DOMAIN new) \ done
      BY <3>3, AfterFiles
    <3> QED
      BY <1>3, <3>2, <3>4 DEF Touches
  <2> QED
    BY <1>4, <1>6, <2>1, <2>2 DEF StageInv, Staged, PngsDone, WavsDone, Unique, RefusalExcused
<1> QED
  BY <1>1, <1>5, <1>6

\* The stage of the WAV files undoes nothing.
LEMMA StandaloneStage == StageInv /\ StandaloneWavs => StageInv'
<1> SUFFICES ASSUME StageInv, StandaloneWavs PROVE StageInv'
  OBVIOUS
<1>1. pc = "wav" /\ Keep /\ pc' \in {"png", "failed"} /\ place \in {"in", "root"}
  BY StandaloneOutcome DEF StandaloneWavs, StageInv, Typed
<1>2. PICK done, broken \in SUBSET WavsIn(place) : files' = WavAfter(done, broken)
  BY StandaloneOutcome
<1>3. Touches({"mp3", "flac"}, {"wav"})
  BY <1>1, <1>2, WavTouches DEF StageInv
<1>4. Paths' \subseteq Path /\ {"acb", "usm", "m2v"} \cap {"mp3", "flac"} = {}
  BY <1>3 DEF Touches
<1>5. Typed'
  BY <1>1, <1>4, TypedStep DEF StageInv
<1>6. Sourced'
  BY <1>1, <1>3, <1>4, SourcedStep DEF StageInv
<1>7. CASE pc' = "failed"
  BY <1>5, <1>6, <1>7, FailedStaged DEF StageInv
<1>8. CASE pc' = "png"
  <2>1. Placed' /\ VideoLeft' /\ VideoDone' /\ AcbsDone'
    BY <1>1, <1>3, <1>8, DoneStays
  <2> QED
    BY <1>5, <1>6, <1>8, <2>1 DEF StageInv, Staged, PngsDone, WavsDone, Unique, RefusalExcused
<1> QED
  BY <1>1, <1>7, <1>8

\* What a PNG file becomes.
LEMMA PngsFiles ==
    ASSUME StageInv, Pngs
    PROVE  \E done \in SUBSET Find(place, "png") :
              /\ Paths' = (Paths \cup {Ext(q, "webp") : q \in done}) \ (IF opts.removePNG THEN done ELSE {})
              /\ \A q \in done : /\ Ext(q, "webp") \in Paths'
                                 /\ files'[Ext(q, "webp")] = files[q]
              /\ ~opts.webp => done = {}
              /\ \/ pc' = "final" /\ (opts.webp => done = Find(place, "png"))
                 \/ pc' = "failed"
<1>1. PICK done \in SUBSET Find(place, "png") : \E new :
         /\ files' = After(new, IF opts.removePNG THEN done ELSE {})
         /\ DOMAIN new = {Ext(q, "webp") : q \in done}
         /\ \A q \in done : new[Ext(q, "webp")] = files[q]
         /\ ~opts.webp => done = {}
         /\ \/ pc' = "final" /\ (opts.webp => done = Find(place, "png"))
            \/ pc' = "failed"
  BY PngsOutcome DEF StageInv
<1>2. PICK new :
         /\ files' = After(new, IF opts.removePNG THEN done ELSE {})
         /\ DOMAIN new = {Ext(q, "webp") : q \in done}
         /\ \A q \in done : new[Ext(q, "webp")] = files[q]
  BY <1>1
<1>3. /\ Paths' = (Paths \cup DOMAIN new) \ (IF opts.removePNG THEN done ELSE {})
      /\ \A p \in Paths' : files'[p] = IF p \in DOMAIN new THEN new[p] ELSE files[p]
  BY <1>2, AfterFiles
<1>4. ASSUME NEW q \in done PROVE Ext(q, "webp") \notin done
  <2>1. q \in Path /\ "webp" \in Exts
    BY Found, GivenNames DEF StageInv, Typed
  <2>2. Ext(q, "webp")[3] = "webp"
    BY <2>1, ExtPath
  <2> QED
    BY <2>2, Found DEF StageInv, Typed
<1>5. ASSUME NEW q \in done
      PROVE  Ext(q, "webp") \in Paths' /\ files'[Ext(q, "webp")] = files[q]
  BY <1>2, <1>3, <1>4
<1> QED
  BY <1>1, <1>2, <1>3, <1>5

\* The stage of the PNG files leaves none without its WebP file.
LEMMA PngsStage == StageInv /\ Pngs => StageInv'
<1> SUFFICES ASSUME StageInv, Pngs PROVE StageInv'
  OBVIOUS
<1>1. PICK done \in SUBSET Find(place, "png") :
         /\ Paths' = (Paths \cup {Ext(q, "webp") : q \in done}) \ (IF opts.removePNG THEN done ELSE {})
         /\ \A q \in done : Ext(q, "webp") \in Paths'
         /\ \/ pc' = "final" /\ (opts.webp => done = Find(place, "png"))
            \/ pc' = "failed"
  BY PngsFiles
<1>2. pc = "png" /\ Keep
  BY DEF Pngs, Step
<1>3. Touches({"webp"}, {"png"})
  BY PngsTouches DEF StageInv
<1>4. Paths' \subseteq Path /\ {"acb", "usm", "m2v"} \cap {"webp"} = {}
  BY <1>3 DEF Touches
<1>5. Typed'
  BY <1>1, <1>2, <1>4, TypedStep DEF StageInv
<1>6. Sourced'
  BY <1>2, <1>3, <1>4, SourcedStep DEF StageInv
<1>7. CASE pc' = "failed"
  BY <1>5, <1>6, <1>7, FailedStaged DEF StageInv
<1>8. CASE pc' = "final"
  <2>1. Placed' /\ VideoLeft' /\ VideoDone' /\ AcbsDone'
    BY <1>2, <1>3, <1>8, DoneStays
  <2>2. PngsDone'
    <3> SUFFICES ASSUME opts.webp, NEW p \in Paths', p[3] = "png"
                 PROVE  ~opts.removePNG /\ Ext(p, "webp") \in Paths'
      BY <1>2 DEF PngsDone, Keep, Ext
    <3>1. p \in Paths
      BY <1>3 DEF Touches
    <3>2. p \in done
      <4>1. place = "in" => \A q \in Paths : q[1] = "in"
        BY <1>2 DEF StageInv, Staged, Placed
      <4> QED
        BY <1>1, <1>8, <3>1, <4>1, Found DEF StageInv, Typed
    <3> QED
      BY <1>1, <3>2
  <2> QED
    BY <1>5, <1>6, <1>8, <2>1, <2>2 DEF StageInv, Staged, WavsDone, Unique, RefusalExcused
<1> QED
  BY <1>1, <1>7, <1>8

\* What becomes of the WAV files in the end.
LEMMA WavFiles ==
    ASSUME Typed, NEW d \in {"in", "root"}, NEW done \in SUBSET WavsIn(d), files' = WavAfter(done, {})
    PROVE  /\ Paths' = (Paths \cup {Target(w) : w \in Unconverted(done)})
                        \ (IF opts.removeWav THEN done ELSE {})
           /\ \A w \in Unconverted(done) : /\ Target(w) \in Paths'
                                           /\ files'[Target(w)] = files[w]
<1>1. PICK new : \E gone \in SUBSET done :
              /\ files' = After(new, gone)
              /\ DOMAIN new = {Target(w) : w \in Unconverted(done) \cup {}}
              /\ \A w \in Unconverted(done) \ {} : new[Target(w)] = files[w]
              /\ gone = IF opts.removeWav THEN done ELSE {}
  BY WavAfterFiles
<1>2. /\ files' = After(new, IF opts.removeWav THEN done ELSE {})
      /\ DOMAIN new = {Target(w) : w \in Unconverted(done)}
      /\ \A w \in Unconverted(done) : new[Target(w)] = files[w]
  BY <1>1
<1>3. /\ Paths' = (Paths \cup DOMAIN new) \ (IF opts.removeWav THEN done ELSE {})
      /\ \A p \in Paths' : files'[p] = IF p \in DOMAIN new THEN new[p] ELSE files[p]
  BY <1>2, AfterFiles
<1>4. ASSUME NEW w \in Unconverted(done) PROVE Target(w) \notin done
  <2>1. \A v \in done : v \in Path /\ v[3] = "wav"
    BY Found DEF WavsIn, Typed
  <2>2. w \in done
    BY DEF Unconverted
  <2> QED
    BY <2>1, <2>2, TargetPath
<1>5. ASSUME NEW w \in Unconverted(done)
      PROVE  Target(w) \in Paths' /\ files'[Target(w)] = files[w]
  BY <1>2, <1>3, <1>4
<1> QED
  BY <1>2, <1>3, <1>5

\* The last look at WAV files leaves none that was to be converted.
LEMMA FinalizeStage == StageInv /\ Finalize => StageInv'
<1> SUFFICES ASSUME StageInv, Finalize PROVE StageInv'
  OBVIOUS
<1>1. pc = "final" /\ Keep /\ pc' = "manifest" /\ files' = WavAfter(WavsIn("root"), {})
  BY DEF Finalize, Step
<1>2. Touches({"mp3", "flac"}, {"wav"})
  BY <1>1, WavTouches DEF StageInv
<1>3. Paths' \subseteq Path /\ {"acb", "usm", "m2v"} \cap {"mp3", "flac"} = {}
  BY <1>2 DEF Touches
<1>4. Typed'
  BY <1>1, <1>3, TypedStep DEF StageInv
<1>5. Sourced'
  BY <1>1, <1>2, <1>3, SourcedStep DEF StageInv
<1>6. Placed' /\ VideoLeft' /\ VideoDone' /\ AcbsDone'
  BY <1>1, <1>2, DoneStays
<1>7. PngsDone'
  <2> SUFFICES ASSUME opts.webp, NEW p \in Paths', p[3] = "png"
               PROVE  ~opts.removePNG /\ Ext(p, "webp") \in Paths'
    BY <1>1 DEF PngsDone, Keep, Ext
  <2>1. p \in Paths
    BY <1>2 DEF Touches
  <2>2. ~opts.removePNG /\ Ext(p, "webp") \in Paths
    BY <1>1, <2>1 DEF StageInv, Staged, PngsDone
  <2>3. Ext(p, "webp")[3] = "webp"
    BY DEF Ext
  <2> QED
    BY <1>2, <2>2, <2>3 DEF Touches
<1>8. WavsDone'
  <2> SUFFICES ASSUME Converts, NEW p \in Paths', p[3] = "wav"
               PROVE  ~opts.removeWav /\ Target(p) \in Paths'
    BY <1>1 DEF WavsDone, Keep, Converts, Target, Ext
  <2>1. p \in Paths /\ p \in Path
    BY <1>2, <1>3 DEF Touches
  <2>2. p \in WavsIn("root")
    BY <2>1 DEF WavsIn, Find
  <2>3. Paths' = (Paths \cup {Target(w) : w \in Unconverted(WavsIn("root"))})
                    \ (IF opts.removeWav THEN WavsIn("root") ELSE {})
    BY <1>1, WavFiles DEF StageInv
  <2>6. ~opts.removeWav
    BY <2>2, <2>3
  <2>4. CASE Target(p) \in Paths
    <3>1. Target(p)[3] \in {"mp3", "flac"}
      BY <2>1, TargetPath
    <3> QED
      BY <1>2, <2>6, <2>4, <3>1 DEF Touches
  <2>5. CASE Target(p) \notin Paths
    <3>1. p \in Unconverted(WavsIn("root"))
      BY <2>2, <2>5 DEF Unconverted
    <3> QED
      BY <1>1, <2>6, <3>1, WavFiles DEF StageInv
  <2> QED
    BY <2>4, <2>5
<1> QED
  BY <1>1, <1>4, <1>5, <1>6, <1>7, <1>8 DEF StageInv, Staged, Unique, RefusalExcused

\* The check of the manifest finds nothing wrong that the options do not force.
LEMMA ExpectedHolds ==
    ASSUME StageInv, pc = "manifest", ~Expected
    PROVE  opts.mp3 /\ opts.flac /\ ~opts.removeWav
<1>1. opts.mp4 # "off" /\ Has("m2v") => Has("mp4")
  BY DEF StageInv, Staged, VideoDone, Sourced
<1>2. opts.webp /\ opts.removePNG => ~Has("png")
  BY DEF StageInv, Staged, PngsDone, Has
<1>3. Converts /\ opts.removeWav => ~Has("wav")
  BY DEF StageInv, Staged, WavsDone, Has
<1>4. ASSUME Converts, Has("wav"), ~(opts.mp3 /\ opts.flac)
      PROVE  Has(IF opts.mp3 THEN "mp3" ELSE "flac")
  <2>1. PICK w \in Paths : w[3] = "wav"
    BY <1>4 DEF Has
  <2>2. Target(w) \in Paths
    BY <1>4, <2>1 DEF StageInv, Staged, WavsDone
  <2>3. Target(w)[3] = IF opts.mp3 THEN "mp3" ELSE "flac"
    BY DEF Target, Ext
  <2> QED
    BY <2>2, <2>3 DEF Has
<1>5. opts.mp3 /\ Has("wav") => Has("mp3")
  <2> SUFFICES ASSUME opts.mp3, Has("wav") PROVE Has("mp3")
    OBVIOUS
  <2>1. PICK w \in Paths : w[3] = "wav"
    BY DEF Has
  <2>2. Target(w) \in Paths
    BY <2>1 DEF StageInv, Staged, WavsDone, Converts
  <2>3. Target(w)[3] = "mp3"
    BY DEF Target, Ext
  <2> QED
    BY <2>2, <2>3 DEF Has
<1>6. opts.flac /\ ~opts.mp3 /\ Has("wav") => Has("flac")
  BY <1>4 DEF Converts
<1>7. opts.mp3 \in BOOLEAN /\ opts.flac \in BOOLEAN /\ opts.removeWav \in BOOLEAN
  BY DEF StageInv, Typed, OptionSet
<1> QED
  BY <1>1, <1>2, <1>3, <1>5, <1>6, <1>7 DEF Expected, Converts

\* The manifest lets only unique names through.
LEMMA ManifestStage == StageInv /\ Manifest => StageInv'
<1> SUFFICES ASSUME StageInv, Manifest PROVE StageInv'
  OBVIOUS
<1>1. /\ pc = "manifest" /\ UNCHANGED files /\ Keep
      /\ \/ pc' = "archive" /\ ~Duplicate
         \/ pc' = "refused" /\ ~Expected
         \/ pc' = "failed"
  BY DEF Manifest, Step
<1>2. Typed'
  BY <1>1, TypedStep DEF StageInv, Typed
<1>3. Sourced'
  BY <1>1, SameSourced DEF StageInv, Keep
<1>4. CASE pc' = "archive"
  BY <1>1, <1>2, <1>3, <1>4
  DEF StageInv, Staged, Placed, VideoLeft, VideoDone, AcbsDone, PngsDone, WavsDone, Unique, Keep,
      RefusalExcused, Has, Ext, Target, Converts, Duplicate, Sanitized
<1>5. CASE pc' = "refused" /\ ~Expected
  <2>1. opts.mp3 /\ opts.flac /\ ~opts.removeWav
    BY <1>1, <1>5, ExpectedHolds
  <2> QED
    BY <1>1, <1>2, <1>3, <1>5, <2>1
    DEF StageInv, Staged, Placed, VideoLeft, VideoDone, AcbsDone, PngsDone, WavsDone, Unique,
        Keep, RefusalExcused
<1>6. CASE pc' = "failed"
  BY <1>2, <1>3, <1>6, FailedStaged DEF StageInv
<1> QED
  BY <1>1, <1>4, <1>5, <1>6

\* The removal of the directory leaves nothing or everything.
LEMMA EndStage == StageInv /\ End => StageInv'
<1> SUFFICES ASSUME StageInv, End PROVE StageInv'
  OBVIOUS
<1>1. /\ pc # "idle" /\ pc' = "idle" /\ UNCHANGED <<bundle, opts, place, delivery>>
      /\ left' \subseteq left \cup {delivery}
  BY DEF End
<1>2. \A p \in Paths' : p \in Paths
  BY DEF End
<1>3. Typed'
  BY <1>1, <1>2 DEF StageInv, Typed
<1>4. Sourced'
  BY <1>1, <1>2 DEF StageInv, Sourced, Has, Videos
<1> QED
  BY <1>1, <1>3, <1>4
  DEF StageInv, Staged, Placed, VideoLeft, VideoDone, AcbsDone, PngsDone, WavsDone, Unique,
      RefusalExcused

\* A task starts with no file.
LEMMA StageInit == Init => StageInv
<1> SUFFICES ASSUME Init PROVE StageInv
  OBVIOUS
<1>1. Paths = {}
  BY DEF Init
<1>2. Typed
  BY <1>1, WorkspaceAssumption DEF Init, Typed, WorkspaceAssumption
<1>3. Sourced
  BY <1>1 DEF Sourced, Has
<1> QED
  BY <1>2, <1>3
  DEF Init, StageInv, Staged, Placed, VideoLeft, VideoDone, AcbsDone, PngsDone, WavsDone, Unique,
      RefusalExcused

\* Every step keeps what the stages have done.
LEMMA StageStep == StageInv /\ [Next]_vars => StageInv'
  BY QuietStage, ExportStage, MergeStage, ExportUsmStage, ExportAcbStage, StandaloneStage, PngsStage,
     FinalizeStage, ManifestStage, EndStage DEF Next, Over

\* For any bundles, options and tracks, whatever fails and whatever a killed delivery left,
\* every stage finds what the ones before it promise.
THEOREM StagesHold == Spec => []StageInv
  BY StageInit, StageStep, PTL DEF Spec

\* No archive holds a source that its options convert.
THEOREM AllIsConverted == Spec => []AllConverted
<1>1. StageInv => AllConverted
  BY DEF StageInv, Staged, VideoDone, AcbsDone, PngsDone, WavsDone, AllConverted
<1> QED
  BY <1>1, StagesHold, PTL

\* A refusal has the one excuse there is.
THEOREM RefusalsAreExcused == Spec => []RefusalExcused
<1>1. StageInv => RefusalExcused
  BY DEF StageInv, Staged
<1> QED
  BY <1>1, StagesHold, PTL

-----------------------------------------------------------------------------
(* Where the sources of a delivery went: FileInv is inductive beside          *)
(* StageInv.                                                                *)

\* What an exported file is made of.
LEMMA SourcesAre ==
    ASSUME Typed, NEW p \in Exported
    PROVE  /\ Sources(p) # {}
           /\ \A x \in Sources(p) :
                 /\ x[1] = delivery /\ x[2] = p[1]
                 /\ p[3] = "acb" => x[3] \in Tracks[p[2]] /\ x[4] = "hca"
                 /\ p[3] # "acb" => x[3] = p[2] /\ x[4] = p[3]
           /\ p[3] = "acb" => \A t \in Tracks[p[2]] : <<delivery, p[1], t, "hca">> \in Sources(p)
<1>1. p \in bundle /\ bundle \in Bundles
  BY ExportedAre DEF Typed
<1>2. CASE p[3] = "acb"
  <2>1. Tracks[p[2]] # {}
    BY <1>1, <1>2, BundleAssumption DEF BundleAssumption
  <2>2. Sources(p) = {<<delivery, p[1], t, "hca">> : t \in Tracks[p[2]]}
    BY <1>2 DEF Sources
  <2>3. \A t \in Tracks[p[2]] : <<delivery, p[1], t, "hca">> \in Sources(p)
    BY <2>2
  <2>4. ASSUME NEW x \in Sources(p)
        PROVE  x[1] = delivery /\ x[2] = p[1] /\ x[3] \in Tracks[p[2]] /\ x[4] = "hca"
    <3>1. PICK t \in Tracks[p[2]] : x = <<delivery, p[1], t, "hca">>
      BY <2>2
    <3> QED
      BY <3>1
  <2> QED
    BY <1>2, <2>1, <2>3, <2>4
<1>3. CASE p[3] # "acb"
  <2>1. Sources(p) = {<<delivery, p[1], p[2], p[3]>>}
    BY <1>3 DEF Sources
  <2>2. ASSUME NEW x \in Sources(p)
        PROVE  x[1] = delivery /\ x[2] = p[1] /\ x[3] = p[2] /\ x[4] = p[3]
    <3>1. x = <<delivery, p[1], p[2], p[3]>>
      BY <2>1
    <3> QED
      BY <3>1
  <2> QED
    BY <1>3, <2>1, <2>2
<1> QED
  BY <1>2, <1>3

\* A step of Process keeps the task, and with it what is to be traced.
LEMMA KeepSame ==
    ASSUME Keep
    PROVE  /\ Exported' = Exported /\ AudioExts' = AudioExts
           /\ \A p : Sources(p)' = Sources(p)
           /\ \A e : SourcesOf(e)' = SourcesOf(e)
           /\ \A x : /\ Dropped(x)' = Dropped(x) /\ Shadowed(x)' = Shadowed(x)
                     /\ Outdated(x)' = Outdated(x)
           /\ Fresh' = Fresh /\ MergedPath' = MergedPath
  BY DEF Keep, Exported, AudioExts, Sources, SourcesOf, Dropped, Shadowed, Outdated, Converts, Fresh,
         MergedPath

\* What a step leaves alone it keeps.
LEMMA KeptStays ==
    ASSUME NEW exts, NEW x, Kept(x, exts),
           \A p \in Paths : p[3] \in exts => p \in Paths' /\ files'[p] = files[p]
    PROVE  \E q \in Paths' : q[3] \in exts /\ x \in files'[q]
  BY DEF Kept

\* A step that touches other files leaves those of an extension alone.
LEMMA Leaves ==
    ASSUME NEW made, NEW gone, Touches(made, gone), NEW p \in Paths, p[3] \notin made \cup gone
    PROVE  p \in Paths' /\ files'[p] = files[p]
  BY DEF Touches

\* What is new must be whole.
LEMMA WholeStep ==
    ASSUME Whole, Keep, pc \in AfterExport,
           Fresh => \A p \in Paths' : (p \in Paths /\ files'[p] = files[p]) \/ files'[p] # {}
    PROVE  Whole'
<1>1. Fresh' = Fresh
  BY KeepSame
<1> QED
  BY <1>1 DEF Whole

\* What a step of Process writes was in a file before.
Inherits == \A p \in Paths' : \A x \in files'[p] : \E q \in Paths : x \in files[q]

\* It is enough that what is new does.
LEMMA AfterInherits ==
    ASSUME NEW new, NEW gone, files' = After(new, gone),
           \A p \in DOMAIN new : \A x \in new[p] : \E q \in Paths : x \in files[q]
    PROVE  Inherits
<1>1. /\ Paths' = (Paths \cup DOMAIN new) \ gone
      /\ \A p \in Paths' : files'[p] = IF p \in DOMAIN new THEN new[p] ELSE files[p]
  BY AfterFiles
<1> QED
  BY <1>1 DEF Inherits

\* A step of Process owes only where its content comes from, and what its new stage is to
\* know.
LEMMA FileStep ==
    ASSUME FileInv, Keep, Inherits, pc # "idle", pc' \notin {"idle", "export"}, Traced'
    PROVE  FileInv'
<1>1. Whose' = Whose
  BY DEF Whose, Keep
<1>2. Tags'
  BY <1>1 DEF Tags, Inherits, FileInv
<1> QED
  BY <1>2 DEF FileInv, NoFiles

\* A step that leaves the files alone writes nothing.
LEMMA SameInherits == UNCHANGED files => Inherits
  BY DEF Inherits

\* A delivery that is over has nothing to trace.
LEMMA NothingTraced == pc' \in {"idle", "export", "failed", "refused"} => Traced'
  BY DEF Traced, Whole, KeptVideo, KeptTracks, NoOutput, KeptWavs, KeptPngs, KeptRest

\* What a step touches nothing of stays as it was exported.
LEMMA UntouchedStays ==
    ASSUME Keep, NEW made, NEW gone, Touches(made, gone), NEW p, p[3] \notin made \cup gone, Untouched(p)
    PROVE  Untouched(p)'
  BY KeepSame DEF Untouched, Touches

\* The video of an exported file stays in one of its formats.
LEMMA VideoStays ==
    ASSUME Keep, NEW made, NEW gone, Touches(made, gone), KeptVideo, pc \in AfterUsm, pc' \in AfterUsm,
           {"usm", "mp4", "m2v"} \cap (made \cup gone) = {}
    PROVE  KeptVideo'
<1> SUFFICES ASSUME NEW x \in SourcesOf("usm")
             PROVE  Kept(x, {"usm", "mp4", "m2v"})' \/ Dropped(x)
  BY KeepSame DEF KeptVideo
<1>1. Kept(x, {"usm", "mp4", "m2v"}) \/ Dropped(x)
  BY DEF KeptVideo
<1>2. \A p \in Paths : p[3] \in {"usm", "mp4", "m2v"} => p \in Paths' /\ files'[p] = files[p]
  BY Leaves
<1> QED
  BY <1>1, <1>2, KeptStays DEF Kept

\* So do an image, and whatever is never converted.
LEMMA RestStays ==
    ASSUME Typed, Keep, NEW made, NEW gone, Touches(made, gone), pc \in AfterExport, pc' \in AfterExport,
           made \cup gone \subseteq {"usm", "acb", "wav", "png", "m2v", "mp4", "mp3", "flac", "webp"}
    PROVE  /\ KeptRest => KeptRest'
           /\ \/ ~KeptPngs \/ "png" \in made \cup gone \/ "webp" \in made \cup gone
              \/ ~(pc' \in AfterPng <=> pc \in AfterPng)
              \/ KeptPngs'
<1>1. ASSUME KeptRest PROVE KeptRest'
  <2> SUFFICES ASSUME NEW p \in Exported, p[3] \notin {"usm", "acb", "wav", "png"}
               PROVE  Untouched(p)'
    BY KeepSame DEF KeptRest
  <2>1. p[3] \notin made \cup gone
    BY ExportedAre
  <2> QED
    BY <1>1, <2>1, UntouchedStays DEF KeptRest
<1>2. ASSUME KeptPngs, "png" \notin made \cup gone, "webp" \notin made \cup gone,
             (pc' \in AfterPng <=> pc \in AfterPng)
      PROVE  KeptPngs'
  <2>1. ASSUME pc' \notin AfterPng, NEW p \in Exported, p[3] = "png" PROVE Untouched(p)'
    BY <1>2, <2>1, UntouchedStays DEF KeptPngs
  <2>2. ASSUME pc' \in AfterPng, NEW x \in SourcesOf("png") PROVE Kept(x, {"png", "webp"})'
    <3>1. Kept(x, {"png", "webp"})
      BY <1>2, <2>2 DEF KeptPngs
    <3>2. \A p \in Paths : p[3] \in {"png", "webp"} => p \in Paths' /\ files'[p] = files[p]
      BY <1>2, Leaves
    <3> QED
      BY <3>1, <3>2, KeptStays DEF Kept
  <2> QED
    BY <2>1, <2>2, KeepSame DEF KeptPngs
<1> QED
  BY <1>1, <1>2

\* What is not to stay is removed.
LEMMA StaysOrRemoves == Removes(pc # "packed") <=> ~Stays(pc # "packed")
  BY WorkspaceAssumption DEF WorkspaceAssumption, Removes, Stays

\* The steps that leave the files alone keep the trace, of any stage.
LEMMA QuietFile ==
    ASSUME StageInv, FileInv,
           Begin \/ Fail \/ Crash \/ NoUsm \/ Manifest \/ Archive \/ End \/ UNCHANGED vars
    PROVE  FileInv'
<1>1. CASE Begin
  <2>1. pc = "idle" /\ pc' = "export" /\ UNCHANGED <<files, left>>
    BY <1>1 DEF Begin, Step
  <2>2. NoFiles'
    BY <2>1 DEF FileInv, NoFiles, Fresh
  <2>3. Tags'
    BY <2>1 DEF FileInv, Tags, Whose
  <2> QED
    BY <2>1, <2>2, <2>3, NothingTraced DEF FileInv
<1>2. CASE Fail
  <2>1. Keep /\ pc # "idle" /\ pc' = "failed" /\ UNCHANGED files
    BY <1>2 DEF Fail
  <2> QED
    BY <2>1, FileStep, NothingTraced, SameInherits
<1>3. CASE Crash
  <2>1. pc # "idle" /\ pc' = "idle" /\ left' = left \cup {delivery} /\ UNCHANGED files
    BY <1>3 DEF Crash
  <2>2. NoFiles'
    BY <2>1 DEF NoFiles, Fresh
  <2>3. Tags'
    BY <2>1 DEF FileInv, Tags, Whose
  <2> QED
    BY <2>1, <2>2, <2>3, NothingTraced DEF FileInv
<1>4. CASE End
  <2>1. pc # "idle" /\ pc' = "idle"
    BY <1>4 DEF End
  <2>2. CASE Stays(pc # "packed")
    <3>1. left' = left \cup {delivery} /\ UNCHANGED files
      BY <1>4, <2>2, StaysOrRemoves DEF End
    <3>2. NoFiles'
      BY <3>1 DEF NoFiles, Fresh
    <3>3. Tags'
      BY <2>1, <3>1 DEF FileInv, Tags, Whose
    <3> QED
      BY <2>1, <3>2, <3>3, NothingTraced DEF FileInv
  <2>3. CASE ~Stays(pc # "packed")
    <3>1. Paths' = {}
      BY <1>4, <2>3, StaysOrRemoves DEF End
    <3> QED
      BY <2>1, <3>1, NothingTraced DEF FileInv, NoFiles, Tags
  <2> QED
    BY <2>2, <2>3
<1>5. CASE NoUsm
  <2>1. pc = "usm" /\ pc' = "acb" /\ Keep /\ UNCHANGED files
    BY <1>5 DEF NoUsm, Step
  <2>2. ASSUME Traced PROVE Traced'
    <3>1. ASSUME NEW x \in SourcesOf("usm") PROVE Kept(x, {"usm", "mp4", "m2v"}) \/ Dropped(x)
      <4>1. CASE AsExported
        <5>1. PICK p \in Exported : p[3] = "usm" /\ x \in Sources(p)
          BY <3>1 DEF SourcesOf
        <5> QED
          BY <4>1, <5>1 DEF AsExported, Untouched, Kept
      <4>2. CASE Merged
        <5>1. MergedPath \in Paths /\ MergedPath[3] = "usm"
          BY <4>2 DEF Merged, Find
        <5> QED
          BY <3>1, <4>2, <5>1 DEF Merged, Kept
      <4> QED
        BY <2>1, <2>2, <4>1, <4>2 DEF Traced, KeptVideo
    <3>2. KeptVideo'
      BY <2>1, <3>1, KeepSame DEF KeptVideo, Kept
    <3> QED
      BY <2>1, <2>2, <3>2, KeepSame
      DEF Traced, Whole, KeptTracks, NoOutput, KeptWavs, KeptPngs, KeptRest, Keep, Untouched, Kept, Has
  <2> QED
    BY <2>1, <2>2, FileStep, SameInherits DEF FileInv
<1>6. CASE Manifest \/ Archive
  <2>1. /\ pc \in {"manifest", "archive"} /\ Keep /\ UNCHANGED files
        /\ pc' \in {"archive", "packed", "refused", "failed"}
    BY <1>6 DEF Manifest, Archive, Step
  <2>2. ASSUME Traced, pc' \in {"archive", "packed"} PROVE Traced'
    BY <2>1, <2>2, KeepSame
    DEF Traced, Whole, KeptVideo, KeptTracks, NoOutput, KeptWavs, KeptPngs, KeptRest, Keep, Untouched,
        Kept
  <2> QED
    BY <2>1, <2>2, FileStep, NothingTraced, SameInherits DEF FileInv
<1>7. CASE UNCHANGED vars
  <2>1. UNCHANGED <<bundle, opts, pc, place, files, delivery, left>>
    BY <1>7 DEF vars
  <2>2. /\ \A p : Untouched(p)' = Untouched(p)
        /\ \A x : /\ Dropped(x)' = Dropped(x) /\ Shadowed(x)' = Shadowed(x)
                  /\ Outdated(x)' = Outdated(x)
        /\ \A e : SourcesOf(e)' = SourcesOf(e) /\ Has(e)' = Has(e)
        /\ Exported' = Exported /\ MergedPath' = MergedPath /\ AudioExts' = AudioExts
    BY <2>1 DEF Untouched, Dropped, Shadowed, Outdated, SourcesOf, Sources, Exported, MergedPath,
                AudioExts, Converts, Has
  <2>3. (AsExported => AsExported') /\ (Merged => Merged')
    BY <2>1, <2>2 DEF AsExported, Merged, Find
  <2>4. (NoFiles => NoFiles') /\ (Tags => Tags') /\ Fresh' = Fresh /\ (Whole => Whole')
    BY <2>1 DEF NoFiles, Tags, Whose, Fresh, Whole
  <2>5. KeptVideo => KeptVideo'
    BY <2>1, <2>2, <2>3 DEF KeptVideo, Kept
  <2>6. (KeptTracks => KeptTracks') /\ (NoOutput => NoOutput')
    BY <2>1, <2>2, <2>4 DEF KeptTracks, NoOutput, Kept
  <2>7. KeptWavs => KeptWavs'
    <3>1. \A p : Sources(p)' = Sources(p)
      BY <2>1 DEF Sources
    <3> QED
      BY <2>1, <2>2, <3>1 DEF KeptWavs, Kept
  <2>8. (KeptPngs => KeptPngs') /\ (KeptRest => KeptRest')
    BY <2>1, <2>2 DEF KeptPngs, KeptRest, Kept
  <2> QED
    BY <2>1, <2>4, <2>5, <2>6, <2>7, <2>8 DEF FileInv, Traced
<1> QED
  BY <1>1, <1>2, <1>3, <1>4, <1>5, <1>6, <1>7

\* What the export writes is what there is to trace.
LEMMA ExportFile == StageInv /\ FileInv /\ Export => FileInv'
<1> SUFFICES ASSUME StageInv, FileInv, Export PROVE FileInv'
  OBVIOUS
<1>1. PICK written \in SUBSET Exported :
         /\ (pc' = "usm" /\ written = Exported) \/ pc' = "failed"
         /\ Paths' = Paths \cup written
         /\ \A p \in Paths' : files'[p] = IF p \in written THEN Sources(p) ELSE files[p]
  BY ExportOutcome DEF StageInv
<1>2. pc = "export" /\ UNCHANGED <<bundle, opts, delivery, left>>
  BY ExportOutcome DEF StageInv
<1>3. /\ Fresh' = Fresh /\ Exported' = Exported
      /\ \A p : Sources(p)' = Sources(p)
  BY <1>2 DEF Fresh, Exported, Sources
<1>4. Tags'
  <2>1. Whose' = Whose /\ delivery \in Whose
    BY <1>1, <1>2 DEF Whose
  <2>2. \A p \in written : \A x \in Sources(p) : x[1] = delivery
    BY SourcesAre DEF StageInv
  <2> QED
    BY <1>1, <2>1, <2>2 DEF FileInv, Tags
<1>5. CASE pc' = "failed"
  BY <1>4, <1>5, NothingTraced DEF FileInv, NoFiles
<1>6. CASE pc' = "usm"
  <2>1. Paths' = Paths \cup Exported /\ \A p \in Exported : files'[p] = Sources(p)
    BY <1>1, <1>6
  <2>2. \A p \in Exported : Untouched(p)'
    BY <1>3, <2>1 DEF Untouched
  <2>3. Fresh => Paths' = Exported
    BY <1>2, <2>1 DEF FileInv, NoFiles
  <2>4. Whole'
    BY <1>3, <2>1, <2>3, SourcesAre DEF Whole, StageInv
  <2>5. KeptVideo'
    BY <1>3, <1>6, <2>2 DEF KeptVideo, AsExported
  <2>6. NoOutput'
    BY <1>3, <1>6, <2>3, ExportedAre DEF NoOutput, Has, StageInv
  <2>7. Traced'
    BY <1>3, <1>6, <2>2, <2>4, <2>5, <2>6 DEF Traced, KeptTracks, KeptWavs, KeptPngs, KeptRest
  <2> QED
    BY <1>4, <1>6, <2>7 DEF FileInv, NoFiles
<1> QED
  BY <1>1, <1>5, <1>6

\* Before the stage of the video, the exported files of the bundle are found.
LEMMA VideosFound ==
    ASSUME StageInv, AsExported, pc = "usm", NEW p \in Exported, p[3] = "usm"
    PROVE  p \in Find(place, "usm") /\ files[p] = Sources(p)
<1>1. place = "in" => \A q \in Paths : q[1] = "in"
  BY DEF StageInv, Staged, Placed
<1>2. p \in Paths /\ files[p] = Sources(p)
  BY DEF AsExported, Untouched
<1> QED
  BY <1>1, <1>2, Found DEF StageInv, Typed

\* Merging loses the one file that has the name of the merged one.
LEMMA MergeFile == StageInv /\ FileInv /\ Merge => FileInv'
<1> SUFFICES ASSUME StageInv, FileInv, Merge PROVE FileInv'
  OBVIOUS
<1>1. pc = "usm" /\ opts.usm = "decode" /\ Cardinality(Find(place, "usm")) > 1 /\ Keep
  BY MergeOutcome DEF StageInv
<1>2. PICK done \in SUBSET (Find(place, "usm") \ {MergedPath}) :
         /\ (pc' = "usm" /\ done = Find(place, "usm") \ {MergedPath}) \/ pc' = "failed"
         /\ Paths' = (Paths \cup {MergedPath}) \ done
         /\ files'[MergedPath] = UNION {files[u] : u \in done}
  BY MergeOutcome DEF StageInv
<1>3. Touches({"usm"}, {"usm"})
  BY MergeTouches DEF StageInv
<1>6. Find(place, "usm") # {MergedPath} /\ Find(place, "usm") # {}
  <2>1. Cardinality({MergedPath}) = 1
    BY FS_Singleton
  <2>2. Cardinality({}) = 0
    BY FS_EmptySet
  <2> QED
    BY <1>1, <2>1, <2>2
<1>7. Inherits
  <2>1. PICK gone \in SUBSET (Find(place, "usm") \ {MergedPath}) :
           files' = After([p \in {MergedPath} |-> UNION {files[u] : u \in gone}], gone)
    BY DEF Merge
  <2> DEFINE new == [p \in {MergedPath} |-> UNION {files[u] : u \in gone}]
  <2>2. files' = After(new, gone)
    BY <2>1
  <2>3. \A p \in DOMAIN new : \A x \in new[p] : \E u \in gone : x \in files[u]
    OBVIOUS
  <2>4. gone \subseteq Paths
    BY DEF Find
  <2> HIDE DEF new
  <2>5. \A p \in DOMAIN new : \A x \in new[p] : \E q \in Paths : x \in files[q]
    BY <2>3, <2>4
  <2> QED
    BY <2>2, <2>5, AfterInherits
<1>4. ASSUME Traced, pc' = "usm" PROVE Traced'
  <2>1. ~Merged
    BY <1>6 DEF Merged
  <2>2. AsExported
    BY <1>1, <1>4, <2>1 DEF Traced, KeptVideo
  <2>4. done = Find(place, "usm") \ {MergedPath}
    BY <1>2, <1>4
  <2>5. MergedPath[3] = "usm" /\ MergedPath[1] = place /\ MergedPath \in Paths' /\ place' = place
    BY <1>1, <1>2, <2>4, MergedPathType DEF StageInv, Keep
  <2>6. Find(place, "usm")' = {MergedPath}
    <3>1. place = "in" => \A p \in Paths : p[1] = "in"
      BY <1>1 DEF StageInv, Staged, Placed
    <3>2. \A p \in Paths : p[3] = "usm" => p \in Find(place, "usm")
      BY <3>1, Found DEF StageInv, Typed
    <3>3. \A p \in Paths' : p[3] = "usm" => p = MergedPath
      BY <1>2, <2>4, <3>2
    <3>4. \A p \in Find(place, "usm")' : p \in Paths' /\ p[3] = "usm"
      BY <2>5 DEF Find
    <3>5. MergedPath \in Find(place, "usm")'
      BY <2>5 DEF Find
    <3> QED
      BY <3>3, <3>4, <3>5
  <2>7. ASSUME NEW x \in SourcesOf("usm") PROVE x \in files'[MergedPath] \/ Dropped(x)
    <3>1. PICK p \in Exported : p[3] = "usm" /\ x \in Sources(p)
      BY <2>7 DEF SourcesOf
    <3>2. p \in Find(place, "usm") /\ files[p] = Sources(p)
      BY <1>1, <2>2, <3>1, VideosFound
    <3>3. CASE p # MergedPath
      BY <1>2, <2>4, <3>1, <3>2, <3>3
    <3>4. CASE p = MergedPath
      <4>1. x[2] = p[1] /\ x[3] = p[2] /\ x[4] = "usm"
        BY <3>1, SourcesAre DEF StageInv
      <4>2. <<p[1], p[2], "usm">> = MergedPath
        BY <3>4 DEF MergedPath
      <4>3. Cardinality({q \in bundle : q[3] = "usm"}) > 1
        BY <1>1, SeveralVideos DEF Videos
      <4> QED
        BY <1>1, <4>1, <4>2, <4>3 DEF Dropped
    <3> QED
      BY <3>3, <3>4
  <2>8. KeptVideo'
    <3>1. Merged'
      BY <1>1, <2>6, <2>7, KeepSame DEF Merged
    <3> QED
      BY <1>4, <3>1 DEF KeptVideo
  <2>9. Whole'
    <3>1. \E u \in done : u \in Paths
      BY <1>6, <2>4 DEF Find
    <3>2. Fresh => \A u \in done : files[u] # {}
      BY <1>1, <1>4, <2>4 DEF Traced, Whole, Find
    <3>3. Fresh => files'[MergedPath] # {}
      BY <1>2, <3>1, <3>2
    <3>4. \A p \in Paths' : p[3] # "usm" => p \in Paths /\ files'[p] = files[p]
      BY <1>3 DEF Touches
    <3>5. \A p \in Paths' : p[3] = "usm" => p = MergedPath
      <4>1. place = "in" => \A p \in Paths : p[1] = "in"
        BY <1>1 DEF StageInv, Staged, Placed
      <4> QED
        BY <1>2, <2>4, <4>1, Found DEF StageInv, Typed
    <3> QED
      BY <1>1, <1>4, <3>3, <3>4, <3>5, WholeStep DEF Traced
  <2>10. \A p \in Exported : p[3] # "usm" => (Untouched(p) => Untouched(p)')
    BY <1>1, <1>3, UntouchedStays
  <2>11. Fresh => ~Has("mp3")' /\ ~Has("flac")'
    BY <1>1, <1>3, <1>4 DEF Traced, NoOutput, Has, Touches
  <2> QED
    BY <1>1, <1>4, <2>8, <2>9, <2>10, <2>11, KeepSame
    DEF Traced, KeptTracks, NoOutput, KeptWavs, KeptPngs, KeptRest
<1>5. CASE pc' = "failed"
  BY <1>1, <1>5, <1>7, FileStep, NothingTraced
<1> QED
  BY <1>1, <1>2, <1>4, <1>5, <1>7, FileStep DEF FileInv

\* Exporting the only USM file keeps its content in an output.
LEMMA ExportUsmFile == StageInv /\ FileInv /\ ExportUsm => FileInv'
<1> SUFFICES ASSUME StageInv, FileInv, ExportUsm PROVE FileInv'
  OBVIOUS
<1>1. pc = "usm" /\ opts.usm = "decode" /\ Keep /\ pc' \in {"acb", "failed"}
  BY DEF ExportUsm, Step
<1>2. Touches({"mp4", "m2v"}, {"usm", "m2v"})
  BY ExportUsmTouches DEF StageInv
<1>5. Inherits
  <2>1. PICK u \in Find(place, "usm") : \E outs \in SUBSET {Mp4Of(u), M2v} :
              \/ \E gone \in SUBSET {u, M2v} : files' = After([p \in outs |-> files[u]], gone)
              \/ \E new : /\ DOMAIN new = outs /\ \A p \in outs : new[p] \subseteq files[u]
                          /\ files' = After(new, {})
    BY ExportUsmOutcome DEF StageInv
  <2>2. \A outs : /\ DOMAIN [p \in outs |-> files[u]] = outs
                  /\ \A q \in outs : [p \in outs |-> files[u]][q] = files[u]
    OBVIOUS
  <2>3. PICK new, gone : /\ \A p \in DOMAIN new : new[p] \subseteq files[u]
                         /\ files' = After(new, gone)
    BY <2>1, <2>2
  <2>4. u \in Paths
    BY DEF Find
  <2> QED
    BY <2>3, <2>4, AfterInherits
<1>3. ASSUME Traced, pc' = "acb" PROVE Traced'
  <2>1. PICK u \in Path : \E outs \in SUBSET {Mp4Of(u), M2v} : \E gone \in SUBSET {u, M2v} :
              /\ Find(place, "usm") = {u}
              /\ \E p \in outs : p \notin gone
              /\ Paths' = (Paths \cup outs) \ gone
              /\ \A p \in Paths' : files'[p] = IF p \in outs THEN files[u] ELSE files[p]
    BY <1>3, ExportUsmSuccess
  <2>2. PICK outs \in SUBSET {Mp4Of(u), M2v} : \E gone \in SUBSET {u, M2v} :
              /\ \E p \in outs : p \notin gone
              /\ Paths' = (Paths \cup outs) \ gone
              /\ \A p \in Paths' : files'[p] = IF p \in outs THEN files[u] ELSE files[p]
    BY <2>1
  <2>3. u \in Paths
    BY <2>1 DEF Find
  <2>4. PICK v \in outs : v \in Paths' /\ files'[v] = files[u]
    BY <2>2
  <2>5. v[3] \in {"mp4", "m2v"}
    BY <2>2, VideoPaths DEF StageInv
  <2>6. ASSUME NEW x \in SourcesOf("usm") PROVE x \in files[u] \/ Dropped(x)
    <3>1. CASE AsExported
      <4>1. PICK p \in Exported : p[3] = "usm" /\ x \in Sources(p)
        BY <2>6 DEF SourcesOf
      <4>2. p \in Find(place, "usm") /\ files[p] = Sources(p)
        BY <1>1, <3>1, <4>1, VideosFound
      <4> QED
        BY <2>1, <4>1, <4>2
    <3>2. CASE Merged
      <4>1. u = MergedPath
        BY <2>1, <3>2 DEF Merged
      <4> QED
        BY <2>6, <3>2, <4>1 DEF Merged
    <3> QED
      BY <1>1, <1>3, <3>1, <3>2 DEF Traced, KeptVideo
  <2>7. KeptVideo'
    <3>1. \A x \in SourcesOf("usm") : Kept(x, {"usm", "mp4", "m2v"})' \/ Dropped(x)
      BY <2>4, <2>5, <2>6 DEF Kept
    <3> QED
      BY <1>1, <1>3, <3>1, KeepSame DEF KeptVideo
  <2>8. Whole'
    <3>1. \A p \in Paths' : p \in outs \/ p \in Paths
      BY <2>2
    <3>2. Fresh => files[u] # {}
      BY <1>1, <1>3, <2>3 DEF Traced, Whole
    <3>3. \A p \in Paths' : files'[p] = IF p \in outs THEN files[u] ELSE files[p]
      BY <2>2
    <3> QED
      BY <1>1, <1>3, <3>1, <3>2, <3>3, WholeStep DEF Traced
  <2>9. \A p \in Exported : p[3] # "usm" => (Untouched(p) => Untouched(p)')
    <3>1. \A p \in Exported : p[3] \notin {"mp4", "m2v"}
      BY ExportedAre DEF StageInv
    <3> QED
      BY <1>1, <1>2, <3>1, UntouchedStays
  <2>10. Fresh => ~Has("mp3")' /\ ~Has("flac")'
    BY <1>1, <1>2, <1>3 DEF Traced, NoOutput, Has, Touches
  <2> QED
    BY <1>1, <1>3, <2>7, <2>8, <2>9, <2>10, KeepSame
    DEF Traced, KeptTracks, NoOutput, KeptWavs, KeptPngs, KeptRest
<1>4. CASE pc' = "failed"
  BY <1>1, <1>4, <1>5, FileStep, NothingTraced
<1> QED
  BY <1>1, <1>3, <1>4, <1>5, FileStep DEF FileInv

\* A track belongs to one ACB file of a directory.
LEMMA OriginIs ==
    ASSUME Typed, Sourced, NEW done \in SUBSET Find(place, "acb"), NEW a \in done,
           NEW p, p[1] = a[1], p[2] \in Tracks[a[2]]
    PROVE  Origin(done, p) = a
<1>1. \E b \in done : b[1] = p[1] /\ p[2] \in Tracks[b[2]]
  OBVIOUS
<1> DEFINE b == Origin(done, p)
<1>2. b \in done /\ b[1] = p[1] /\ p[2] \in Tracks[b[2]]
  BY <1>1 DEF Origin
<1> HIDE DEF b
<1>3. \A c \in done : c \in Path /\ c[3] = "acb" /\ c[2] \in DOMAIN Tracks
  BY Found, AcbsFound DEF Typed
<1>4. a[2] = b[2]
  BY <1>2, <1>3, WorkspaceAssumption DEF WorkspaceAssumption
<1>5. a = b
  BY <1>2, <1>3, <1>4, PathParts
<1> QED
  BY <1>5 DEF b

\* What the decoding of the ACB files makes of their tracks.
LEMMA AcbTracks ==
    ASSUME StageInv, Traced, pc = "acb", NEW done \in SUBSET Find(place, "acb"), files' = AcbDone(done),
           opts.acb \in {"off", "keep"} => done = {}
    PROVE  /\ \A p \in TrackFiles(done) :
                 /\ p \in Paths' /\ files'[p] # {} /\ p[3] \in TrackExts
                 /\ \E a \in done : a \in bundle /\ a[3] = "acb" /\ a[1] = p[1] /\ p[2] \in Tracks[a[2]]
           /\ \A a \in done : \A t \in Tracks[a[2]] : \A e \in TrackExts : opts.acb # "extract" =>
                 <<delivery, a[1], t, "hca">> \in files'[<<a[1], t, e>>]
           /\ Paths' = (Paths \cup TrackFiles(done)) \ done
           /\ \A p \in Paths' : p \notin TrackFiles(done) => files'[p] = files[p]
<1>1. PICK new : /\ DOMAIN new = TrackFiles(done) /\ files' = After(new, done)
                 /\ \A p \in DOMAIN new : new[p] = {x \in files[Origin(done, p)] : x[3] = p[2]}
  BY AcbDoneFiles
<1>2. /\ Paths' = (Paths \cup TrackFiles(done)) \ done
      /\ \A p \in Paths' : files'[p] = IF p \in TrackFiles(done) THEN new[p] ELSE files[p]
  BY <1>1, AfterFiles
<1>3. \A a \in done : /\ a \in Paths /\ a[3] = "acb" /\ a \in Exported
                      /\ Untouched(a)
  <2> SUFFICES ASSUME NEW a \in done PROVE a \in Paths /\ a[3] = "acb" /\ a \in Exported /\ Untouched(a)
    OBVIOUS
  <2>1. a \in Paths /\ a[3] = "acb"
    BY Found DEF StageInv, Typed
  <2>2. a \in bundle
    BY <2>1, AcbsFound DEF StageInv
  <2>3. a \in Exported
    BY <2>1, <2>2 DEF Exported
  <2> QED
    BY <2>1, <2>3 DEF Traced, KeptTracks
<1>4. ASSUME NEW p \in TrackFiles(done), NEW a \in done, a[1] = p[1], p[2] \in Tracks[a[2]]
      PROVE  p \in Paths' /\ <<delivery, a[1], p[2], "hca">> \in files'[p]
  <2>1. p \in Path /\ p[3] \in TrackExts
    BY TrackFilesAre DEF StageInv
  <2>2. p \notin done
    BY <1>3, <2>1, TrackExtsAre
  <2>3. p \in Paths' /\ files'[p] = {x \in files[Origin(done, p)] : x[3] = p[2]}
    BY <1>1, <1>2, <2>2
  <2>4. Origin(done, p) = a
    BY <1>4, OriginIs DEF StageInv
  <2>5. files[a] = Sources(a) /\ a[3] = "acb" /\ a \in Exported
    BY <1>3 DEF Untouched
  <2>6. <<delivery, a[1], p[2], "hca">> \in files[a]
    BY <1>4, <2>5, SourcesAre DEF StageInv
  <2>7. <<delivery, a[1], p[2], "hca">>[3] = p[2]
    OBVIOUS
  <2> QED
    BY <2>3, <2>4, <2>6, <2>7
<1>5. ASSUME NEW p \in TrackFiles(done)
      PROVE  /\ p \in Paths' /\ files'[p] # {} /\ p[3] \in TrackExts
             /\ \E a \in done : a \in bundle /\ a[3] = "acb" /\ a[1] = p[1] /\ p[2] \in Tracks[a[2]]
  <2>1. p[3] \in TrackExts /\ \E a \in done : a[1] = p[1] /\ p[2] \in Tracks[a[2]]
    BY TrackFilesAre DEF StageInv
  <2>2. PICK a \in done : a[1] = p[1] /\ p[2] \in Tracks[a[2]]
    BY <2>1
  <2>3. a \in bundle /\ a[3] = "acb"
    BY <1>3, ExportedAre DEF StageInv
  <2>4. p \in Paths' /\ files'[p] # {}
    BY <1>4, <2>2
  <2> QED
    BY <2>1, <2>2, <2>3, <2>4
<1>6. ASSUME NEW a \in done, NEW t \in Tracks[a[2]], NEW e \in TrackExts, opts.acb # "extract"
      PROVE  <<delivery, a[1], t, "hca">> \in files'[<<a[1], t, e>>]
  <2> DEFINE p == <<a[1], t, e>>
  <2>1. p \in TrackFiles(done)
    BY <1>6, TrackFilesHave
  <2>2. p[1] = a[1] /\ p[2] = t
    OBVIOUS
  <2> HIDE DEF p
  <2>3. <<delivery, a[1], t, "hca">> \in files'[p]
    BY <1>4, <2>1, <2>2
  <2> QED
    BY <2>3 DEF p
<1> QED
  BY <1>2, <1>5, <1>6

\* Every track is in a file of its own, or was to be dropped.
LEMMA ExportAcbFile == StageInv /\ FileInv /\ ExportAcb => FileInv'
<1> SUFFICES ASSUME StageInv, FileInv, ExportAcb PROVE FileInv'
  OBVIOUS
<1>1. pc = "acb" /\ Keep
  BY DEF ExportAcb, Step
<1>2. PICK done \in SUBSET Find(place, "acb") :
         /\ files' = AcbDone(done)
         /\ opts.acb \in {"off", "keep"} => done = {}
         /\ \/ /\ pc' = "wav"
               /\ opts.acb \notin {"off", "keep"} => done = Find(place, "acb")
            \/ pc' = "failed"
  BY ExportAcbOutcome
<1>3. Touches({"wav", "mp3", "flac"}, {"acb"})
  BY ExportAcbTouches DEF StageInv
<1>6. Inherits
  <2>1. PICK new : /\ DOMAIN new = TrackFiles(done) /\ files' = After(new, done)
                   /\ \A p \in DOMAIN new : new[p] = {x \in files[Origin(done, p)] : x[3] = p[2]}
    BY <1>2, AcbDoneFiles
  <2>2. ASSUME NEW p \in TrackFiles(done) PROVE Origin(done, p) \in Paths
    <3>1. \E a \in done : a[1] = p[1] /\ p[2] \in Tracks[a[2]]
      BY TrackFilesAre DEF StageInv
    <3>2. Origin(done, p) \in done
      BY <3>1 DEF Origin
    <3> QED
      BY <3>2 DEF Find
  <2> QED
    BY <2>1, <2>2, AfterInherits
<1>4. ASSUME Traced, pc' = "wav" PROVE Traced'
  <2>1. \A p \in TrackFiles(done) :
           /\ p \in Paths' /\ files'[p] # {} /\ p[3] \in TrackExts
           /\ \E a \in done : a \in bundle /\ a[3] = "acb" /\ a[1] = p[1] /\ p[2] \in Tracks[a[2]]
    BY <1>1, <1>2, <1>4, AcbTracks
  <2>2. \A a \in done : \A t \in Tracks[a[2]] : \A e \in TrackExts : opts.acb # "extract" =>
           <<delivery, a[1], t, "hca">> \in files'[<<a[1], t, e>>]
    BY <1>1, <1>2, <1>4, AcbTracks
  <2>3. /\ Paths' = (Paths \cup TrackFiles(done)) \ done
        /\ \A p \in Paths' : p \notin TrackFiles(done) => files'[p] = files[p]
    BY <1>1, <1>2, <1>4, AcbTracks
  <2>4. Whole'
    BY <1>1, <1>4, <2>1, <2>3, WholeStep DEF Traced
  <2>5. KeptVideo'
    BY <1>1, <1>3, <1>4, VideoStays DEF Traced
  <2>6. KeptRest' /\ KeptPngs'
    BY <1>1, <1>3, <1>4, RestStays DEF Traced, StageInv
  <2>7. NoOutput'
    <3> SUFFICES ASSUME Fresh, NEW q \in Paths', q[3] \in {"mp3", "flac"}
                 PROVE  \E p \in bundle : p[3] = "acb" /\ p[1] = q[1] /\ q[2] \in Tracks[p[2]]
      BY <1>1, <1>4, KeepSame DEF NoOutput, Keep
    <3>1. q \notin Paths
      BY <1>1, <1>4 DEF Traced, NoOutput, Has
    <3>2. q \in TrackFiles(done)
      BY <2>3, <3>1
    <3> QED
      BY <2>1, <3>2
  <2>8. ASSUME NEW p \in Exported, p[3] = "wav"
        PROVE  Untouched(p)' \/ \A x \in Sources(p) : Shadowed(x)
    <3>1. Untouched(p)
      BY <1>1, <1>4, <2>8 DEF Traced, KeptWavs
    <3>2. CASE p \in TrackFiles(done)
      <4>1. PICK a \in bundle : a[3] = "acb" /\ a[1] = p[1] /\ p[2] \in Tracks[a[2]]
        BY <2>1, <3>2
      <4>2. \A x \in Sources(p) : x[2] = p[1] /\ x[3] = p[2] /\ x[4] = "wav"
        BY <2>8, SourcesAre DEF StageInv
      <4> QED
        BY <4>1, <4>2 DEF Shadowed
    <3>3. CASE p \notin TrackFiles(done)
      <4>1. p \in Paths' /\ files'[p] = files[p]
        BY <1>3, <2>3, <2>8, <3>1, <3>3 DEF Untouched, Touches
      <4> QED
        BY <1>1, <3>1, <4>1, KeepSame DEF Untouched
    <3> QED
      BY <3>2, <3>3
  <2>9. KeptWavs'
    BY <1>1, <1>4, <2>8, KeepSame DEF KeptWavs
  <2>10. ASSUME NEW x \in SourcesOf("acb") PROVE Kept(x, AudioExts)' \/ Dropped(x)
    <3>1. PICK p \in Exported : p[3] = "acb" /\ x \in Sources(p)
      BY <2>10 DEF SourcesOf
    <3>2. PICK t \in Tracks[p[2]] : x = <<delivery, p[1], t, "hca">>
      BY <3>1 DEF Sources
    <3>3. Untouched(p)
      BY <1>1, <1>4, <3>1 DEF Traced, KeptTracks
    <3>4. x[4] = "hca"
      BY <3>2
    <3>5. CASE opts.acb \in {"off", "keep"}
      <4>1. done = {}
        BY <1>2, <3>5
      <4>2. p \in Paths' /\ files'[p] = files[p]
        <5>1. p \notin TrackFiles(done)
          BY <4>1, TrackFilesAre DEF StageInv
        <5> QED
          BY <2>3, <3>3, <4>1, <5>1 DEF Untouched
      <4>3. x \in files'[p] /\ "acb" \in AudioExts'
        BY <3>1, <3>3, <4>2 DEF Untouched, AudioExts
      <4> QED
        BY <3>1, <4>2, <4>3 DEF Kept
    <3>6. CASE opts.acb = "extract"
      BY <3>4, <3>6 DEF Dropped
    <3>7. CASE opts.acb = "decode"
      <4>1. p \in done
        <5>1. place = "in" => \A q \in Paths : q[1] = "in"
          BY <1>1 DEF StageInv, Staged, Placed
        <5> QED
          BY <1>2, <1>4, <3>1, <3>3, <3>7, <5>1, Found DEF StageInv, Typed, Untouched
      <4>2. CASE TrackExts = {}
        BY <3>4, <4>2, TrackExtsAre DEF Dropped
      <4>3. CASE TrackExts # {}
        <5>1. PICK e \in TrackExts : TRUE
          BY <4>3
        <5> DEFINE q == <<p[1], t, e>>
        <5>2. x \in files'[q]
          BY <2>2, <3>2, <3>7, <4>1
        <5>3. q \in TrackFiles(done)
          BY <3>7, <4>1, TrackFilesHave
        <5>4. q[3] = e
          OBVIOUS
        <5>5. e \in AudioExts /\ AudioExts' = AudioExts
          BY <1>1, TrackExtsAre, KeepSame DEF AudioExts
        <5> HIDE DEF q
        <5>6. q \in Paths'
          BY <2>1, <5>3
        <5> QED
          BY <5>2, <5>4, <5>5, <5>6 DEF Kept
      <4> QED
        BY <4>2, <4>3
    <3>8. opts.acb \in {"off", "keep", "extract", "decode"}
      BY DEF StageInv, Typed, OptionSet
    <3> QED
      BY <3>5, <3>6, <3>7, <3>8
  <2>11. KeptTracks'
    BY <1>1, <1>4, <2>10, KeepSame DEF KeptTracks
  <2> QED
    BY <2>4, <2>5, <2>6, <2>7, <2>9, <2>11 DEF Traced
<1>5. CASE pc' = "failed"
  BY <1>1, <1>5, <1>6, FileStep, NothingTraced
<1> QED
  BY <1>1, <1>2, <1>4, <1>5, <1>6, FileStep DEF FileInv

\* Handling WAV files overwrites nothing, and removes WAV files only.
LEMMA WavKeeps ==
    ASSUME Typed, NEW d \in {"in", "root"}, files' = WavAfter(WavsIn(d), {})
    PROVE  \A p \in Paths :
              p[3] # "wav" \/ ~opts.removeWav => p \in Paths' /\ files'[p] = files[p]
<1> DEFINE done == WavsIn(d)
<1>1. \E new : \E gone \in SUBSET done :
         /\ files' = After(new, gone)
         /\ DOMAIN new = {Target(w) : w \in Unconverted(done) \cup {}}
         /\ \A w \in Unconverted(done) \ {} : new[Target(w)] = files[w]
         /\ gone = IF opts.removeWav THEN done ELSE {}
  <2>1. done \in SUBSET WavsIn(d) /\ {} \in SUBSET WavsIn(d) /\ files' = WavAfter(done, {})
    OBVIOUS
  <2> HIDE DEF done
  <2> QED
    BY <2>1, WavAfterFiles
<1>2. PICK new : \E gone \in SUBSET WavsIn(d) :
         /\ files' = After(new, gone)
         /\ DOMAIN new = {Target(w) : w \in Unconverted(WavsIn(d)) \cup {}}
         /\ gone = IF opts.removeWav THEN WavsIn(d) ELSE {}
  BY <1>1
<1>3. PICK gone \in SUBSET WavsIn(d) :
         /\ files' = After(new, gone)
         /\ gone = IF opts.removeWav THEN WavsIn(d) ELSE {}
  BY <1>2
<1>4. /\ Paths' = (Paths \cup DOMAIN new) \ gone
      /\ \A p \in Paths' : files'[p] = IF p \in DOMAIN new THEN new[p] ELSE files[p]
  BY <1>3, AfterFiles
<1>5. \A p \in Paths : p \notin DOMAIN new
  BY <1>2 DEF Unconverted
<1>6. \A w \in WavsIn(d) : w[3] = "wav"
  BY DEF WavsIn, Find
<1> QED
  BY <1>3, <1>4, <1>5, <1>6

\* Every output it makes is made of a WAV file.
LEMMA WavInherits ==
    ASSUME Typed, NEW d \in {"in", "root"}, NEW done \in SUBSET WavsIn(d),
           NEW broken \in SUBSET WavsIn(d), files' = WavAfter(done, broken)
    PROVE  Inherits
<1> DEFINE outs == {Target(w) : w \in Unconverted(done) \cup broken}
           new  == [p \in outs |-> IF Ext(p, "wav") \in broken THEN {} ELSE files[Ext(p, "wav")]]
           gone == IF opts.removeWav THEN done ELSE {}
<1>1. files' = After(new, gone)
  BY DEF WavAfter
<1>2. ASSUME NEW p \in DOMAIN new, NEW x \in new[p] PROVE \E q \in Paths : x \in files[q]
  <2>1. PICK w \in Unconverted(done) \cup broken : p = Target(w)
    OBVIOUS
  <2>2. w \in Paths /\ w \in Path /\ w[3] = "wav"
    BY Found DEF WavsIn, Unconverted, Typed
  <2>3. Ext(p, "wav") = w
    BY <2>1, <2>2, TargetPath
  <2>4. x \in files[w]
    BY <2>3
  <2> QED
    BY <2>2, <2>4
<1> HIDE DEF new, gone
<1> QED
  BY <1>1, <1>2, AfterInherits

\* Nor does it write anything that is not whole.
LEMMA WavWhole ==
    ASSUME Typed, Whole, Keep, pc \in AfterExport, NEW d \in {"in", "root"},
           files' = WavAfter(WavsIn(d), {})
    PROVE  Whole'
<1>1. /\ Paths' = (Paths \cup {Target(w) : w \in Unconverted(WavsIn(d))})
                   \ (IF opts.removeWav THEN WavsIn(d) ELSE {})
      /\ \A w \in Unconverted(WavsIn(d)) : files'[Target(w)] = files[w]
  BY WavFiles
<1>2. Touches({"mp3", "flac"}, {"wav"})
  BY WavTouches
<1>3. \A w \in Unconverted(WavsIn(d)) : w \in Paths
  BY DEF Unconverted, WavsIn, Find
<1>4. ASSUME Fresh, NEW p \in Paths'
      PROVE  (p \in Paths /\ files'[p] = files[p]) \/ files'[p] # {}
  <2>1. CASE p \in Paths
    <3>1. p[3] # "wav" \/ ~opts.removeWav \/ files'[p] = files[p]
      BY <1>2 DEF Touches
    <3> QED
      BY <2>1, <3>1, WavKeeps
  <2>2. CASE p \notin Paths
    <3>1. PICK w \in Unconverted(WavsIn(d)) : p = Target(w)
      BY <1>1, <2>2
    <3> QED
      BY <1>1, <1>3, <1>4, <3>1 DEF Whole
  <2> QED
    BY <2>1, <2>2
<1> QED
  BY <1>4, WholeStep

\* What is kept of the audio stays kept.
LEMMA AudioStays ==
    ASSUME Typed, Keep, NEW d \in {"in", "root"}, files' = WavAfter(WavsIn(d), {}), NEW x, Kept(x, AudioExts)
    PROVE  Kept(x, AudioExts)'
<1>1. \A p \in Paths : p[3] \in AudioExts => p \in Paths' /\ files'[p] = files[p]
  <2>1. \A p \in Paths : p[3] \in AudioExts => p[3] # "wav" \/ ~opts.removeWav
    BY DEF AudioExts
  <2> QED
    BY <2>1, WavKeeps
<1>2. AudioExts' = AudioExts
  BY KeepSame
<1>3. PICK q \in Paths : q[3] \in AudioExts /\ x \in files[q]
  BY DEF Kept
<1> QED
  BY <1>1, <1>2, <1>3 DEF Kept

\* Every WAV file of the bundle is left, converted, dropped, or shadowed by a track's output.
LEMMA StandaloneFile == StageInv /\ FileInv /\ StandaloneWavs => FileInv'
<1> SUFFICES ASSUME StageInv, FileInv, StandaloneWavs PROVE FileInv'
  OBVIOUS
<1>1. pc = "wav" /\ Keep /\ pc' \in {"png", "failed"} /\ place \in {"in", "root"}
  BY StandaloneOutcome DEF StandaloneWavs, StageInv, Typed
<1>4. Inherits
  <2>1. PICK done, broken \in SUBSET WavsIn(place) : files' = WavAfter(done, broken)
    BY StandaloneOutcome
  <2> QED
    BY <1>1, <2>1, WavInherits DEF StageInv
<1>2. CASE pc' = "failed"
  BY <1>1, <1>2, <1>4, FileStep, NothingTraced
<1>3. CASE pc' = "png"
  <2> SUFFICES ASSUME Traced PROVE Traced'
    BY <1>1, <1>3, <1>4, FileStep DEF FileInv
  <2>1. files' = WavAfter(WavsIn(place), {})
    BY <1>3, StandaloneOutcome
  <2>2. Touches({"mp3", "flac"}, {"wav"})
    BY <1>1, <2>1, WavTouches DEF StageInv
  <2>3. Whole'
    BY <1>1, <2>1, WavWhole DEF Traced, StageInv
  <2>4. KeptVideo'
    BY <1>1, <1>3, <2>2, VideoStays DEF Traced
  <2>5. KeptRest' /\ KeptPngs'
    BY <1>1, <1>3, <2>2, RestStays DEF Traced, StageInv
  <2>6. KeptTracks'
    <3>1. ASSUME NEW x \in SourcesOf("acb") PROVE Kept(x, AudioExts)' \/ Dropped(x)
      <4>1. Kept(x, AudioExts) \/ Dropped(x)
        BY <1>1, <3>1 DEF Traced, KeptTracks
      <4> QED
        BY <1>1, <2>1, <4>1, AudioStays DEF StageInv
    <3> QED
      BY <1>1, <1>3, <3>1, KeepSame DEF KeptTracks
  <2>7. ASSUME NEW x \in SourcesOf("wav")
        PROVE  Kept(x, AudioExts)' \/ Dropped(x) \/ Shadowed(x) \/ Outdated(x)
    <3>1. PICK p \in Exported : p[3] = "wav" /\ x \in Sources(p)
      BY <2>7 DEF SourcesOf
    <3>2. x[2] = p[1] /\ x[3] = p[2] /\ x[4] = "wav"
      BY <3>1, SourcesAre DEF StageInv
    <3>3. Untouched(p) \/ Shadowed(x)
      BY <1>1, <3>1 DEF Traced, KeptWavs
    <3>4. AudioExts' = AudioExts
      BY <1>1, KeepSame
    <3>5. CASE Untouched(p) /\ ~opts.removeWav
      <4>1. p \in Paths' /\ files'[p] = files[p]
        BY <1>1, <2>1, <3>5, WavKeeps DEF StageInv, Untouched
      <4>2. "wav" \in AudioExts
        BY <3>5 DEF AudioExts
      <4> QED
        BY <3>1, <3>4, <3>5, <4>1, <4>2 DEF Kept, Untouched
    <3>6. CASE opts.removeWav /\ ~Converts
      BY <3>2, <3>6 DEF Dropped
    <3>7. CASE Untouched(p) /\ opts.removeWav /\ Converts
      <4>1. p \in Paths /\ p \in Path
        BY <3>7 DEF Untouched, StageInv, Typed
      <4>2. p \in WavsIn(place)
        <5>1. place = "in" => \A q \in Paths : q[1] = "in"
          BY <1>1 DEF StageInv, Staged, Placed
        <5> QED
          BY <1>1, <3>1, <3>7, <4>1, <5>1, Found DEF StageInv, WavsIn
      <4>3. Target(p)[1] = p[1] /\ Target(p)[2] = p[2] /\ Target(p)[3] \in {"mp3", "flac"}
        BY <3>1, <4>1, TargetPath
      <4>6. CASE ~Fresh
        BY <3>2, <3>7, <4>6 DEF Outdated, Fresh
      <4>4. CASE Target(p) \in Paths /\ Fresh
        <5>1. PICK a \in bundle : a[3] = "acb" /\ a[1] = p[1] /\ p[2] \in Tracks[a[2]]
          BY <1>1, <4>3, <4>4 DEF Traced, NoOutput
        <5> QED
          BY <3>2, <5>1 DEF Shadowed
      <4>5. CASE Target(p) \notin Paths
        <5>1. p \in Unconverted(WavsIn(place))
          BY <3>7, <4>2, <4>5 DEF Unconverted
        <5>2. Target(p) \in Paths' /\ files'[Target(p)] = files[p]
          BY <1>1, <2>1, <5>1, WavFiles DEF StageInv
        <5>3. Target(p)[3] \in AudioExts
          BY <4>3 DEF AudioExts
        <5> QED
          BY <3>1, <3>4, <3>7, <5>2, <5>3 DEF Kept, Untouched
      <4> QED
        BY <4>4, <4>5, <4>6
    <3> QED
      BY <3>3, <3>5, <3>6, <3>7
  <2>8. KeptWavs'
    BY <1>1, <1>3, <2>7, KeepSame DEF KeptWavs
  <2> QED
    BY <1>3, <2>3, <2>4, <2>5, <2>6, <2>8 DEF Traced, NoOutput
<1> QED
  BY <1>1, <1>2, <1>3

\* Audio that is kept is not lost to what writes no audio.
LEMMA AudioLeft ==
    ASSUME Keep, NEW made, NEW gone, Touches(made, gone), AudioExts \cap (made \cup gone) = {},
           NEW x, Kept(x, AudioExts)
    PROVE  Kept(x, AudioExts)'
<1>1. AudioExts' = AudioExts
  BY KeepSame
<1>2. \A p \in Paths : p[3] \in AudioExts => p \in Paths' /\ files'[p] = files[p]
  BY Leaves
<1>3. PICK q \in Paths : q[3] \in AudioExts /\ x \in files[q]
  BY DEF Kept
<1> QED
  BY <1>1, <1>2, <1>3 DEF Kept

\* Every image of the bundle is left or converted.
LEMMA PngsFile == StageInv /\ FileInv /\ Pngs => FileInv'
<1> SUFFICES ASSUME StageInv, FileInv, Pngs PROVE FileInv'
  OBVIOUS
<1>1. pc = "png" /\ Keep
  BY DEF Pngs, Step
<1>2. PICK done \in SUBSET Find(place, "png") : \E new :
         /\ files' = After(new, IF opts.removePNG THEN done ELSE {})
         /\ DOMAIN new = {Ext(q, "webp") : q \in done}
         /\ \A q \in done : new[Ext(q, "webp")] = files[q]
         /\ ~opts.webp => done = {}
         /\ \/ pc' = "final" /\ (opts.webp => done = Find(place, "png"))
            \/ pc' = "failed"
  BY PngsOutcome DEF StageInv
<1>3. Touches({"webp"}, {"png"})
  BY PngsTouches DEF StageInv
<1>6. Inherits
  <2>1. PICK new :
           /\ files' = After(new, IF opts.removePNG THEN done ELSE {})
           /\ DOMAIN new = {Ext(q, "webp") : q \in done}
           /\ \A q \in done : new[Ext(q, "webp")] = files[q]
    BY <1>2
  <2>2. \A q \in done : q \in Paths
    BY DEF Find
  <2> QED
    BY <2>1, <2>2, AfterInherits
<1>4. CASE pc' = "failed"
  BY <1>1, <1>4, <1>6, FileStep, NothingTraced
<1>5. CASE pc' = "final"
  <2> SUFFICES ASSUME Traced PROVE Traced'
    BY <1>1, <1>5, <1>6, FileStep DEF FileInv
  <2>1. PICK new :
           /\ files' = After(new, IF opts.removePNG THEN done ELSE {})
           /\ DOMAIN new = {Ext(q, "webp") : q \in done}
           /\ \A q \in done : new[Ext(q, "webp")] = files[q]
    BY <1>2
  <2>2. /\ Paths' = (Paths \cup DOMAIN new) \ (IF opts.removePNG THEN done ELSE {})
        /\ \A p \in Paths' : files'[p] = IF p \in DOMAIN new THEN new[p] ELSE files[p]
    BY <2>1, AfterFiles
  <2>3. \A q \in done : q \in Path /\ q \in Paths /\ q[3] = "png"
    BY Found DEF StageInv, Typed
  <2>4. \A q \in done : Ext(q, "webp")[3] = "webp" /\ Ext(q, "webp") \in Paths'
                        /\ files'[Ext(q, "webp")] = files[q]
    <3> SUFFICES ASSUME NEW q \in done
                 PROVE  Ext(q, "webp")[3] = "webp" /\ Ext(q, "webp") \in Paths'
                        /\ files'[Ext(q, "webp")] = files[q]
      OBVIOUS
    <3>1. "webp" \in Exts /\ q \in Path
      BY <2>3, GivenNames
    <3>2. Ext(q, "webp")[3] = "webp"
      BY <3>1, ExtPath
    <3>3. Ext(q, "webp") \notin done /\ Ext(q, "webp") \in DOMAIN new
      BY <2>1, <2>3, <3>2
    <3> QED
      BY <2>1, <2>2, <3>2, <3>3
  <2>5. Whole'
    <3>1. ASSUME Fresh, NEW p \in Paths'
          PROVE  (p \in Paths /\ files'[p] = files[p]) \/ files'[p] # {}
      <4>1. CASE p \in DOMAIN new
        <5>1. PICK q \in done : p = Ext(q, "webp")
          BY <2>1, <4>1
        <5>2. files'[p] = files[q] /\ q \in Paths
          BY <2>3, <2>4, <5>1
        <5> QED
          BY <1>1, <3>1, <5>2 DEF Traced, Whole
      <4>2. CASE p \notin DOMAIN new
        BY <2>2, <4>2
      <4> QED
        BY <4>1, <4>2
    <3> QED
      BY <1>1, <3>1, WholeStep DEF Traced
  <2>6. KeptVideo'
    BY <1>1, <1>3, <1>5, VideoStays DEF Traced
  <2>7. KeptRest'
    BY <1>1, <1>3, <1>5, RestStays DEF Traced, StageInv
  <2>8. AudioExts \cap ({"webp"} \cup {"png"}) = {}
    BY DEF AudioExts
  <2>9. \A x : Kept(x, AudioExts) => Kept(x, AudioExts)'
    BY <1>1, <1>3, <2>8, AudioLeft
  <2>10. KeptTracks' /\ KeptWavs'
    BY <1>1, <1>5, <2>9, KeepSame DEF Traced, KeptTracks, KeptWavs
  <2>11. ASSUME NEW x \in SourcesOf("png") PROVE Kept(x, {"png", "webp"})'
    <3>1. PICK p \in Exported : p[3] = "png" /\ x \in Sources(p)
      BY <2>11 DEF SourcesOf
    <3>2. Untouched(p)
      BY <1>1, <3>1 DEF Traced, KeptPngs
    <3>3. CASE p \in done
      BY <2>4, <3>1, <3>2, <3>3 DEF Kept, Untouched
    <3>4. CASE p \notin done
      <4>1. p \in Paths' /\ files'[p] = files[p]
        BY <1>3, <2>2, <3>1, <3>2, <3>4 DEF Untouched, Touches
      <4> QED
        BY <3>1, <3>2, <4>1 DEF Kept, Untouched
    <3> QED
      BY <3>3, <3>4
  <2>12. KeptPngs'
    BY <1>1, <1>5, <2>11, KeepSame DEF KeptPngs
  <2> QED
    BY <1>5, <2>5, <2>6, <2>7, <2>10, <2>12 DEF Traced, NoOutput
<1> QED
  BY <1>1, <1>2, <1>4, <1>5, FileStep

\* The last look at WAV files loses nothing.
LEMMA FinalizeFile == StageInv /\ FileInv /\ Finalize => FileInv'
<1> SUFFICES ASSUME StageInv, FileInv, Finalize PROVE FileInv'
  OBVIOUS
<1>1. pc = "final" /\ Keep /\ pc' = "manifest" /\ files' = WavAfter(WavsIn("root"), {})
  BY DEF Finalize, Step
<1>2. Touches({"mp3", "flac"}, {"wav"})
  BY <1>1, WavTouches DEF StageInv
<1>4. Inherits
  BY <1>1, WavInherits DEF StageInv
<1>3. ASSUME Traced PROVE Traced'
  <2>1. Whole'
    BY <1>1, <1>3, WavWhole DEF Traced, StageInv
  <2>2. KeptVideo'
    BY <1>1, <1>2, <1>3, VideoStays DEF Traced
  <2>3. KeptRest' /\ KeptPngs'
    BY <1>1, <1>2, <1>3, RestStays DEF Traced, StageInv
  <2>4. \A x : Kept(x, AudioExts) => Kept(x, AudioExts)'
    BY <1>1, AudioStays DEF StageInv
  <2>5. KeptTracks' /\ KeptWavs'
    BY <1>1, <1>3, <2>4, KeepSame DEF Traced, KeptTracks, KeptWavs
  <2> QED
    BY <1>1, <2>1, <2>2, <2>3, <2>5 DEF Traced, NoOutput
<1> QED
  BY <1>1, <1>3, <1>4, FileStep DEF FileInv

\* Every step keeps the trace of every source.
LEMMA FileInvStep == StageInv /\ FileInv /\ [Next]_vars => FileInv'
  BY QuietFile, ExportFile, MergeFile, ExportUsmFile, ExportAcbFile, StandaloneFile, PngsFile,
     FinalizeFile DEF Next, Over

\* A task starts with nothing to trace.
LEMMA FileInit == Init => FileInv
  BY DEF Init, FileInv, NoFiles, Tags, Traced, Whole, KeptVideo, KeptTracks, NoOutput, KeptWavs, KeptPngs, KeptRest

\* What a file holds is packed: no other entry has its name.
LEMMA KeptIsPacked ==
    ASSUME StageInv, pc = "packed", NEW exts, NEW x, Kept(x, exts)
    PROVE  Packed(x)
<1>1. PICK q \in Paths : x \in files[q]
  BY DEF Kept
<1>2. ~Duplicate
  BY DEF StageInv, Staged, Unique
<1> DEFINE e == <<Sanitized(q), files[q]>>
<1>3. e \in Entries
  BY DEF Entries
<1>4. ASSUME NEW g \in Entries, g[1] = e[1] PROVE g = e
  <2>1. PICK r \in Paths : g = <<Sanitized(r), files[r]>>
    BY DEF Entries
  <2>2. Sanitized(r) = Sanitized(q)
    BY <1>4, <2>1
  <2>3. r = q
    BY <1>2, <2>2 DEF Duplicate
  <2> QED
    BY <2>1, <2>3
<1>5. x \in e[2]
  BY <1>1
<1> HIDE DEF e
<1> QED
  BY <1>3, <1>4, <1>5 DEF Packed

\* The trace ends in the archive.
LEMMA TracedIsPacked ==
    ASSUME StageInv, FileInv, pc = "packed", NEW p \in Exported, NEW x \in Sources(p)
    PROVE  Packed(x) \/ Dropped(x) \/ Shadowed(x) \/ Outdated(x)
<1>1. CASE p[3] \in {"usm", "acb", "wav", "png"}
  <2>1. x \in SourcesOf(p[3])
    BY DEF SourcesOf
  <2>2. \/ \E exts : Kept(x, exts)
        \/ Dropped(x) \/ Shadowed(x) \/ Outdated(x)
    BY <1>1, <2>1 DEF FileInv, Traced, KeptVideo, KeptTracks, KeptWavs, KeptPngs
  <2> QED
    BY <2>2, KeptIsPacked
<1>2. CASE p[3] \notin {"usm", "acb", "wav", "png"}
  <2>1. Untouched(p)
    BY <1>2 DEF FileInv, Traced, KeptRest
  <2>2. Kept(x, {p[3]})
    BY <2>1 DEF Untouched, Kept
  <2> QED
    BY <2>2, KeptIsPacked
<1> QED
  BY <1>1, <1>2

\* The stages' promises and the trace hold together, after every step of every delivery.
THEOREM FilesHold == Spec => []IInv
<1>1. Init => IInv
  BY StageInit, FileInit DEF IInv
<1>2. IInv /\ [Next]_vars => IInv'
  BY StageStep, FileInvStep DEF IInv
<1> QED
  BY <1>1, <1>2, PTL DEF Spec

\* Whatever is configured, fails or is killed, and whatever earlier deliveries left: nothing
\* that AssetStudio wrote is lost between the export and the archive, unless the options
\* drop it, another file has its name, or an earlier output is taken for a WAV file's.
THEOREM DataAreKept == Spec => []DataKept
<1>1. IInv => DataKept
  BY TracedIsPacked DEF IInv, DataKept
<1> QED
  BY <1>1, FilesHold, PTL

\* Whatever is configured, an archive holds only what its own delivery exported, or one
\* whose files were left; and only whole files, where none were.
THEOREM ResultsAreOwn == Spec => []ResultIsOwn
<1>1. IInv => ResultIsOwn
  BY DEF IInv, FileInv, Tags, Whose, Traced, Whole, Fresh, ResultIsOwn
<1> QED
  BY <1>1, FilesHold, PTL

\* The archive holds whole files of its own delivery, and every source that the options do
\* not drop and no other file has the name of.
Complete ==
    /\ \A p \in Paths : files[p] # {} /\ \A x \in files[p] : x[1] = delivery
    /\ \A p \in Exported : \A x \in Sources(p) : Packed(x) \/ Dropped(x) \/ Shadowed(x)

\* The first delivery of a task that is packed is complete, whatever is configured; and so
\* is every one after whose predecessors the directory was removed.
THEOREM FreshIsComplete == Spec => [](pc = "packed" /\ (delivery = 1 \/ left = {}) => Complete)
<1>1. ASSUME IInv, pc = "packed", delivery = 1 \/ left = {} PROVE Complete
  <2>1. left = {}
    BY <1>1 DEF IInv, StageInv, Typed
  <2>2. \A x : ~Outdated(x)
    BY <2>1 DEF Outdated
  <2>3. DataKept /\ ResultIsOwn
    BY <1>1, TracedIsPacked
    DEF IInv, DataKept, FileInv, Tags, Whose, Traced, Whole, Fresh, ResultIsOwn
  <2> QED
    BY <1>1, <2>1, <2>2, <2>3 DEF DataKept, ResultIsOwn, Complete
<1> QED
  BY <1>1, FilesHold, PTL
=============================================================================
