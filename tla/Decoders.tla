------------------------------- MODULE Decoders -------------------------------
(***************************************************************************)
(* The decoders of internal/cricodecs and internal/unpack/obfuscator.go, and *)
(* the framing of internal/tcpclient: one file, or stream, per behaviour.   *)
(* A track runs the loop of HcaStream; every other kind of file is decoded  *)
(* in one step, whose outcome the properties compare with the content the   *)
(* file was laid out from.                                                  *)
(***************************************************************************)
EXTENDS HcaStream, UtfFormat, UsmFormat, AcbFormat, Deobfuscator, Frames

CONSTANT Jobs   \* the files: records with a kind, and what is in them

\* A bundle is of bytes, and one that is not obfuscated does not look as if it were.
ASSUME JobsAssumption ==
    \A j \in {k \in Jobs : k.kind = "bundle"} :
        /\ j.bundle \in Seq(0..255)
        /\ j.type \notin {"plain", "flipped"} /\ Len(j.bundle) >= 4 =>
               SubSeq(j.bundle, 1, 4) \notin {Plain, Flipped}

\* A message has a type, so its text is more than a pair of braces; a write puts out the
\* bytes it was given, or fewer.
ASSUME SendsAssumption ==
    \A j \in {k \in Jobs : k.kind = "stream"} :
        /\ j.sends \in Seq([id : 9..122, size : Nat \ 0..2, out : Nat])
        /\ \A i \in DOMAIN j.sends : j.sends[i].out <= FrameSize(j.sends[i])

\* A chunk of a USM file has a header with its fields, and a content.
Contents == ({"byte"} \X Nat) \cup ({"mark"} \X Marks)
ChunkOf  == {c \in [sig : Signatures, header : Nat, footer : Nat, pad : Nat, content : Seq(Contents)] :
                c.header >= 3 /\ c.content # << >>}
ASSUME UsmAssumption ==
    \A j \in {k \in Jobs : k.kind = "usm"} :
        /\ j.u.audio \in BOOLEAN /\ j.u.table \in Marks /\ j.u.cut \in Nat
        /\ j.u.chunks \in Seq(ChunkOf)

\* The code reads up to 16 bits anywhere, and up to 32 at the beginning of a byte.
ASSUME ReadsAssumption ==
    \A j \in {k \in Jobs : k.kind = "bits"} :
        j.data \in Seq(0..255) /\ j.bit \in Nat /\ j.n \in Nat /\ (j.bit % 8) + j.n <= 32

VARIABLES job, done, out

vars == <<job, done, out, hcaVars>>

Init ==
    /\ job \in Jobs /\ done = FALSE /\ out = << >>
    /\ IF job.kind = "track" THEN HcaInit
       ELSE /\ hdr = << >> /\ body = << >> /\ status = "none"
            /\ block = 0 /\ delay = 0 /\ written = 0

Answer(kind, result) ==
    /\ job.kind = kind /\ ~done
    /\ done' = TRUE /\ out' = result
    /\ UNCHANGED <<job, hcaVars>>

-----------------------------------------------------------------------------
(* Layouts: the bytes or cells of a file with the content of a job.         *)

\* Where part k starts of parts put one behind the other.
Place(parts, k) == Len(FlattenSeq(SubSeq(parts, 1, k - 1)))

\* A table has columns, strings, in some order, of which one is its title, and data.  A
\* column c says which string is its name, and for every row, or for all, its value: a
\* number, or, of strings and data, which one of the table's.
Terminated(t) == [k \in DOMAIN t.strings |-> t.strings[k] \o <<0>>]

Value(t, c, r) ==
    LET v == c.vals[IF c.flag = 80 THEN r ELSE 1]
    IN  CASE c.typ = 10 -> t.strings[v] [] c.typ = 11 -> t.blobs[v] [] OTHER -> v

Encoded(t, typ, v) ==
    CASE typ = 10 -> Spelling(Place(Terminated(t), v), 4)
      [] typ = 11 -> Spelling(Place(t.blobs, v), 4) \o Spelling(Len(t.blobs[v]), 4)
      [] OTHER -> Spelling(v, columnValueSize(typ))

SchemaOf(t, c) ==
    <<c.flag + c.typ>> \o Spelling(Place(Terminated(t), c.name), 4)
    \o (IF c.flag \in {48, 112} THEN Encoded(t, c.typ, c.vals[1]) ELSE << >>)
FieldOf(t, c, r) == IF c.flag = 80 THEN Encoded(t, c.typ, c.vals[r]) ELSE << >>

Schema(t) == FlattenSeq([i \in DOMAIN t.cols |-> SchemaOf(t, t.cols[i])])
Row(t, r) == FlattenSeq([i \in DOMAIN t.cols |-> FieldOf(t, t.cols[i], r)])

\* A UTF table with those columns, as CRI's tools lay it out.
TableParts(t) ==
    LET schema  == Schema(t)
        rows    == FlattenSeq([r \in 1..t.rows |-> Row(t, r)])
        strings == FlattenSeq(Terminated(t))
        blobs   == FlattenSeq(t.blobs)
        rowAt   == 24 + Len(schema)
        stringsAt == rowAt + Len(rows)
        blobsAt   == stringsAt + Len(strings)
    IN  <<UtfMagic, Spelling(blobsAt + Len(blobs), 4), <<0, 1>>, Spelling(rowAt, 2),
          Spelling(stringsAt, 4), Spelling(blobsAt, 4), Spelling(Place(Terminated(t), t.title), 4),
          Spelling(Len(t.cols), 2), Spelling(Len(Row(t, 1)), 2), Spelling(t.rows, 4),
          schema, rows, strings, blobs>>
TableFile(t) == FlattenSeq(TableParts(t))

\* Values and sizes fit where they are put, the file is below 4 GiB, its schema as short
\* as the code wants it, and no two columns with values have one name.
Fits(n, k) == Shifted(n, k - 1) \in 0..255
Held(t, typ, v) ==
    CASE typ = 10 -> v \in DOMAIN t.strings [] typ = 11 -> v \in DOMAIN t.blobs
      [] typ \in {1, 3, 5} -> Shifted(v, columnValueSize(typ) - 1) \in -128..127
      [] OTHER -> Fits(v, columnValueSize(typ))
TableColumns == [flag : {16, 48, 80, 112}, typ : 0..6 \cup {8, 10, 11}, name : Nat, vals : Seq(Int)]
TableFits(t) ==
    /\ t.cols # << >> /\ t.title \in DOMAIN t.strings
    /\ \A i \in DOMAIN t.cols :
          /\ t.cols[i].name \in DOMAIN t.strings
          /\ t.cols[i].vals # << >> /\ t.rows <= Len(t.cols[i].vals)
          /\ \A r \in DOMAIN t.cols[i].vals : Held(t, t.cols[i].typ, t.cols[i].vals[r])
    /\ \A i, k \in {j \in DOMAIN t.cols : t.cols[j].flag # 16} :
          t.strings[t.cols[i].name] = t.strings[t.cols[k].name] => i = k
    /\ Len(Schema(t)) < utfMaxSchemaSize /\ Fits(Len(TableFile(t)), 4)
    /\ Fits(Len(t.cols), 2) /\ Fits(Len(Row(t, 1)), 2) /\ Fits(t.rows, 4)
Tables ==
    {t \in [cols : Seq(TableColumns), rows : Nat, title : Nat,
            strings : Seq(Seq(1..255)), blobs : Seq(Seq(0..255))] : TableFits(t)}
ASSUME TablesAssumption == \A j \in {k \in Jobs : k.kind = "table"} : j.t \in Tables

\* A chunk of a USM file: c.content cells after 8 bytes not counted in its size and a
\* header of c.header bytes, then c.pad of padding, of which c.footer says how many.
Fill(n) == [i \in 1..n |-> <<"byte", 0>>]
ChunkCells(c) ==
    <<<<"sig", c.sig>>>> \o Fill(3)
    \o <<<<"num", c.header + Len(c.content) + c.pad>>>> \o Fill(3)
    \o <<<<"num", c.header>>>> \o Fill(1) \o <<<<"num", c.footer>>>>
    \o Fill(c.header - 3) \o c.content \o Fill(c.pad)
Marked(sig, mark) ==
    [sig |-> sig, header |-> 24, footer |-> 0, pad |-> 0,
     content |-> <<<<"mark", mark>>>> \o Fill(31)]

\* The file: its head, with an audio stream or without, and the chunks of its stream,
\* without the last u.cut bytes.
UsmHead(u) ==
    LET audio(m) == IF u.audio THEN <<Marked("@SFA", m)>> ELSE << >> IN
    <<Marked("CRID", "table"), Marked("@SFV", u.table)>> \o audio("table")
    \o <<Marked("@SFV", "#HEADER END")>> \o audio("#HEADER END")
    \o <<Marked("@SFV", u.table), Marked("@SFV", "#METADATA END")>>
UsmFile(u) ==
    LET cells(chunks) == FlattenSeq([k \in DOMAIN chunks |-> ChunkCells(chunks[k])])
        all == cells(UsmHead(u)) \o cells(u.chunks)
    IN  SubSeq(all, 1, Len(all) - u.cut)

\* An archive of those ids and sizes; each file starts at the next multiple of the
\* alignment, and its stored offset is where the one before ended.
Starts(a) ==
    LET at[k \in 1..Len(a.sizes) + 1] ==
            IF k = 1 THEN align(a.alignment, a.head)
            ELSE align(a.alignment, at[k - 1] + a.sizes[k - 1])
    IN  at
Archive(a) ==
    [there |-> a.there, file |-> a.file, alignment |-> a.alignment, ids |-> a.ids,
     offsets |-> [k \in 1..Len(a.sizes) + 1 |->
                     IF k = 1 THEN a.head ELSE Starts(a)[k - 1] + a.sizes[k - 1]],
     length |-> Starts(a)[Len(a.sizes)] + a.sizes[Len(a.sizes)]]
AcbOf(b) == [b EXCEPT !.embedded = Archive(@),
                      !.external = [k \in DOMAIN @ |-> Archive(@[k])]]

\* An archive is below 4 GiB, where its offsets end, and no two of its files have one id.
Archives ==
    {a \in [there : BOOLEAN, file : STRING, head : Nat, ids : Seq(Nat), sizes : Seq(Nat),
            alignment : Nat \ {0}] :
        /\ Len(a.ids) = Len(a.sizes)
        /\ a.sizes # << >> => Archive(a).length \div 65536 < 65536
        /\ \A i, k \in DOMAIN a.ids : a.ids[i] = a.ids[k] => i = k}
Commands == [op : {"play"}, synth : Nat] \cup [op : {"end", "cut", "other"}]
AcbFiles ==
    [cues : Seq([type : Nat, ref : Nat]), names : Seq([cue : Nat, name : STRING \X Seq(Nat)]),
     seqs : Seq([num : Nat, rows : Seq(Nat)]), tracks : Seq(Nat), events : Seq(Seq(Commands)),
     synths : Seq([type : Nat, wave : Nat]),
     waves : Seq([stream : BOOLEAN, id : Nat, port : Nat, enc : Nat]),
     embedded : Archives, external : Seq(Archives)]
ASSUME TracksAssumption == \A j \in {k \in Jobs : k.kind = "acb"} : j.acb \in AcbFiles

ObfuscatedFile(b) ==
    CASE b.type = "plain"   -> Plain \o b.bundle
      [] b.type = "flipped" -> Flipped \o (IF Len(b.bundle) >= HeaderSize THEN Flip(b.bundle) ELSE b.bundle)
      [] OTHER -> b.bundle

-----------------------------------------------------------------------------
(* The steps.                                                               *)

ReadTable   == Answer("table", NewUTFTable(TableFile(job.t)))
PeekBits    == Answer("bits", bitreaderPeek(job.data, job.bit, job.n))
DecodeFrame == Answer("header", [taken |-> Accepted(job.h), panics |-> BlockPanics(job.h)])
ExtractVideo ==
    Answer("usm", [meta |-> ReadMetadata(UsmFile(job.u)), usm |-> ExtractUSM(UsmFile(job.u))])
ExtractTracks == Answer("acb", ExtractACB(AcbOf(job.acb)))
Deobfuscate   == Answer("bundle", DeobfuscateToWriter(ObfuscatedFile(job)))
ReadStream    == Answer("stream", Received(Stream(job.sends)))
DecodeTrack   == job.kind = "track" /\ HcaNext /\ UNCHANGED <<job, done, out>>

Next == \/ ReadTable \/ PeekBits \/ DecodeFrame
        \/ ExtractVideo \/ ExtractTracks \/ Deobfuscate \/ ReadStream \/ DecodeTrack

Spec == Init /\ [][Next]_vars

-----------------------------------------------------------------------------
(* Properties.                                                              *)

Decoded(kind) == done /\ job.kind = kind

\* A table comes out of NewUTFTable as it was laid out: a value per row, or one for
\* all rows, or, without either flag, no such column; a column that takes no room in
\* the row or in the schema does not move the ones behind it (parseSchema, readRows).
TablesAreRead ==
    Decoded("table") =>
        LET cols    == job.t.cols
            kept    == {i \in DOMAIN cols : cols[i].flag # 16}
            name(i) == job.t.strings[cols[i].name]
        IN  /\ Len(out) = job.t.rows
            /\ \A r \in 1..job.t.rows :
                   /\ DOMAIN out[r] = {name(i) : i \in kept}
                   /\ \A i \in kept : out[r][name(i)] = Value(job.t, cols[i], r)

\* The two readers agree on the last row's file name, as ExtractUSM and ReadMetadata
\* of one file must (getUTFTable, NewUTFTable).
FilenameAgrees ==
    Decoded("table") =>
        LET cols == job.t.cols IN
        \A i \in DOMAIN cols :
            job.t.rows > 0 /\ cols[i].typ = 10 /\ (\A k \in DOMAIN cols : cols[k].flag # 16) =>
            LET name == job.t.strings[cols[i].name]
            IN  extractFilename(TableFile(job.t), name) = out[job.t.rows][name]

\* A read that leaves the checksum, the last 16 bits of a frame, alone yields the bits
\* in their order, and one past the end yields 0 (bitreaderPeek, where the number of
\* bytes loaded depends on how many are left).
BitsAreRead ==
    Decoded("bits") =>
        LET bitAt(k) == (ByteAt(job.data, k \div 8) \div 2 ^ (7 - (k % 8))) % 2
            v[j \in 0..job.n] == IF j = 0 THEN 0 ELSE v[j - 1] * 2 + bitAt(job.bit + j - 1)
        IN  /\ job.bit + job.n + 16 <= 8 * Len(job.data) => out = v[job.n]
            /\ job.bit + job.n > 8 * Len(job.data) => out = 0

\* What the code leaves unchecked of the bands: that they add up, that there are as
\* many low bands as the high ones are made from, for which after version 2.0 half the
\* groups go down, and that the groups' scale factors fit behind those of the bands.
BandsAddUp(h) ==
    /\ Coded(h) <= Total(h)
    /\ PerGroup(h) > 0 =>
          /\ Coded(h) > 0
          /\ \/ Filled(h) <= Coded(h)
             \/ h.version > V200 /\ (hfrGroupCount(h) \div 2) * PerGroup(h) < Coded(h)
    /\ hfrGroupCount(h) + Coded(h) < 128 \/ hfrGroupCount(h) = 0

\* A header that DecodeHeader takes and whose bands add up never leads DecodeBlock
\* outside its arrays of 128 (unpackScaleFactors, unpackIntensity,
\* reconstructHighFrequency, applyIntensityStereo).
AcceptedInBounds ==
    Decoded("header") /\ out.taken /\ BandsAddUp(job.h) => ~out.panics

\* A file that the metadata reader takes is extracted too; and of a file that is not
\* cut short, with chunks of the usual header and their first end marker, of whatever
\* stream, after the video, every byte of video is copied once, in order and without
\* padding (parseUSMHeader, readMetadataSections, extractUSMChunks).
VideoIsWhole ==
    Decoded("usm") =>
        LET chunks   == job.u.chunks
            video(k) == chunks[k].sig = "@SFV"
            ends     == {k \in DOMAIN chunks : chunks[k].content[1] = <<"mark", "#CONTENTS END">>}
            usual    == /\ job.u.cut = 0
                        /\ \A k \in DOMAIN chunks :
                               chunks[k].header = 24 /\ chunks[k].footer = chunks[k].pad
                        /\ \A k \in ends, m \in DOMAIN chunks : video(m) => m <= k
            content  == FlattenSeq([k \in DOMAIN chunks |->
                            IF video(k) /\ k \notin ends THEN chunks[k].content ELSE << >>])
        IN  /\ out.meta # -1 => out.usm.how # "error"
            /\ out.usm.how # "error" /\ usual => out.usm.video = content

\* What a wave's data is, if an archive has it.
Original(b, wave) ==
    LET archives == IF wave.stream THEN {b.external[k] : k \in DOMAIN b.external \cap {wave.port + 1}}
                    ELSE {b.embedded}
    IN  UNION {{<<a.file, <<Starts(a)[i], a.sizes[i]>>>> :
                   i \in {k \in DOMAIN a.ids : a.ids[k] = wave.id}} : a \in archives}

\* Two tracks get one name: their cues' names and the waves' ids are the same, or one
\* cue is called what a track of the other is.
NamesClash(b, p, q) ==
    LET n(x) == CueName(b, x.ref) IN
    \/ n(p) = n(q) /\ p.wave.id = q.wave.id
    \/ n(p) = Numbered(n(q), q.wave.id) \/ n(q) = Numbered(n(p), p.wave.id)

\* Every wave that a cue plays is in a file of its own in the end, if its archive has
\* it, unless another track's name and wave id are the same; provided every external
\* archive is there (generateUniqueName, NewAFSArchive, getTrackData).
TracksKept ==
    Decoded("acb") /\ out.how = "ok" /\ (\A k \in DOMAIN job.acb.external : job.acb.external[k].there) =>
        \A k \in DOMAIN Plays(job.acb) :
            LET play == Plays(job.acb)[k] IN
            job.acb.embedded.there \/ play.wave.stream =>
            \A d \in Original(job.acb, play.wave) :
                \/ \E f \in out.files : f[2] = d
                \/ \E m \in DOMAIN Plays(job.acb) : m # k /\ NamesClash(job.acb, play, Plays(job.acb)[m])

\* A bundle comes out of its obfuscated file as it was, however short it is
\* (DeobfuscateToWriter, which reads the header in pieces).
BundleRestored == Decoded("bundle") => out = job.bundle

\* A peer that reads as this client does gets every message that was wholly
\* written, in order, up to the first write that failed after some of its bytes; and of
\* what others wrote after that, before the connection was closed, it takes nothing for a
\* message, wherever the frame was cut.  A message too long to send disturbs nothing
\* (WriteMessage, ReadMessage); TcpWorker's "torn" rests on it.
StreamIsPrefix ==
    Decoded("stream") =>
        LET sends    == job.sends
            cut(s)   == Writes(s.size) /\ s.out \in 1..FrameSize(s) - 1
            good(s)  == Writes(s.size) /\ s.out = FrameSize(s)
            whole    == {k \in DOMAIN sends : good(sends[k]) /\ \A j \in 1..k - 1 : ~cut(sends[j])}
            place(k) == Cardinality({j \in whole : j <= k})
        IN  /\ Len(out) = Cardinality(whole)
            /\ \A k \in whole : out[place(k)] = Text(sends[k])
=============================================================================
