------------------------------ MODULE UsmFormat ------------------------------
(***************************************************************************)
(* A USM container of internal/cricodecs/usm: the walk over its sections    *)
(* by ReadMetadata and by ExtractUSM, which the client runs one after the   *)
(* other, and the copy of the video stream.  A file is a sequence of cells, *)
(* one per byte; the first cell of a field holds the field whole.           *)
(***************************************************************************)
EXTENDS Integers, Sequences

\* A cell is <<kind, value>>: the start of a signature, of a number or of what a
\* content starts with, or a byte.  A read past the end of the file yields zeros.
Cell(file, p) == IF p + 1 \in DOMAIN file THEN file[p + 1] ELSE <<"byte", 0>>
Kind(file, p, kind, other) == IF Cell(file, p)[1] = kind THEN Cell(file, p)[2] ELSE other

\* A chunk at p: its signature, where the next one starts, and what starts its
\* content: a UTF table, one that cannot be read, an end marker, or anything.
Sig(file, p)   == Kind(file, p, "sig", "none")
Field(file, p) == Kind(file, p, "num", 0)
NextChunk(file, p) == p + 8 + Field(file, p + 4)
Mark(file, p)  == Kind(file, p + 32, "mark", "none")

\* What the walks tell apart: any other content starts with none of these marks.
Signatures == {"CRID", "@SFV", "@SFA", "other"}
Marks      == {"table", "broken", "#HEADER END", "#METADATA END", "#CONTENTS END"}

IsTable(m) == m \in {"table", "broken"}

\* The sections that both walks take for granted: the video header, the audio
\* header that may follow, the end markers of each, the video metadata and its end.
Sections(file) ==
    LET video == NextChunk(file, 0)
        audio == NextChunk(file, video)
        has   == Sig(file, audio) = "@SFA"
        vEnd  == IF has THEN NextChunk(file, audio) ELSE audio
        aEnd  == NextChunk(file, vEnd)
        meta  == IF has THEN NextChunk(file, aEnd) ELSE aEnd
    IN  [video |-> video, audio |-> audio, hasAudio |-> has, vEnd |-> vEnd, aEnd |-> aEnd,
         meta |-> meta, metaEnd |-> NextChunk(file, meta)]

\* parseUSMHeaderChunks and readMetadataSections: the signatures and end markers.
SectionsTaken(file) ==
    LET s == Sections(file) IN
    /\ Sig(file, 0) = "CRID"
    /\ \A p \in {s.video, s.vEnd, s.meta, s.metaEnd} : Sig(file, p) = "@SFV"
    /\ Mark(file, s.vEnd) = "#HEADER END"
    /\ s.hasAudio => Sig(file, s.aEnd) = "@SFA" /\ Mark(file, s.aEnd) = "#HEADER END"
    /\ Mark(file, s.metaEnd) = "#METADATA END"

\* skipMetadataSection and readMetadataEndSection: past the marker of 13 bytes, to a
\* multiple of 4 and 16 bytes on.
AfterMarker(p) == LET q == p + 45 IN q + ((4 - (q % 4)) % 4) + 16

\* ReadMetadata: where the stream starts, -1 when it fails.
ReadMetadata(file) ==
    LET s == Sections(file) IN
    IF /\ SectionsTaken(file)
       /\ \A p \in {0, s.video, s.meta} : Mark(file, p) = "table"
       /\ s.hasAudio => Mark(file, s.audio) = "table"
    THEN AfterMarker(s.metaEnd) ELSE -1

\* parseUSMHeader: of all the tables only the first must be one, and not be read.
parseUSMHeader(file) ==
    IF SectionsTaken(file) /\ IsTable(Mark(file, 0))
    THEN AfterMarker(Sections(file).metaEnd) ELSE -1

-----------------------------------------------------------------------------
(* extractUSMChunks.                                                        *)

\* Mutant: the padding is copied too.
WithFooter(file, p) == Field(file, p + 4) - Field(file, p + 8)

ContentLength(file, p) == Field(file, p + 4) - Field(file, p + 8) - Field(file, p + 10)

\* processChunk writes what follows the fixed header of 32 bytes; without a key
\* nothing is masked, and without audioFile the audio is left out.
processChunk(file, p) ==
    IF Sig(file, p) # "@SFV" THEN << >>
    ELSE [i \in 1..ContentLength(file, p) |-> Cell(file, p + 32 + i - 1)]

\* One turn of the copy.  It ends at the end of the file, at the end marker of any
\* stream, or in make with a negative length, a panic.
CopyChunk(file, s) ==
    IF s.how # "run" THEN s
    ELSE IF s.at + 4 > Len(file) THEN [s EXCEPT !.how = "eof"]
    ELSE IF Mark(file, s.at) = "#CONTENTS END" THEN [s EXCEPT !.how = "end"]
    ELSE IF Sig(file, s.at) = "@SFV" /\ ContentLength(file, s.at) < 0
         THEN [s EXCEPT !.how = "panic"]
    ELSE [at |-> NextChunk(file, s.at), how |-> "run",
          video |-> s.video \o processChunk(file, s.at)]

\* The video and how the copy ended, after more turns than a file has chunks.
extractUSMChunks(file, start) ==
    LET turns == Len(file) \div 8 + 2
        fold[k \in 0..turns] ==
            IF k = 0 THEN [at |-> start, video |-> << >>, how |-> "run"]
            ELSE CopyChunk(file, fold[k - 1])
    IN  fold[turns]

\* ExtractUSM: "error" of the header, or how the copy ended.
ExtractUSM(file) ==
    IF parseUSMHeader(file) = -1 THEN [video |-> << >>, how |-> "error", at |-> 0]
    ELSE extractUSMChunks(file, parseUSMHeader(file))
=============================================================================
