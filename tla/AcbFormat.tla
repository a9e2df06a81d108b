------------------------------ MODULE AcbFormat ------------------------------
(***************************************************************************)
(* ExtractACBFromFile of internal/cricodecs/acb: the tracks an ACB file's   *)
(* tables lead to, their names, the AFS2 archives their data is in, and the *)
(* files written.  The tables are sequences of rows, a row a record of the  *)
(* fields read; an index in a field counts from 0.                          *)
(***************************************************************************)
EXTENDS Integers, Sequences, SequencesExt

Indexes(rows, i) == i + 1 \in DOMAIN rows

-----------------------------------------------------------------------------
(* AFS2 archives.  An archive is a record of the fields of its file: the    *)
(* alignment, the ids, and the offsets, one more than there are ids; length *)
(* is the file's.                                                           *)

align(alignment, offset) == ((offset + alignment - 1) \div alignment) * alignment

\* NewAFSArchive: the size goes to the next file's offset before that is aligned.
AfsFile(a, i) ==
    [id |-> a.ids[i], offset |-> align(a.alignment, a.offsets[i]),
     size |-> a.offsets[i + 1] - align(a.alignment, a.offsets[i])]

\* FileData: a size that is negative, 2^32 less in the code, reads past the end.
FileData(a, f) == IF f.size >= 0 /\ f.offset + f.size <= a.length
                  THEN {<<f.offset, f.size>>} ELSE {}

\* FileDataForCueID: the first of that id, or the first file if its id is 0.
FileDataForCueID(a, id) ==
    LET same == {i \in DOMAIN a.ids : a.ids[i] = id}
    IN  IF same # {} THEN FileData(a, AfsFile(a, CHOOSE i \in same : \A j \in same : i <= j))
        ELSE IF a.ids # << >> /\ a.ids[1] = 0 THEN FileData(a, AfsFile(a, 1)) ELSE {}

-----------------------------------------------------------------------------
(* From the tables to the tracks.                                           *)

\* extractTracksFromEvent, processCommand: the synths of an event's play commands up
\* to an end, or a command cut short by the end of the field.
Played(commands) ==
    LET ended(k) == \E j \in 1..k : commands[j].op \in {"end", "cut"}
    IN  FlattenSeq([k \in DOMAIN commands |->
            IF commands[k].op = "play" /\ ~ended(k) THEN <<commands[k].synth>> ELSE << >>])

\* extractTrackFromTrackRow: of row t of the TrackTable, if there is one; 65535 is no
\* event.
TrackRowPlays(acb, t) ==
    IF \/ ~Indexes(acb.tracks, t)
       \/ acb.tracks[t + 1] = 65535 \/ ~Indexes(acb.events, acb.tracks[t + 1]) THEN << >>
    ELSE Played(acb.events[acb.tracks[t + 1] + 1])

\* The rows of the TrackTable that a cue refers to: those of its sequence, or all of
\* them when there is no such sequence.
CueTracks(acb, ref) ==
    IF Indexes(acb.seqs, ref) THEN SubSeq(acb.seqs[ref + 1].rows, 1, acb.seqs[ref + 1].num)
    ELSE [k \in DOMAIN acb.tracks |-> k - 1]

\* extractSequenceTracks reads its track indexes unchecked.
CuePanics(acb, ref) ==
    Indexes(acb.seqs, ref) /\ acb.seqs[ref + 1].num > Len(acb.seqs[ref + 1].rows)

\* extractTrackFromCommand: a play command leads to a wave if its synth refers to one.
PlaysAWave(acb, synth) ==
    /\ Indexes(acb.synths, synth) /\ acb.synths[synth + 1].type = 1
    /\ Indexes(acb.waves, acb.synths[synth + 1].wave)

\* Every play of a wave, in the order of the cues: the cue's reference and the wave.
TrackPlays(acb, ref, t) ==
    LET synths == TrackRowPlays(acb, t)
        wave(s) == acb.waves[acb.synths[s + 1].wave + 1]
    IN  FlattenSeq([k \in DOMAIN synths |->
            IF PlaysAWave(acb, synths[k]) THEN <<[ref |-> ref, wave |-> wave(synths[k])]>>
            ELSE << >>])
CuePlays(acb, ref) ==
    FlattenSeq([k \in DOMAIN CueTracks(acb, ref) |-> TrackPlays(acb, ref, CueTracks(acb, ref)[k])])
Plays(acb) == FlattenSeq([k \in DOMAIN acb.cues |-> CuePlays(acb, acb.cues[k].ref)])

\* A name is a text and the numbers put behind it.
Numbered(name, n) == <<name[1], Append(name[2], n)>>

\* buildNameMap, looked up by the reference: the name of the last row of that
\* CueIndex; or, without one or with an empty one, a name made of the reference.
CueName(acb, ref) ==
    LET rows == {k \in DOMAIN acb.names : acb.names[k].cue = ref}
    IN  IF rows = {} \/ acb.names[Max(rows)].name = <<"", << >>>> THEN <<"UNKNOWN", <<ref>>>>
        ELSE acb.names[Max(rows)].name

\* Mutant: a name that is taken is given again.
NoneTaken(name, earlier) == FALSE

\* generateUniqueName: a name that an earlier track has.
Taken(name, earlier) == \E k \in DOMAIN earlier : earlier[k] = name

\* A name that is taken gets the wave's id, once.
generateUniqueName(name, id, earlier) == IF Taken(name, earlier) THEN Numbered(name, id) ELSE name

\* The names of the tracks.
TrackNames(acb) ==
    LET plays == Plays(acb)
        name(p, earlier) == generateUniqueName(CueName(acb, p.ref), p.wave.id, earlier)
        fold[k \in 0..Len(plays)] ==
            IF k = 0 THEN << >> ELSE Append(fold[k - 1], name(plays[k], fold[k - 1]))
    IN  fold[Len(plays)]

-----------------------------------------------------------------------------
(* extractAllTracks.                                                        *)

\* loadExternalAwbs: the archives of the hash table that are there, in its order.
externalAwbs(acb) ==
    FlattenSeq([k \in DOMAIN acb.external |->
        IF acb.external[k].there THEN <<acb.external[k]>> ELSE << >>])

\* getTrackData: of the embedded archive or the one of the wave's port.
getTrackData(acb, wave) ==
    IF wave.stream
    THEN IF ~Indexes(externalAwbs(acb), wave.port) THEN {}
         ELSE LET a == externalAwbs(acb)[wave.port + 1]
              IN  {<<a.file, d>> : d \in FileDataForCueID(a, wave.id)}
    ELSE IF ~acb.embedded.there THEN {}
         ELSE {<<acb.embedded.file, d>> : d \in FileDataForCueID(acb.embedded, wave.id)}

\* The files left when all the tracks were written in order, with their contents.
FilesOf(acb) ==
    LET plays == Plays(acb)
        names == TrackNames(acb)
        data  == [k \in DOMAIN plays |-> getTrackData(acb, plays[k].wave)]
        file(k) == <<names[k], plays[k].wave.enc>>
        written == {k \in DOMAIN plays : data[k] # {}}
        last    == {k \in written : \A m \in written : file(m) = file(k) => m <= k}
    IN  {<<file(k), CHOOSE d \in data[k] : TRUE>> : k \in last}

\* ExtractACB: an unknown kind of reference is an error before anything is written.
ExtractACB(acb) ==
    IF \E k \in DOMAIN acb.cues :
           /\ acb.cues[k].type \notin {3, 8}
           /\ \A m \in 1..k - 1 : ~CuePanics(acb, acb.cues[m].ref)
    THEN [how |-> "error", files |-> {}]
    ELSE IF \E k \in DOMAIN acb.cues : CuePanics(acb, acb.cues[k].ref)
         THEN [how |-> "panic", files |-> {}]
    ELSE [how |-> "ok", files |-> FilesOf(acb)]
=============================================================================
