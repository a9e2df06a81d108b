------------------------------ MODULE MCDecoders ------------------------------
(* The files the decoders are run on.                                         *)
EXTENDS Decoders

\* Tables: two columns of every flag and a few types, over no row, one or two; the
\* numbers have more bytes than one, or a sign.
ColumnOf(f, y, n) ==
    [flag |-> f, typ |-> y, name |-> n,
     vals |-> CASE y = 0 -> <<1, 255>> [] y = 3 -> <<-300, 7>> [] y = 5 -> <<70000, -2>>
                [] y = 6 -> <<3, 2000000000>> [] y = 10 -> <<4, 5>> [] OTHER -> <<1, 2>>]
Columns(n) == {ColumnOf(f, y, n) : f \in {16, 48, 80, 112}, y \in {0, 3, 5, 6, 10, 11}}
TableJobs ==
    {[kind |-> "table",
      t |-> [cols |-> <<a, b>>, rows |-> n, title |-> 1,
             strings |-> <<<<116>>, <<97>>, <<98>>, <<120, 121>>, << >>>>, blobs |-> <<<<9, 0>>, <<5>>>>]] :
        a \in Columns(2), b \in Columns(3), n \in 0..2}

BitJobs ==
    {[kind |-> "bits", data |-> d, bit |-> b, n |-> n] :
        d \in {<<113, 42, 255, 0, 90>>, <<64, 1, 127, 200>>}, b \in 0..34, n \in 0..16}
    \cup {[kind |-> "bits", data |-> <<113, 42, 255, 0, 90, 1, 64>>, bit |-> 8 * b, n |-> 24] : b \in 0..5}

\* HCA headers: bands at the bounds of the 128, and ones that do not add up.
HeaderOf(v, ch, total, base, stereo, per) ==
    [version |-> v, channels |-> ch, frameCount |-> 3, encoderDelay |-> 0, chunk |-> "comp",
     total |-> total, base |-> base, stereo |-> stereo, stereoType |-> 0, perGroup |-> per,
     tracks |-> 1, config |-> 0, minRes |-> 1, maxRes |-> 15, msStereo |-> 0,
     loop |-> << >>, ath |-> 0, ciph |-> 56]
Bands == {0, 1, 2, 40, 64, 100, 127, 128, 129}
HeaderJobs ==
    {[kind |-> "header", h |-> HeaderOf(v, ch, t, b, s, p)] :
        v \in {512, 768}, ch \in {1, 2, 8}, t \in Bands, b \in Bands, s \in {0, 1, 28, 64},
        p \in {0, 1, 8, 128}}
    \cup {[kind |-> "header", h |-> [HeaderOf(v, ch, t, b, 0, 0) EXCEPT !.chunk = "dec",
                                                                        !.stereoType = y]] :
             v \in {512, 768}, ch \in {1, 2}, t \in Bands, b \in Bands, y \in {0, 1}}

\* USM files: a table that cannot be read, chunks in every order, one with a longer
\* header and one that promises more padding than it has, and an end cut off.
Chunk(sig, n) == [sig |-> sig, header |-> 24, footer |-> n, pad |-> n,
                  content |-> <<<<"byte", n + 1>>, <<"byte", 7>>>>]
Chunks == {Chunk("@SFV", 0), Chunk("@SFV", 3), Chunk("@SFA", 1),
           [Chunk("@SFV", 1) EXCEPT !.header = 26], [Chunk("@SFV", 0) EXCEPT !.footer = 9],
           Marked("@SFV", "#CONTENTS END"), Marked("@SFA", "#CONTENTS END")}
UsmJobs ==
    {[kind |-> "usm", u |-> [audio |-> a, table |-> "table", chunks |-> c, cut |-> 0]] :
        a \in BOOLEAN, c \in UNION {[1..n -> Chunks] : n \in 0..3}}
    \cup {[kind |-> "usm", u |-> [audio |-> a, table |-> t, chunks |-> c, cut |-> k]] :
        a \in BOOLEAN, t \in {"table", "broken"}, c \in [1..2 -> Chunks], k \in {0, 1}}

\* ACB files: two cues, sequences over two tracks, events of up to two plays.
Ids == {0, 1}
Waves == [stream : {FALSE}, id : Ids, port : {0}, enc : {2}]
         \cup [stream : {TRUE}, id : Ids, port : {0, 1}, enc : {2}]
Play(k) == [op |-> "play", synth |-> k]
Events == {<<Play(0), Play(1)>>, <<Play(1), [op |-> "end"]>>, <<[op |-> "cut"], Play(0)>>}
Names  == {<<"a", << >>>>, <<"b", << >>>>, <<"a", <<1>>>>, <<"", << >>>>}
ArchiveOf(f, th, sizes, alignment) ==
    [there |-> th, file |-> f, head |-> 33, ids |-> <<1, 0>>, sizes |-> sizes, alignment |-> alignment]
AcbJobs ==
    {[kind |-> "acb", acb |->
        [cues |-> <<[type |-> 3, ref |-> 0], [type |-> t, ref |-> 1]>>,
         names |-> <<[cue |-> 0, name |-> <<"a", << >>>>], [cue |-> 1, name |-> n]>>,
         seqs |-> <<[num |-> 1, rows |-> <<0>>], [num |-> m, rows |-> <<1, 0>>]>>,
         tracks |-> <<0, 1>>, events |-> <<e, f>>,
         synths |-> <<[type |-> 1, wave |-> 0], [type |-> 1, wave |-> 1]>>,
         waves |-> <<v, w>>,
         embedded |-> ArchiveOf("acb", TRUE, s, al),
         external |-> <<ArchiveOf("awb1", th, <<3, 0>>, 4), ArchiveOf("awb2", TRUE, s, al)>>]] :
        t \in {1, 8}, n \in Names, m \in {2, 3}, e \in Events, f \in {<<Play(1)>>}, v \in Waves,
        w \in Waves, s \in {<<0, 2>>, <<5, 3>>}, al \in {1, 32},
        th \in BOOLEAN}

\* Bundles around the size of the header.
BundleJobs ==
    {[kind |-> "bundle", type |-> t, bundle |-> [i \in 1..n |-> (7 * i) % 256]] :
        t \in {"plain", "flipped"}, n \in 0..HeaderSize + 2}
    \cup {[kind |-> "bundle", type |-> "other", bundle |-> [i \in 1..n |-> (7 * i) % 256]] : n \in 0..5}

\* Streams: a message cut near either end of its frame, two others, and one before; each
\* of three bytes, of the largest size or of one more.
SendOf(i, n, k) == [id |-> i, size |-> n, out |-> k]
Cuts(n)  == (0..8 \cup n - 8..n + 4) \cap 0..n + 4
CutSends == UNION {{SendOf(65, n, k) : k \in Cuts(n)} : n \in {3, maxFrameSize}}
Whole    == {SendOf(66, n, n + 4) : n \in {3, maxFrameSize, maxFrameSize + 1}}
StreamJobs ==
    {[kind |-> "stream", sends |-> b \o <<s, w, v>>] :
        b \in {<< >>, <<SendOf(67, 3, 7)>>}, s \in CutSends, w, v \in Whole}

Jobs0 == TableJobs \cup BitJobs \cup HeaderJobs \cup UsmJobs \cup AcbJobs
         \cup BundleJobs \cup StreamJobs \cup {[kind |-> "track"]}

\* Tracks: an encoder delay of none, part of a block, a block, and more than all.
Tracks0 == {[HeaderOf(768, 1, 100, 64, 0, 8) EXCEPT !.encoderDelay = d, !.frameCount = n] :
               d \in 0..9, n \in 0..3}
           \cup {HeaderOf(768, 1, 128, 64, 0, 1)}
Bodies0 == [intact : BOOLEAN, whole : 0..4, tail : BOOLEAN, bad : SUBSET {0, 2}]
=============================================================================
