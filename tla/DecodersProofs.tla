----------------------------- MODULE DecodersProofs -----------------------------
(***************************************************************************)
(* What the decoders do with every track, every HCA header, every bundle,    *)
(* every stream of frames, every USM and every ACB file: the samples of a    *)
(* decoded track for every number of blocks, encoder delay and block size;   *)
(* the arrays of DecodeBlock; the flipped header of a bundle, for every      *)
(* length; what a reader takes from any number of writes, whole and cut; the *)
(* bits of any frame; the video of any chunks; the tracks of any tables; the *)
(* rows of any UTF table.                                                    *)
(***************************************************************************)
EXTENDS Decoders, SequenceTheorems, FiniteSetTheorems, WellFoundedInduction, TLAPS

\* The samples of a file that is reported good.
SamplesCounted ==
    /\ written > 0 => written <= Declared
    /\ status = "ok" => \/ written = Declared
                        \/ body.whole < hdr.frameCount
                        \/ (Declared < 0 /\ written = 0)

\* What the loop keeps: the delay left and the samples written account for every
\* block read so far; one of the two is zero.
StreamInv ==
    /\ hdr \in Headers /\ body \in Bodies
    /\ block \in Nat /\ delay \in Nat /\ written \in Nat
    /\ status \in {"closed", "run", "ok", "error"}
    /\ block <= hdr.frameCount
    /\ status = "closed" => block = 0 /\ written = 0
    /\ status = "run" =>
          /\ delay > 0 => written = 0 /\ delay = hdr.encoderDelay - block * SamplesPerBlock
          /\ delay = 0 => written = block * SamplesPerBlock - hdr.encoderDelay
    /\ SamplesCounted

\* A number of blocks counts no more samples than a larger one.
LEMMA BlocksMonotone ==
    ASSUME NEW a \in Nat, NEW b \in Nat, NEW s \in Nat, a <= b
    PROVE  a * s <= b * s
PROOF OBVIOUS

\* One more block adds its samples.
LEMMA OneMore ==
    ASSUME NEW a \in Nat, NEW s \in Nat
    PROVE  (a + 1) * s = a * s + s
PROOF OBVIOUS

\* The header and body the state holds have fields of the right kind.
LEMMA FieldTypes ==
    ASSUME StreamInv
    PROVE  /\ hdr.frameCount \in Nat /\ hdr.encoderDelay \in Nat /\ body.whole \in Nat
           /\ SamplesPerBlock \in Nat /\ SamplesPerBlock > 0
PROOF BY StreamAssumption DEF StreamInv, StreamAssumption

\* The loop starts with nothing written.
LEMMA StreamInvInit == HcaInit => StreamInv
PROOF BY StreamAssumption DEF HcaInit, StreamInv, SamplesCounted, StreamAssumption

\* Every step of the loop keeps the account.
LEMMA StreamInvStep == StreamInv /\ [HcaNext]_hcaVars => StreamInv'
<1> SUFFICES ASSUME StreamInv, [HcaNext]_hcaVars PROVE StreamInv'
    OBVIOUS
<1> USE DEF StreamInv
<1>1. /\ hdr.frameCount \in Nat /\ hdr.encoderDelay \in Nat /\ body.whole \in Nat
      /\ SamplesPerBlock \in Nat /\ SamplesPerBlock > 0
    BY FieldTypes
<1>2. block * SamplesPerBlock \in Nat /\ hdr.frameCount * SamplesPerBlock \in Nat
    BY <1>1
<1>3. CASE Open
    BY <1>1, <1>3 DEF Open, SamplesCounted, Declared
<1>4. CASE Refuse
    BY <1>4 DEF Refuse, Stop, SamplesCounted, Declared
<1>5. CASE EndOfBlocks
    <2>1. block = hdr.frameCount
        BY <1>1, <1>5 DEF EndOfBlocks
    <2>2. written = Declared \/ (Declared < 0 /\ written = 0)
        BY <1>1, <1>2, <1>5, <2>1 DEF EndOfBlocks, Declared
    <2> QED
        BY <1>5, <2>2 DEF EndOfBlocks, Stop, SamplesCounted, Declared
<1>6. CASE EndOfFile
    BY <1>1, <1>6 DEF EndOfFile, Stop, SamplesCounted, Declared
<1>7. CASE ShortBlock
    BY <1>7 DEF ShortBlock, Stop, SamplesCounted, Declared
<1>8. CASE BadBlock
    BY <1>8 DEF BadBlock, HasBlock, Stop, SamplesCounted, Declared
<1>9. (block + 1) * SamplesPerBlock = block * SamplesPerBlock + SamplesPerBlock
    BY <1>1, OneMore
<1>10. CASE SkipBlock
    BY <1>1, <1>2, <1>9, <1>10 DEF SkipBlock, HasBlock, Skip, SamplesCounted, Declared
<1>11. CASE WriteBlock
    <2>1. written' = (block + 1) * SamplesPerBlock - hdr.encoderDelay
        BY <1>1, <1>2, <1>9, <1>11 DEF WriteBlock, HasBlock, Skip, Discard
    <2>2. block + 1 <= hdr.frameCount
        BY <1>1, <1>11 DEF WriteBlock, HasBlock
    <2>3. (block + 1) * SamplesPerBlock <= hdr.frameCount * SamplesPerBlock
        BY <1>1, <2>2, BlocksMonotone
    <2>4. written' <= hdr.frameCount * SamplesPerBlock - hdr.encoderDelay
        BY <1>1, <1>2, <1>9, <2>1, <2>3
    <2>5. written' \in Nat
        BY <1>1, <1>11 DEF WriteBlock, Skip, Discard
    <2> QED
        BY <1>1, <1>11, <2>1, <2>2, <2>4, <2>5
        DEF WriteBlock, HasBlock, SamplesCounted, Declared
<1>12. CASE UNCHANGED hcaVars
    BY <1>12 DEF hcaVars, SamplesCounted, Declared
<1> QED
    BY <1>3, <1>4, <1>5, <1>6, <1>7, <1>8, <1>10, <1>11, <1>12 DEF HcaNext

\* A length that fits is what the header declares.
LEMMA FittingLength ==
    ASSUME StreamInv, written = Declared
    PROVE  DeclaredBytes = PCMBytes(written) \/ PCMBytes(written) >= Uint32
<1>1. written \in Nat /\ hdr.channels \in Nat /\ Uint32 \in Nat \ { 0 }
    BY StreamAssumption DEF StreamInv, StreamAssumption
<1>2. PCMBytes(written) \in Nat
    BY <1>1 DEF PCMBytes
<1>3. \A n \in Nat : n < Uint32 => n % Uint32 = n
    BY <1>1
<1> QED
    BY <1>1, <1>2, <1>3 DEF DeclaredBytes

\* The samples that are counted make the file whole.
LEMMA StreamIsWhole == StreamInv => WavIsWhole
<1> SUFFICES ASSUME StreamInv PROVE WavIsWhole
    OBVIOUS
<1>1. SamplesCounted
    BY DEF StreamInv
<1> QED
    BY <1>1, FittingLength DEF SamplesCounted, WavIsWhole

\* Every WAV file reported good is whole, and none holds more than it declares.
THEOREM WavsAreWhole == HcaSpec => []WavIsWhole
    BY StreamInvInit, StreamInvStep, StreamIsWhole, PTL DEF HcaSpec

\* A file of another kind has no samples.
TrackInv == IF job.kind = "track" THEN StreamInv
            ELSE written = 0 /\ status = "none"

\* Whatever files are decoded beside it, a WAV file that is reported good is whole, and
\* none holds more than it declares.
THEOREM TrackWavsAreWhole == Spec => []WavIsWhole
<1>1. Init => TrackInv
    BY StreamInvInit DEF Init, TrackInv
<1>2. TrackInv /\ [Next]_vars => TrackInv'
    <2> SUFFICES ASSUME TrackInv, [Next]_vars PROVE TrackInv'
        OBVIOUS
    <2>1. CASE DecodeTrack
        BY <2>1, StreamInvStep DEF DecodeTrack, TrackInv
    <2>2. CASE UNCHANGED <<job, hcaVars>>
        <3>1. [HcaNext]_hcaVars /\ UNCHANGED job
            BY <2>2
        <3> QED
            BY <2>2, <3>1, StreamInvStep DEF TrackInv, hcaVars
    <2>3. ~DecodeTrack => UNCHANGED <<job, hcaVars>>
        BY DEF Next, vars, ReadTable, PeekBits, DecodeFrame, ExtractVideo, ExtractTracks,
               Deobfuscate, ReadStream, Answer
    <2> QED
        BY <2>1, <2>2, <2>3
<1>3. TrackInv => WavIsWhole
    BY StreamIsWhole DEF TrackInv, WavIsWhole
<1> QED
    BY <1>1, <1>2, <1>3, PTL DEF Spec

-----------------------------------------------------------------------------
(* The arrays of DecodeBlock.                                               *)

\* A count of bands is its own remainder.
LEMMA SmallUint == ASSUME NEW x \in 0..256 PROVE Uint(x) = x
    BY WordAssumption DEF Uint, WordAssumption

\* So is what is left of the bands.
LEMMA UintBands ==
    ASSUME NEW t \in 0..128, NEW b \in 0..128, NEW s \in 0..128, b + s <= t
    PROVE  Uint(t - b - s) = t - (b + s)
<1>1. t - b - s = t - (b + s) /\ t - (b + s) \in 0..256
    OBVIOUS
<1> QED
    BY <1>1, SmallUint

\* Bands above the coded ones, and the groups they make: a division that rounds up gives
\* no more groups than bands.
LEMMA GroupsFit ==
    ASSUME NEW t \in 0..128, NEW c \in 0..128, c <= t, NEW p \in 0..128
    PROVE  /\ t - c \in 0..128 /\ CeilDiv(t - c, p) \in 0..t - c
           /\ (IF t > c THEN t - c ELSE 0) = t - c
    BY DEF CeilDiv

\* The bands of a header that was taken, where they add up.
LEMMA BandsOf ==
    ASSUME NEW h, Accepted(h), BandsAddUp(h)
    PROVE  /\ Total(h) \in 0..128 /\ Base(h) \in 0..128 /\ Stereo(h) \in 0..128
           /\ Coded(h) \in 0..128 /\ Coded(h) = Base(h) + Stereo(h)
           /\ PerGroup(h) \in 0..128 /\ Coded(h) <= Total(h)
           /\ hfrGroupCount(h) \in 0..Total(h) - Coded(h)
           /\ Filled(h) = Total(h) - Coded(h)
<1>1. /\ Total(h) \in 0..128 /\ Base(h) \in 0..128 /\ Stereo(h) \in 0..128
      /\ Coded(h) \in 0..128 /\ PerGroup(h) \in 0..128 /\ Coded(h) <= Total(h)
    BY DEF Accepted, validateTracksAndBands, BandsAddUp
<1>2. Coded(h) = Base(h) + Stereo(h)
    BY DEF Coded
<1>3. /\ CeilDiv(Total(h) - Coded(h), PerGroup(h)) \in 0..Total(h) - Coded(h)
      /\ Filled(h) = Total(h) - Coded(h)
    BY <1>1, GroupsFit DEF Filled
<1>4. Base(h) + Stereo(h) <= Total(h)
    BY <1>1, <1>2
<1>5. Uint(Total(h) - Base(h) - Stereo(h)) = Total(h) - (Base(h) + Stereo(h))
    BY <1>1, <1>4, UintBands
<1> QED
    BY <1>1, <1>2, <1>3, <1>5 DEF hfrGroupCount

\* The scale factors of the groups fit behind those of the bands.
LEMMA ScalesFit ==
    ASSUME NEW c \in Nat, NEW g \in Nat, g > 0, g + c < 128
    PROVE  {127 - i : i \in 0..g - 1} \cup {c + g - i : i \in 0..g - 1} \cup 0..c + g - 1 \subseteq 0..127
    OBVIOUS

\* The bands above the coded ones are filled from coded ones.
LEMMA FillFits ==
    ASSUME NEW c \in 0..128, NEW n \in 0..128, NEW low \in Nat, c > 0, c + n <= 128, n <= c \/ low < c
    PROVE  /\ c + n - 1 \in 0..127
           /\ \A i \in 0..n - 1 : c + i \in 0..127 /\ c - 1 - MinOf(i, low) \in 0..127
    BY DEF MinOf

\* Half of the groups, or all of them, times the bands of a group.
LEMMA LowCount ==
    ASSUME NEW g \in Nat, NEW p \in Nat
    PROVE  g \div 2 \in Nat /\ g * p \in Nat /\ (g \div 2) * p \in Nat
<1>1. g \div 2 \in Nat
    OBVIOUS
<1> QED
    BY <1>1

\* No step of DecodeBlock leaves its arrays.
LEMMA BlockStaysInBounds ==
    ASSUME NEW h, Accepted(h), BandsAddUp(h)
    PROVE  ~BlockPanics(h)
<1> DEFINE T == Total(h)
           C == Coded(h)
           G == hfrGroupCount(h)
           P == PerGroup(h)
<1>1. /\ T \in 0..128 /\ C \in 0..128 /\ C <= T /\ T - C \in 0..128
      /\ Base(h) \in 0..C
    <2>1. ASSUME NEW t \in 0..128, NEW c \in 0..128, NEW b \in 0..128, NEW s \in 0..128,
                 c = b + s, c <= t
          PROVE  t - c \in 0..128 /\ b \in 0..c
        BY <2>1
    <2> QED
        BY <2>1, BandsOf, ZenonT(60)
<1>2. G \in 0..T - C /\ P \in 0..128 /\ Filled(h) = T - C
    BY BandsOf
<1>3. G + C < 128 \/ G = 0
    BY DEF BandsAddUp
<1>4. P > 0 => C > 0 /\ (T - C <= C \/ (h.version > V200 /\ (G \div 2) * P < C))
    BY <1>2 DEF BandsAddUp
<1>5. G \in 0..128 /\ G \in Nat /\ C \in Nat /\ P \in Nat /\ C + (T - C) <= 128
    <2>1. ASSUME NEW t \in 0..128, NEW c \in 0..128, c <= t, NEW g \in 0..t - c
          PROVE  g \in 0..128 /\ g \in Nat /\ c \in Nat /\ c + (t - c) <= 128
        BY <2>1
    <2>2. \A p \in 0..128 : p \in Nat
        OBVIOUS
    <2> HIDE DEF T, C, G, P
    <2> QED
        BY <1>1, <1>2, <2>1, <2>2
<1> HIDE DEF T, C, G, P
<1>6. ASSUME NEW c \in 0..h.channels - 1
      PROVE  ScaleFactorsTouched(h, c) \subseteq 0..127
    <2>1. codedCount(h, c) \in 0..128
        BY <1>1, BandsOf DEF codedCount, C
    <2>2. CASE Extra(h, c) = 0
        <3>1. ASSUME NEW n \in 0..128, NEW e, e = 0
              PROVE  (IF e > 128 THEN {-1}
                      ELSE {127 - i : i \in 0..e - 1} \cup {Uint(n + e) - i : i \in 0..e - 1}
                           \cup 0..Uint(n + e) - 1) \subseteq 0..127
            <4>1. n + e = n /\ n \in 0..256
                BY <3>1
            <4>2. Uint(n + e) = n
                BY <4>1, SmallUint
            <4> QED
                BY <3>1, <4>2
        <3> QED
            BY <2>1, <2>2, <3>1 DEF ScaleFactorsTouched
    <2>3. CASE Extra(h, c) # 0
        <3>1. Extra(h, c) = G /\ codedCount(h, c) = C
            BY <2>3 DEF Extra, codedCount, C, G
        <3>2. G > 0 /\ G + C < 128 /\ ~(G > 128)
            BY <1>3, <1>5, <2>3, <3>1
        <3>3. C + G \in 0..256
            BY <1>5, <3>2
        <3>4. Uint(C + G) = C + G
            BY <3>3, SmallUint
        <3>5. ASSUME NEW u, u = C + G
              PROVE  (IF G > 128 THEN {-1}
                      ELSE {127 - i : i \in 0..G - 1} \cup {u - i : i \in 0..G - 1} \cup 0..u - 1)
                         \subseteq 0..127
            BY <1>5, <3>2, <3>5, ScalesFit
        <3> QED
            BY <3>1, <3>4, <3>5 DEF ScaleFactorsTouched
    <2> QED
        BY <2>2, <2>3
<1>7. ASSUME NEW c \in 0..h.channels - 1
      PROVE  IntensityTouched(h, c) \subseteq 0..127
    <2>1. ~(G > 128) /\ 128 - G..127 \subseteq 0..127
        BY <1>5
    <2> QED
        BY <2>1 DEF IntensityTouched, G
<1>8. ASSUME NEW c \in 0..h.channels - 1
      PROVE  HighFrequencyTouched(h, c) \subseteq 0..127
    <2>1. CASE P = 0 \/ c \in Secondary(h)
        BY <2>1 DEF HighFrequencyTouched, P
    <2>2. CASE P # 0 /\ c \notin Secondary(h)
        <3> DEFINE L == GroupLimit(h) * P
                   n == T - C
        <3>1. P > 0 /\ ~(G > 128)
            BY <1>5, <2>2
        <3>2. /\ h.version <= V200 => GroupLimit(h) = G
              /\ ~(h.version <= V200) => GroupLimit(h) = G \div 2
            BY DEF GroupLimit, G
        <3>3. L \in Nat
            BY <1>5, <3>2, LowCount
        <3>4. h.version > V200 => ~(h.version <= V200)
            BY DEF V200, Accepted
        <3>5. T - C <= C \/ L < C
            BY <1>4, <3>1, <3>2, <3>4
        <3>6. HighFrequencyTouched(h, c) =
                  {C + (T - C) - 1} \cup {C + i : i \in 0..(T - C) - 1}
                  \cup {C - 1 - MinOf(i, L) : i \in 0..(T - C) - 1}
            BY <1>2, <2>2, <3>1 DEF HighFrequencyTouched, C, P, G
        <3>7. C > 0
            BY <1>4, <3>1
        <3>8. n \in 0..128 /\ C + n <= 128 /\ (n <= C \/ L < C)
            BY <1>1, <1>5, <3>5
        <3> HIDE DEF L, n
        <3>9. /\ C + n - 1 \in 0..127
              /\ \A i \in 0..n - 1 : C + i \in 0..127 /\ C - 1 - MinOf(i, L) \in 0..127
            BY <1>1, <3>3, <3>7, <3>8, FillFits
        <3> QED
            BY <3>6, <3>9 DEF n
    <2> QED
        BY <2>1, <2>2
<1>9. StereoTouched(h) \subseteq 0..127
    <2>1. ASSUME NEW b \in 0..128, NEW t \in 0..128 PROVE b..t - 1 \subseteq 0..127
        OBVIOUS
    <2>2. Base(h) \in 0..128 /\ Total(h) \in 0..128
        BY BandsOf
    <2> QED
        BY <2>1, <2>2 DEF StereoTouched
<1> QED
    BY <1>6, <1>7, <1>8, <1>9 DEF BlockPanics

\* What was answered is what the decoder makes of that file.
AnswerInv ==
    /\ job \in Jobs
    /\ Decoded("header") => out = [taken |-> Accepted(job.h), panics |-> BlockPanics(job.h)]
    /\ Decoded("bundle") => out = DeobfuscateToWriter(ObfuscatedFile(job))
    /\ Decoded("stream") => out = Received(Stream(job.sends))
    /\ Decoded("bits") => out = bitreaderPeek(job.data, job.bit, job.n)
    /\ Decoded("usm") => out = [meta |-> ReadMetadata(UsmFile(job.u)), usm |-> ExtractUSM(UsmFile(job.u))]
    /\ Decoded("acb") => out = ExtractACB(AcbOf(job.acb))
    /\ Decoded("table") => out = NewUTFTable(TableFile(job.t))

\* Every decoder answers for its own kind of file, and once.
LEMMA AnswersHold == Spec => []AnswerInv
<1>1. Init => AnswerInv
    BY DEF Init, AnswerInv, Decoded
<1>2. AnswerInv /\ [Next]_vars => AnswerInv'
    <2> SUFFICES ASSUME AnswerInv, [Next]_vars PROVE AnswerInv'
        OBVIOUS
    <2> DEFINE header == [taken |-> Accepted(job.h), panics |-> BlockPanics(job.h)]
               bundle == DeobfuscateToWriter(ObfuscatedFile(job))
               stream == Received(Stream(job.sends))
               bits   == bitreaderPeek(job.data, job.bit, job.n)
               usm    == [meta |-> ReadMetadata(UsmFile(job.u)), usm |-> ExtractUSM(UsmFile(job.u))]
               acb    == ExtractACB(AcbOf(job.acb))
               table  == NewUTFTable(TableFile(job.t))
    <2>1. AnswerInv <=> /\ job \in Jobs
                        /\ done /\ job.kind = "header" => out = header
                        /\ done /\ job.kind = "bundle" => out = bundle
                        /\ done /\ job.kind = "stream" => out = stream
                        /\ done /\ job.kind = "bits" => out = bits
                        /\ done /\ job.kind = "usm" => out = usm
                        /\ done /\ job.kind = "acb" => out = acb
                        /\ done /\ job.kind = "table" => out = table
        BY DEF AnswerInv, Decoded
    <2>2. UNCHANGED job => /\ header' = header /\ bundle' = bundle /\ stream' = stream /\ bits' = bits
                         /\ usm' = usm /\ acb' = acb /\ table' = table
        BY DEF ObfuscatedFile
    <2>3. AnswerInv' <=> /\ job' \in Jobs
                         /\ done' /\ job'.kind = "header" => out' = header'
                         /\ done' /\ job'.kind = "bundle" => out' = bundle'
                         /\ done' /\ job'.kind = "stream" => out' = stream'
                         /\ done' /\ job'.kind = "bits" => out' = bits'
                         /\ done' /\ job'.kind = "usm" => out' = usm'
                         /\ done' /\ job'.kind = "acb" => out' = acb'
                         /\ done' /\ job'.kind = "table" => out' = table'
        BY DEF AnswerInv, Decoded
    <2>4. \/ UNCHANGED <<job, done, out>>
          \/ UNCHANGED job /\ job.kind \notin {"header", "bundle", "stream", "bits", "usm", "acb", "table"}
          \/ UNCHANGED job /\ job.kind = "header" /\ out' = header
          \/ UNCHANGED job /\ job.kind = "bundle" /\ out' = bundle
          \/ UNCHANGED job /\ job.kind = "stream" /\ out' = stream
          \/ UNCHANGED job /\ job.kind = "bits" /\ out' = bits
          \/ UNCHANGED job /\ job.kind = "usm" /\ out' = usm
          \/ UNCHANGED job /\ job.kind = "acb" /\ out' = acb
          \/ UNCHANGED job /\ job.kind = "table" /\ out' = table
        BY DEF Next, vars, ReadTable, PeekBits, DecodeFrame, ExtractVideo, ExtractTracks,
               Deobfuscate, ReadStream, DecodeTrack, Answer
    <2> HIDE DEF header, bundle, stream, bits, usm, acb, table
    <2> QED
        BY <2>1, <2>2, <2>3, <2>4
<1> QED
    BY <1>1, <1>2, PTL DEF Spec

\* For every header, not the run's alone: one that is taken and whose bands add up never
\* leads DecodeBlock outside its arrays.
THEOREM HeadersStayInBounds == Spec => []AcceptedInBounds
<1>1. AnswerInv => AcceptedInBounds
    <2> SUFFICES ASSUME AnswerInv, Decoded("header"), out.taken, BandsAddUp(job.h)
                 PROVE  ~out.panics
        BY DEF AcceptedInBounds
    <2>1. out = [taken |-> Accepted(job.h), panics |-> BlockPanics(job.h)]
        BY DEF AnswerInv
    <2>2. out.taken = Accepted(job.h) /\ out.panics = BlockPanics(job.h)
        BY <2>1, Zenon
    <2> QED
        BY <2>2, BlockStaysInBounds
<1> QED
    BY <1>1, AnswersHold, PTL

-----------------------------------------------------------------------------
(* Obfuscated bundles.                                                      *)

\* Four bytes and what follows come apart again.
LEMMA PrefixComesOff ==
    ASSUME NEW p \in Seq(0..255), Len(p) = 4, NEW data \in Seq(0..255)
    PROVE  /\ Len(p \o data) >= 4
           /\ SubSeq(p \o data, 1, 4) = p
           /\ SubSeq(p \o data, 5, Len(p \o data)) = data
<1> DEFINE S == 0..255
<1> p \in Seq(S) /\ data \in Seq(S)
    OBVIOUS
<1> HIDE DEF S
<1>0. Len(p \o data) = Len(p) + Len(data) /\ Len(data) \in Nat
    BY ConcatProperties, LenProperties
<1>1. Len(p \o data) = 4 + Len(data) /\ Len(data) \in Nat
    BY <1>0
<1>7. 1 \in 1..Len(p) /\ 4 \in 1..Len(p)
    OBVIOUS
<1>2. SubSeq(p \o data, 1, 4) = SubSeq(p, 1, 4)
    BY <1>7, SubSeqOfConcat1
<1>3. SubSeq(p, 1, 4) = p
    BY SubSeqFull
<1>4. SubSeq(p \o data, 5, 4 + Len(data)) = SubSeq(data, 5 - Len(p), 4 + Len(data) - Len(p))
    BY <1>1, SubSeqOfConcat2
<1>5. 5 - Len(p) = 1 /\ 4 + Len(data) - Len(p) = Len(data)
    BY <1>1
<1>6. SubSeq(data, 1, Len(data)) = data
    BY SubSeqFull
<1> QED
    BY <1>1, <1>2, <1>3, <1>4, <1>5, <1>6

\* Inverting a byte twice restores it, and neither changes the length.
LEMMA FlipTwice ==
    ASSUME NEW data \in Seq(0..255)
    PROVE  Flip(data) \in Seq(0..255) /\ Len(Flip(data)) = Len(data) /\ Flip(Flip(data)) = data
<1> DEFINE flips(i) == i <= HeaderSize /\ (i - 1) % 8 < 5
<1>1. Flip(data) = [i \in 1..Len(data) |-> IF flips(i) THEN 255 - data[i] ELSE data[i]]
    BY DEF Flip
<1> HIDE DEF flips
<1>2. \A i \in 1..Len(data) : data[i] \in 0..255 /\ 255 - data[i] \in 0..255
    <2>1. \A i \in 1..Len(data) : data[i] \in 0..255
        BY ElementOfSeq
    <2>2. \A n \in 0..255 : 255 - n \in 0..255
        OBVIOUS
    <2> QED
        BY <2>1, <2>2
<1>3. Flip(data) \in Seq(0..255) /\ Len(Flip(data)) = Len(data)
    BY <1>1, <1>2
<1>4. Flip(Flip(data)) = [i \in 1..Len(data) |-> IF flips(i) THEN 255 - Flip(data)[i] ELSE Flip(data)[i]]
    BY <1>1, <1>3 DEF Flip, flips
<1>5. ASSUME NEW i \in 1..Len(data) PROVE Flip(Flip(data))[i] = data[i]
    <2>1. Flip(data)[i] = IF flips(i) THEN 255 - data[i] ELSE data[i]
        BY <1>1
    <2>2. Flip(Flip(data))[i] = IF flips(i) THEN 255 - Flip(data)[i] ELSE Flip(data)[i]
        BY <1>4
    <2>3. \A n \in 0..255 : 255 - (255 - n) = n
        OBVIOUS
    <2> QED
        BY <1>2, <2>1, <2>2, <2>3, ZenonT(60)
<1> QED
    BY <1>3, <1>4, <1>5

\* A bundle of any length comes out of its obfuscated file as it was.
LEMMA FileIsRestored ==
    ASSUME NEW j \in Jobs, j.kind = "bundle"
    PROVE  DeobfuscateToWriter(ObfuscatedFile(j)) = j.bundle
<1> DEFINE b == j.bundle
<1>1. /\ b \in Seq(0..255) /\ Len(b) \in Nat
      /\ j.type \notin {"plain", "flipped"} /\ Len(b) >= 4 => SubSeq(b, 1, 4) \notin {Plain, Flipped}
    BY JobsAssumption DEF JobsAssumption
<1>2. /\ Plain \in Seq(0..255) /\ Len(Plain) = 4 /\ Flipped \in Seq(0..255) /\ Len(Flipped) = 4
      /\ Plain # Flipped
    BY DEF Plain, Flipped
<1>6. ASSUME NEW p \in {Plain, Flipped}, NEW data \in Seq(0..255)
      PROVE  /\ ~(Len(p \o data) < 4)
             /\ SubSeq(p \o data, 1, 4) = p
             /\ SubSeq(p \o data, 5, Len(p \o data)) = data
    <2>1. p \in Seq(0..255) /\ Len(p) = 4
        BY <1>2
    <2>2. Len(p \o data) >= 4
        BY <2>1, PrefixComesOff
    <2>3. Len(p \o data) \in Nat
        BY <2>1
    <2> QED
        BY <2>1, <2>2, <2>3, PrefixComesOff
<1>3. CASE j.type = "plain"
    <2>1. ObfuscatedFile(j) = Plain \o b
        BY <1>3 DEF ObfuscatedFile
    <2> QED
        BY <1>1, <1>6, <2>1 DEF DeobfuscateToWriter
<1>4. CASE j.type = "flipped"
    <2> DEFINE rest == IF Len(b) >= HeaderSize THEN Flip(b) ELSE b
    <2>1. ObfuscatedFile(j) = Flipped \o rest
        BY <1>4 DEF ObfuscatedFile
    <2>2. rest \in Seq(0..255) /\ Len(rest) = Len(b) /\ (WholeHeader(rest) <=> Len(b) >= HeaderSize)
        BY <1>1, FlipTwice DEF WholeHeader
    <2>3. (IF WholeHeader(rest) THEN Flip(rest) ELSE rest) = b
        BY <1>1, <2>2, FlipTwice
    <2> HIDE DEF rest
    <2>4. DeobfuscateToWriter(Flipped \o rest) = IF WholeHeader(rest) THEN Flip(rest) ELSE rest
        BY <1>2, <1>6, <2>2 DEF DeobfuscateToWriter
    <2> QED
        BY <2>1, <2>3, <2>4
<1>5. CASE j.type \notin {"plain", "flipped"}
    <2>1. ObfuscatedFile(j) = b
        BY <1>5 DEF ObfuscatedFile
    <2> QED
        BY <1>1, <1>5, <2>1 DEF DeobfuscateToWriter
<1> QED
    BY <1>3, <1>4, <1>5

\* Every bundle, of whatever length and with whatever bytes, is restored.
THEOREM BundlesAreRestored == Spec => []BundleRestored
<1>1. AnswerInv => BundleRestored
    BY FileIsRestored DEF AnswerInv, BundleRestored, Decoded
<1> QED
    BY <1>1, AnswersHold, PTL

-----------------------------------------------------------------------------
(* Induction over numbers.                                                  *)

\* Any natural numbers have a least one.
LEMMA NatMin ==
    ASSUME NEW T \in SUBSET Nat, T # {}
    PROVE  \E x \in T : \A y \in T : x <= y
<1> DEFINE R == OpToRel(<, Nat)
<1>1. IsWellFoundedOn(R, Nat)
    BY NatLessThanWellFounded
<1>2. \A y, x \in Nat : <<y, x>> \in R <=> y < x
    BY DEF OpToRel
<1> HIDE DEF R
<1>3. PICK x \in T : \A y \in T : ~ (<<y, x>> \in R)
    BY <1>1, WFMin, Zenon
<1>4. \A y \in T : ~(y < x)
    BY <1>2, <1>3, Zenon
<1> QED
    BY <1>4

\* A set that holds 0, and with a number the next one, holds them all.
LEMMA Induction ==
    ASSUME NEW S, 0 \in S, \A n \in Nat : n \in S => n + 1 \in S
    PROVE  Nat \subseteq S
<1> SUFFICES ASSUME Nat \ S # {} PROVE FALSE
    OBVIOUS
<1>1. PICK x \in Nat \ S : \A y \in Nat \ S : x <= y
    BY NatMin
<1>2. x - 1 \in Nat /\ x - 1 \in S
    BY <1>1
<1>3. (x - 1) + 1 \in S
    BY <1>2
<1> QED
    BY <1>1, <1>3

\* A function defined from each number to the next.
Steps(N, S)            == [1..N -> [S -> S]]
Iterates(f, z, G, N, S) == f \in [0..N -> S] /\ f[0] = z /\ \A i \in 1..N : f[i] = G[i][f[i - 1]]

\* A function of that kind exists.
LEMMA Recursion ==
    ASSUME NEW S, NEW z \in S, NEW N \in Nat, NEW G \in Steps(N, S)
    PROVE  \E f : Iterates(f, z, G, N, S)
<1> USE DEF Steps
<1> DEFINE T == {n \in Nat : n <= N =>
                    \E f \in [0..N -> S] : f[0] = z /\ \A i \in 1..n : f[i] = G[i][f[i - 1]]}
<1>1. 0 \in T
    <2> DEFINE c == [i \in 0..N |-> z]
    <2>1. c \in [0..N -> S] /\ c[0] = z /\ 1..0 = {}
        OBVIOUS
    <2> HIDE DEF c
    <2>2. c[0] = z /\ \A i \in 1..0 : c[i] = G[i][c[i - 1]]
        BY <2>1
    <2> QED
        BY <2>1, <2>2
<1>2. ASSUME NEW n \in Nat, n \in T PROVE n + 1 \in T
    <2> SUFFICES ASSUME n + 1 <= N
                 PROVE  \E f \in [0..N -> S] :
                            f[0] = z /\ \A i \in 1..n + 1 : f[i] = G[i][f[i - 1]]
        BY DEF T
    <2>1. PICK f \in [0..N -> S] : f[0] = z /\ \A i \in 1..n : f[i] = G[i][f[i - 1]]
        BY <1>2
    <2> DEFINE g == [f EXCEPT ![n + 1] = G[n + 1][f[n]]]
    <2>2. g \in [0..N -> S]
        BY <2>1
    <2>3. g[0] = z /\ \A i \in 1..n + 1 : g[i] = G[i][g[i - 1]]
        BY <2>1
    <2> QED
        BY <2>2, <2>3
<1> HIDE DEF T
<1>3. N \in T
    BY <1>1, <1>2, Induction
<1> QED
    BY <1>3 DEF T, Iterates

\* Two functions that go from each number to the next alike are alike.
Alike(f, g, N) == f[0] = g[0] /\ \A j \in 1..N : f[j - 1] = g[j - 1] => f[j] = g[j]
Same(f, g, N)  == \A j \in 0..N : f[j] = g[j]

\* By induction.
LEMMA SameSteps ==
    ASSUME NEW N \in Nat, NEW f, NEW g, Alike(f, g, N)
    PROVE  Same(f, g, N)
<1> USE DEF Alike, Same
<1> DEFINE S == {j \in Nat : j <= N => f[j] = g[j]}
<1>1. 0 \in S
    OBVIOUS
<1>2. ASSUME NEW j \in Nat, j \in S PROVE j + 1 \in S
    <2> SUFFICES ASSUME j + 1 <= N PROVE f[j + 1] = g[j + 1]
        OBVIOUS
    <2>1. j + 1 \in 1..N /\ (j + 1) - 1 = j /\ j <= N
        OBVIOUS
    <2>2. f[j] = g[j]
        BY <1>2, <2>1
    <2> QED
        BY <2>1, <2>2, Zenon
<1> HIDE DEF S
<1>3. Nat \subseteq S
    BY <1>1, <1>2, Induction
<1> SUFFICES ASSUME NEW j \in 0..N PROVE f[j] = g[j]
    OBVIOUS
<1>4. j \in S /\ j <= N
    BY <1>3
<1> QED
    BY <1>4, Zenon DEF S

-----------------------------------------------------------------------------
(* Numbers byte by byte.                                                    *)

\* A number is the last digit of it and, 256 times, the rest.
LEMMA LastDigit ==
    ASSUME NEW x \in Int
    PROVE  x \div 256 \in Int /\ x % 256 \in 0..255 /\ (x \div 256) * 256 + (x % 256) = x
    OBVIOUS

\* h loses a byte at a time.
Losing(n, k, h) == /\ h \in [0..k -> Int] /\ h[0] = n
                   /\ \A j \in 1..k : h[j] = h[j - 1] \div 256
                   /\ Shifted(n, k) = h[k]

\* As Shifted does.
LEMMA ShiftedRuns ==
    ASSUME NEW n \in Int, NEW k \in Nat
    PROVE  \E h : Losing(n, k, h)
<1> DEFINE G == [i \in 1..k |-> [x \in Int |-> x \div 256]]
<1>1. G \in Steps(k, Int)
    <2>1. \A x \in Int : x \div 256 \in Int
        OBVIOUS
    <2> QED
        BY <2>1 DEF Steps
<1>2. \A i \in 1..k, x \in Int : G[i][x] = x \div 256
    OBVIOUS
<1> HIDE DEF G
<1>3. PICK f : Iterates(f, n, G, k, Int)
    BY <1>1, Recursion
<1>4. f \in [0..k -> Int] /\ f[0] = n /\ \A i \in 1..k : f[i] = G[i][f[i - 1]]
    BY <1>3 DEF Iterates
<1>5. \A i \in 1..k : f[i] = f[i - 1] \div 256
    <2> TAKE i \in 1..k
    <2>1. f[i - 1] \in Int
        BY <1>4
    <2> QED
        BY <1>2, <1>4, <2>1, ZenonT(40)
<1>6. f = [j \in 0..k |-> IF j = 0 THEN n ELSE f[j - 1] \div 256]
    <2>1. \A j \in 0..k : j # 0 => j \in 1..k
        OBVIOUS
    <2>2. f = [j \in 0..k |-> f[j]]
        BY <1>4
    <2>3. \A j \in 0..k : f[j] = IF j = 0 THEN n ELSE f[j - 1] \div 256
        BY <1>4, <1>5, <2>1, Zenon
    <2> QED
        BY <2>2, <2>3, Zenon
<1> DEFINE v == CHOOSE w : w = [j \in 0..k |-> IF j = 0 THEN n ELSE w[j - 1] \div 256]
<1>7. Shifted(n, k) = v[k]
    BY DEF Shifted
<1>8. v = [j \in 0..k |-> IF j = 0 THEN n ELSE v[j - 1] \div 256]
    BY <1>6
<1> HIDE DEF v
<1>9. 0 \in 0..k /\ k \in 0..k /\ \A j \in 1..k : j \in 0..k /\ j # 0
    OBVIOUS
<1>10. v[0] = n /\ \A j \in 1..k : v[j] = v[j - 1] \div 256
    BY <1>8, <1>9, Zenon
<1>11. Alike(v, f, k)
    BY <1>4, <1>5, <1>10, ZenonT(40) DEF Alike
<1>12. Same(v, f, k)
    BY <1>11, SameSteps, Zenon
<1>13. v[k] = f[k]
    BY <1>9, <1>12, Zenon DEF Same
<1> QED
    BY <1>4, <1>5, <1>7, <1>13, Zenon DEF Losing

\* One byte more, and none.
Loses(n, k) == Shifted(n, k) \in Int /\ Shifted(n, 0) = n /\ Shifted(n, k + 1) = Shifted(n, k) \div 256

\* So it is for every number.
LEMMA ShiftedIs == ASSUME NEW n \in Int, NEW k \in Nat PROVE Loses(n, k)
<1>1. PICK g : Losing(n, k, g)
    BY ShiftedRuns
<1>2. k + 1 \in Nat /\ 0 \in Nat /\ k \in 0..k /\ k + 1 \in 1..k + 1 /\ (k + 1) - 1 = k
    OBVIOUS
<1>3. PICK h : Losing(n, k + 1, h)
    BY <1>2, ShiftedRuns, Zenon
<1>4. PICK f : Losing(n, 0, f)
    BY <1>2, ShiftedRuns, Zenon
<1>5. \A j \in 1..k : j \in 1..k + 1
    OBVIOUS
<1>6. Alike(h, g, k)
    BY <1>1, <1>3, <1>5, ZenonT(40) DEF Losing, Alike
<1>7. h[k] = g[k]
    <2>1. Same(h, g, k)
        BY <1>6, SameSteps, Zenon
    <2> QED
        BY <1>2, <2>1, Zenon DEF Same
<1>8. Shifted(n, k) = g[k] /\ Shifted(n, k + 1) = h[k + 1] /\ h[k + 1] = h[k] \div 256 /\ g[k] \in Int
    BY <1>1, <1>2, <1>3, Zenon DEF Losing
<1>9. Shifted(n, 0) = n
    BY <1>4, Zenon DEF Losing
<1> QED
    BY <1>7, <1>8, <1>9, Zenon DEF Loses

\* Up to three.
LEMMA ShiftedFew ==
    ASSUME NEW n \in Int
    PROVE  /\ Shifted(n, 0) = n /\ Shifted(n, 1) = n \div 256
           /\ Shifted(n, 2) = (n \div 256) \div 256 /\ Shifted(n, 3) = ((n \div 256) \div 256) \div 256
<1>1. 0 + 1 = 1 /\ 1 + 1 = 2 /\ 2 + 1 = 3 /\ 0 \in Nat /\ 1 \in Nat /\ 2 \in Nat
    OBVIOUS
<1>2. Loses(n, 0) /\ Loses(n, 1) /\ Loses(n, 2)
    BY <1>1, ShiftedIs, Zenon
<1>3. /\ Shifted(n, 0) = n /\ Shifted(n, 1) = Shifted(n, 0) \div 256
      /\ Shifted(n, 2) = Shifted(n, 1) \div 256 /\ Shifted(n, 3) = Shifted(n, 2) \div 256
    BY <1>1, <1>2, Zenon DEF Loses
<1> QED
    BY <1>3, ZenonT(40)

-----------------------------------------------------------------------------
(* Streams.                                                                 *)

\* Sequences that are put one behind the other.
LEMMA Flattened ==
    ASSUME NEW D, NEW seqs \in Seq(Seq(D))
    PROVE  \E f \in [0..Len(seqs) -> Seq(D)] :
              /\ f[0] = << >> /\ FlattenSeq(seqs) = f[Len(seqs)]
              /\ \A i \in 1..Len(seqs) : f[i] = f[i - 1] \o seqs[i]
<1> DEFINE N == Len(seqs)
<1>0. N \in Nat /\ \A i \in 1..N : seqs[i] \in Seq(D)
    OBVIOUS
<1>00. << >> \in Seq(D) /\ \A s, t \in Seq(D) : s \o t \in Seq(D) /\ << >> \o s = s
    OBVIOUS
<1>1. FlattenSeq(seqs) =
         IF N = 0 THEN seqs
         ELSE (CHOOSE h : h = [i \in 1..N |-> IF i = 1 THEN seqs[i] ELSE h[i - 1] \o seqs[i]])[N]
    BY DEF FlattenSeq
<1>2. N = 0 => seqs = << >>
    OBVIOUS
<1> HIDE DEF N
<1> DEFINE G == [i \in 1..N |-> [s \in Seq(D) |-> s \o seqs[i]]]
<1>3. G \in [1..N -> [Seq(D) -> Seq(D)]]
    BY <1>0, <1>00
<1>4. PICK f \in [0..N -> Seq(D)] : f[0] = << >> /\ \A i \in 1..N : f[i] = G[i][f[i - 1]]
    <2> DEFINE S == Seq(D)
    <2> DEFINE z == << >>
    <2>1. z \in S /\ N \in Nat /\ G \in Steps(N, S)
        BY <1>0, <1>00, <1>3 DEF Steps
    <2> HIDE DEF G, S, z
    <2>2. \E f : Iterates(f, z, G, N, S)
        BY <2>1, Recursion, Zenon
    <2> QED
        BY <2>2 DEF S, z, Iterates
<1>5. \A i \in 1..N : f[i] = f[i - 1] \o seqs[i]
    <2> TAKE i \in 1..N
    <2>1. f[i - 1] \in Seq(D)
        BY <1>0
    <2>2. G[i][f[i - 1]] = f[i - 1] \o seqs[i]
        BY <2>1
    <2> QED
        BY <1>4, <2>2, Zenon
<1> HIDE DEF G
<1>6. CASE N = 0
    <2>1. FlattenSeq(seqs) = f[N]
        BY <1>1, <1>2, <1>4, <1>6
    <2> QED
        BY <1>4, <1>5, <2>1 DEF N
<1>7. CASE N # 0
    <2> DEFINE h == [i \in 1..N |-> f[i]]
    <2> DEFINE v == CHOOSE w : w = [i \in 1..N |-> IF i = 1 THEN seqs[i] ELSE w[i - 1] \o seqs[i]]
    <2>1. FlattenSeq(seqs) = v[N]
        BY <1>1, <1>7
    <2>2. 1 \in 1..N /\ f[1] = seqs[1]
        <3>1. 1 \in 1..N /\ 1 - 1 = 0
            BY <1>0, <1>7
        <3>2. f[1] = << >> \o seqs[1]
            BY <1>4, <1>5, <3>1
        <3> QED
            BY <1>0, <1>00, <3>1, <3>2
    <2>3. h = [i \in 1..N |-> IF i = 1 THEN seqs[i] ELSE h[i - 1] \o seqs[i]]
        <3>1. \A i \in 1..N : h[i] = IF i = 1 THEN seqs[i] ELSE h[i - 1] \o seqs[i]
            <4> TAKE i \in 1..N
            <4>1. CASE i = 1
                BY <2>2, <4>1
            <4>2. CASE i # 1
                <5>1. i - 1 \in 1..N
                    BY <1>0, <4>2
                <5>2. h[i] = f[i] /\ h[i - 1] = f[i - 1] /\ f[i] = f[i - 1] \o seqs[i]
                    BY <1>5, <5>1
                <5> QED
                    BY <4>2, <5>2, Zenon
            <4> QED
                BY <4>1, <4>2
        <3> HIDE DEF h
        <3>2. h = [i \in 1..N |-> h[i]]
            BY DEF h
        <3> QED
            BY <3>1, <3>2
    <2> HIDE DEF h
    <2>4. v = [i \in 1..N |-> IF i = 1 THEN seqs[i] ELSE v[i - 1] \o seqs[i]]
        BY <2>3
    <2> HIDE DEF v
    <2>5. \A i \in 1..N : v[i] = IF i = 1 THEN seqs[i] ELSE v[i - 1] \o seqs[i]
        BY <2>4
    <2> DEFINE Q == {n \in Nat : n + 1 <= N => v[n + 1] = f[n + 1]}
    <2>6. 0 \in Q
        BY <1>0, <2>2, <2>5
    <2>7. ASSUME NEW n \in Nat, n \in Q PROVE n + 1 \in Q
        <3> SUFFICES ASSUME n + 2 <= N PROVE v[n + 2] = f[n + 2]
            BY DEF Q
        <3>1. n + 2 \in 1..N /\ n + 2 # 1 /\ (n + 2) - 1 = n + 1 /\ n + 1 <= N
            BY <1>0
        <3>2. v[n + 2] = v[n + 1] \o seqs[n + 2] /\ f[n + 2] = f[n + 1] \o seqs[n + 2]
            BY <1>5, <2>5, <3>1
        <3> QED
            BY <2>7, <3>1, <3>2
    <2> HIDE DEF Q
    <2>8. Nat \subseteq Q
        BY <2>6, <2>7, Induction, Zenon
    <2>9. v[N] = f[N]
        <3>1. N - 1 \in Nat /\ (N - 1) + 1 = N
            BY <1>0, <1>7
        <3> QED
            BY <2>8, <3>1 DEF Q
    <2> QED
        BY <1>4, <1>5, <2>1, <2>9 DEF N
<1> QED
    BY <1>6, <1>7

\* Sums of lengths.
LEMMA Lengths ==
    \A a, b \in Nat : \A i \in 1..b :
        a + i \in 1..a + b /\ ~(a + i <= a) /\ (a + i) - a = i
    OBVIOUS

Lies(all, seqs, pos) ==
    /\ pos \in [0..Len(seqs) -> Nat] /\ pos[0] = 0 /\ pos[Len(seqs)] = Len(all)
    /\ \A k \in 1..Len(seqs) :
          /\ pos[k] = pos[k - 1] + Len(seqs[k])
          /\ \A i \in 1..Len(seqs[k]) : all[pos[k - 1] + i] = seqs[k][i]

\* Each lies where the ones before it end.
LEMMA Laid ==
    ASSUME NEW D, NEW seqs \in Seq(Seq(D))
    PROVE  FlattenSeq(seqs) \in Seq(D) /\ \E pos : Lies(FlattenSeq(seqs), seqs, pos)
<1> DEFINE N == Len(seqs)
<1>0. N \in Nat /\ \A i \in 1..N : seqs[i] \in Seq(D) /\ Len(seqs[i]) \in Nat
    OBVIOUS
<1> HIDE DEF N
<1>1. PICK f \in [0..N -> Seq(D)] :
              /\ f[0] = << >> /\ FlattenSeq(seqs) = f[N]
              /\ \A i \in 1..N : f[i] = f[i - 1] \o seqs[i]
    BY Flattened DEF N
<1>2. \A k \in 0..N : f[k] \in Seq(D) /\ Len(f[k]) \in Nat
    BY <1>1
<1>3. ASSUME NEW k \in 1..N
      PROVE  /\ Len(f[k]) = Len(f[k - 1]) + Len(seqs[k])
             /\ \A i \in 1..Len(f[k]) :
                   f[k][i] = IF i <= Len(f[k - 1]) THEN f[k - 1][i] ELSE seqs[k][i - Len(f[k - 1])]
    <2>1. k - 1 \in 0..N
        BY <1>0
    <2>2. f[k] = f[k - 1] \o seqs[k] /\ f[k - 1] \in Seq(D) /\ seqs[k] \in Seq(D)
        BY <1>0, <1>1, <1>2, <2>1, Zenon
    <2> DEFINE t == f[k - 1]
    <2> DEFINE w == seqs[k]
    <2> HIDE DEF t, w
    <2>3. t \in Seq(D) /\ w \in Seq(D) /\ f[k] = t \o w
        BY <2>2 DEF t, w
    <2>4. /\ Len(t \o w) = Len(t) + Len(w)
          /\ \A i \in 1..Len(t) + Len(w) :
                (t \o w)[i] = IF i <= Len(t) THEN t[i] ELSE w[i - Len(t)]
        BY <2>3, ConcatProperties, Zenon
    <2> QED
        BY <2>3, <2>4, Zenon DEF t, w
<1> DEFINE S == {d \in Nat : \A k \in 0..N : k + d <= N =>
                    Len(f[k]) <= Len(f[k + d]) /\ \A i \in 1..Len(f[k]) : f[k + d][i] = f[k][i]}
<1>4. 0 \in S
    BY <1>0, <1>2
<1>5. ASSUME NEW d \in Nat, d \in S PROVE d + 1 \in S
    <2> SUFFICES ASSUME NEW k \in 0..N, k + (d + 1) <= N
                 PROVE  /\ Len(f[k]) <= Len(f[k + (d + 1)])
                        /\ \A i \in 1..Len(f[k]) : f[k + (d + 1)][i] = f[k][i]
        OBVIOUS
    <2> DEFINE j == k + d + 1
    <2>1. j \in 1..N /\ j - 1 = k + d /\ k + (d + 1) = j
        BY <1>0
    <2>2. Len(f[k]) <= Len(f[k + d]) /\ \A i \in 1..Len(f[k]) : f[k + d][i] = f[k][i]
        BY <1>0, <1>5
    <2>22. Len(f[k]) <= Len(f[j - 1]) /\ \A i \in 1..Len(f[k]) : f[j - 1][i] = f[k][i]
        BY <2>1, <2>2, Zenon
    <2> HIDE DEF j
    <2>3. Len(f[j]) = Len(f[j - 1]) + Len(seqs[j])
        BY <1>3, <2>1
    <2>4. Len(seqs[j]) \in Nat /\ Len(f[j - 1]) \in Nat /\ Len(f[k]) \in Nat
        BY <1>0, <1>2, <2>1
    <2> DEFINE a == Len(f[k])
    <2> DEFINE b == Len(f[j - 1])
    <2> DEFINE c == Len(seqs[j])
    <2>5. a \in Nat /\ b \in Nat /\ c \in Nat /\ a <= b /\ Len(f[j]) = b + c
        BY <2>22, <2>3, <2>4
    <2> HIDE DEF a, b, c
    <2>6. a <= Len(f[j]) /\ \A i \in 1..a : i \in 1..Len(f[j]) /\ i <= b
        BY <2>5
    <2>7. ASSUME NEW i \in 1..Len(f[k]) PROVE f[j][i] = f[k][i]
        <3>1. i \in 1..Len(f[j]) /\ i <= Len(f[j - 1])
            BY <2>6 DEF a, b
        <3>2. f[j][i] = f[j - 1][i]
            BY <1>3, <2>1, <3>1
        <3> QED
            BY <2>22, <3>2
    <2> QED
        BY <2>1, <2>6, <2>7 DEF a
<1> HIDE DEF S
<1>6. \A d \in Nat : d \in S
    BY <1>4, <1>5, Induction
<1>7. ASSUME NEW k \in 0..N PROVE \A i \in 1..Len(f[k]) : f[N][i] = f[k][i]
    <2>1. N - k \in S /\ k + (N - k) = N
        BY <1>0, <1>6
    <2> QED
        BY <1>0, <2>1 DEF S
<1> DEFINE pos == [k \in 0..N |-> Len(f[k])]
<1>8. pos \in [0..N -> Nat] /\ pos[0] = 0 /\ pos[N] = Len(FlattenSeq(seqs))
    BY <1>0, <1>1, <1>2
<1>9. ASSUME NEW k \in 1..N
      PROVE  /\ pos[k] = pos[k - 1] + Len(seqs[k])
             /\ \A i \in 1..Len(seqs[k]) : FlattenSeq(seqs)[pos[k - 1] + i] = seqs[k][i]
    <2>1. pos[k] = Len(f[k]) /\ pos[k - 1] = Len(f[k - 1])
        BY <1>0
    <2>2. Len(f[k]) = Len(f[k - 1]) + Len(seqs[k]) /\ Len(f[k - 1]) \in Nat /\ Len(seqs[k]) \in Nat
        <3>1. k \in 0..N /\ k - 1 \in 0..N
            BY <1>0
        <3> QED
            BY <1>0, <1>2, <1>3, <3>1, Zenon
    <2>3. ASSUME NEW i \in 1..Len(seqs[k]) PROVE f[N][Len(f[k - 1]) + i] = seqs[k][i]
        <3>1. f[N][Len(f[k - 1]) + i] = f[k][Len(f[k - 1]) + i]
            <4>1. Len(f[k - 1]) + i \in 1..Len(f[k])
                BY <2>2, Lengths, Zenon
            <4>2. k \in 0..N
                BY <1>0
            <4> QED
                BY <1>7, <4>1, <4>2
        <3>2. f[k][Len(f[k - 1]) + i] = seqs[k][i]
            <4>1. /\ Len(f[k - 1]) + i \in 1..Len(f[k]) /\ ~(Len(f[k - 1]) + i <= Len(f[k - 1]))
                  /\ (Len(f[k - 1]) + i) - Len(f[k - 1]) = i
                BY <2>2, Lengths, Zenon
            <4> QED
                BY <1>3, <4>1
        <3> QED
            BY <3>1, <3>2
    <2> QED
        BY <1>1, <2>1, <2>2, <2>3
<1>10. FlattenSeq(seqs) \in Seq(D)
    BY <1>0, <1>1, <1>2
<1> HIDE DEF pos
<1> QED
    BY <1>8, <1>9, <1>10 DEF N, Lies

\* The number that four bytes spell.
LEMMA Spell4 ==
    ASSUME NEW data, NEW i \in Nat, \A j \in 0..3 : ByteAt(data, i + j) \in Int
    PROVE  Spelled(data, i, 4) = ((ByteAt(data, i) * 256 + ByteAt(data, i + 1)) * 256
                                    + ByteAt(data, i + 2)) * 256 + ByteAt(data, i + 3)
<1> DEFINE b(j) == ByteAt(data, i + j - 1)
<1> DEFINE v == CHOOSE w : w = [j \in 0..4 |-> IF j = 0 THEN 0 ELSE w[j - 1] * 256 + b(j)]
<1> DEFINE h == [j \in 0..4 |-> CASE j = 0 -> 0 [] j = 1 -> b(1) [] j = 2 -> b(1) * 256 + b(2)
                   [] j = 3 -> (b(1) * 256 + b(2)) * 256 + b(3)
                   [] j = 4 -> ((b(1) * 256 + b(2)) * 256 + b(3)) * 256 + b(4)]
<1>1. Spelled(data, i, 4) = v[4]
    BY DEF Spelled, SpelledAfter
<1>2. /\ b(1) \in Int /\ b(2) \in Int /\ b(3) \in Int /\ b(4) \in Int
      /\ i + 1 - 1 = i /\ i + 2 - 1 = i + 1 /\ i + 3 - 1 = i + 2 /\ i + 4 - 1 = i + 3
    <2>1. /\ i + 0 = i /\ i + 1 - 1 = i /\ i + 2 - 1 = i + 1 /\ i + 3 - 1 = i + 2
          /\ i + 4 - 1 = i + 3
        OBVIOUS
    <2>2. /\ ByteAt(data, i + 0) \in Int /\ ByteAt(data, i + 1) \in Int
          /\ ByteAt(data, i + 2) \in Int /\ ByteAt(data, i + 3) \in Int
        OBVIOUS
    <2> QED
        BY <2>1, <2>2, SMT
<1> HIDE DEF b
<1>3. h = [j \in 0..4 |-> IF j = 0 THEN 0 ELSE h[j - 1] * 256 + b(j)]
    BY <1>2, SMT
<1> HIDE DEF h
<1>4. v = [j \in 0..4 |-> IF j = 0 THEN 0 ELSE v[j - 1] * 256 + b(j)]
    BY <1>3
<1> HIDE DEF v
<1>5. v[4] = ((b(1) * 256 + b(2)) * 256 + b(3)) * 256 + b(4)
    BY <1>2, <1>4
<1> QED
    BY <1>1, <1>2, <1>5, SMT DEF b

-----------------------------------------------------------------------------
(* The bytes of a stream.                                                   *)

Byte  == 0..255
Sends == {s \in [id : 9..122, size : Nat \ 0..2, out : Nat] : s.out <= FrameSize(s)}

\* What a write gets out, byte by byte.
Out(s)          == IF Writes(s.size) THEN s.out ELSE 0
FrameByte(s, i) == IF i <= 4 THEN Shifted(s.size, 4 - i) % 256 ELSE Text(s)[i - 4]

\* The fields of a write.
LEMMA SendType ==
    ASSUME NEW s \in Sends
    PROVE  /\ s.id \in 9..122 /\ s.size \in Nat /\ s.size > 2 /\ s.out \in Nat
           /\ s.out <= 4 + s.size /\ FrameSize(s) = 4 + s.size
           /\ Out(s) \in Nat /\ Out(s) <= 4 + s.size
           /\ Writes(s.size) => s.size <= 33554432
    BY FrameAssumption DEF Sends, FrameSize, Out, Writes, FrameAssumption

\* The text of a message: braces, and ids between them.
LEMMA TextIs ==
    ASSUME NEW s \in Sends
    PROVE  /\ Text(s) \in Seq(Byte) /\ Len(Text(s)) = s.size
           /\ Text(s)[1] = 123 /\ Text(s)[s.size] = 125
           /\ \A i \in 2..s.size - 1 : Text(s)[i] = s.id
<1>1. s.size \in Nat /\ s.size > 2 /\ s.id \in 9..122
    BY SendType
<1>2. Text(s) \in [1..s.size -> Byte]
    BY <1>1 DEF Text, Byte
<1>3. Text(s) \in Seq(Byte) /\ Len(Text(s)) = s.size
    BY <1>1, <1>2
<1>4. \A i \in 1..s.size : Text(s)[i] = IF i = 1 THEN 123 ELSE IF i = s.size THEN 125 ELSE s.id
    BY <1>1 DEF Text
<1> QED
    BY <1>1, <1>3, <1>4

\* A length goes out in four bytes, the first of which is small.
LEMMA LengthBytes ==
    ASSUME NEW s \in Sends
    PROVE  /\ \A i \in 1..4 : FrameByte(s, i) \in Byte
           /\ FrameByte(s, 5) = 123
           /\ Writes(s.size) =>
                 /\ FrameByte(s, 1) \in 0..2
                 /\ ((FrameByte(s, 1) * 256 + FrameByte(s, 2)) * 256 + FrameByte(s, 3)) * 256
                       + FrameByte(s, 4) = s.size
<1>1. s.size \in Nat /\ (Writes(s.size) => s.size <= 33554432) /\ Text(s)[1] = 123
    BY SendType, TextIs
<1>2. /\ FrameByte(s, 1) = (s.size \div 16777216) % 256
      /\ FrameByte(s, 2) = (s.size \div 65536) % 256
      /\ FrameByte(s, 3) = (s.size \div 256) % 256
      /\ FrameByte(s, 4) = (s.size \div 1) % 256
    <2>1. /\ FrameByte(s, 1) = Shifted(s.size, 3) % 256 /\ FrameByte(s, 2) = Shifted(s.size, 2) % 256
          /\ FrameByte(s, 3) = Shifted(s.size, 1) % 256 /\ FrameByte(s, 4) = Shifted(s.size, 0) % 256
        BY SMT DEF FrameByte
    <2>2. s.size \in Int
        BY <1>1
    <2>3. /\ Shifted(s.size, 0) = s.size /\ Shifted(s.size, 1) = s.size \div 256
          /\ Shifted(s.size, 2) = (s.size \div 256) \div 256
          /\ Shifted(s.size, 3) = ((s.size \div 256) \div 256) \div 256
        BY <2>2, ShiftedFew
    <2>4. \A n \in Nat : /\ ((n \div 256) \div 256) \div 256 = n \div 16777216
                         /\ (n \div 256) \div 256 = n \div 65536 /\ n \div 1 = n
        OBVIOUS
    <2> QED
        BY <1>1, <2>1, <2>3, <2>4, SMT
<1>3. FrameByte(s, 5) = 123
    BY <1>1, SMT DEF FrameByte
<1>4. \A i \in 1..4 : i = 1 \/ i = 2 \/ i = 3 \/ i = 4
    OBVIOUS
<1>5. \A n \in Nat : n <= 33554432 =>
         /\ (n \div 16777216) % 256 \in 0..2
         /\ ((((n \div 16777216) % 256) * 256 + ((n \div 65536) % 256)) * 256
                + ((n \div 256) % 256)) * 256 + ((n \div 1) % 256) = n
    BY SMT
<1>6. \A n \in Nat : /\ (n \div 16777216) % 256 \in Byte /\ (n \div 65536) % 256 \in Byte
                     /\ (n \div 256) % 256 \in Byte /\ (n \div 1) % 256 \in Byte
    BY SMT DEF Byte
<1> QED
    BY <1>1, <1>2, <1>3, <1>4, <1>5, <1>6, SMT

\* WriteMessage puts out a part of a frame.
LEMMA Written ==
    ASSUME NEW s \in Sends
    PROVE  /\ WriteMessage(s) \in Seq(Byte) /\ Len(WriteMessage(s)) = Out(s)
           /\ \A i \in 1..Out(s) : WriteMessage(s)[i] = FrameByte(s, i)
<1>1. CASE ~Writes(s.size)
    BY <1>1 DEF WriteMessage, Out
<1>2. CASE Writes(s.size)
    <2> DEFINE h == Spelling(s.size, 4)
    <2> DEFINE t == Text(s)
    <2>1. s.size \in Nat /\ s.out \in Nat /\ s.out <= 4 + s.size /\ Out(s) = s.out
        BY <1>2, SendType DEF Out
    <2>2. h \in [1..4 -> Byte] /\ \A i \in 1..4 : h[i] = FrameByte(s, i)
        <3>1. \A i \in 1..4 : h[i] = FrameByte(s, i)
            BY DEF Spelling, FrameByte
        <3>2. h = [i \in 1..4 |-> h[i]]
            BY DEF Spelling
        <3> QED
            BY <3>1, <3>2, LengthBytes
    <2>3. h \in Seq(Byte) /\ Len(h) = 4
        BY <2>2, SMTT(30)
    <2>4. t \in Seq(Byte) /\ Len(t) = s.size
        BY TextIs
    <2>5. \A i \in 5..4 + s.size : t[i - 4] = FrameByte(s, i)
        BY DEF FrameByte
    <2>6. WriteMessage(s) = SubSeq(h \o t, 1, s.out)
        BY <1>2 DEF WriteMessage
    <2> HIDE DEF h, t
    <2>7. /\ h \o t \in Seq(Byte) /\ Len(h \o t) = 4 + s.size
          /\ \A i \in 1..4 + s.size : (h \o t)[i] = FrameByte(s, i)
        <3>1. /\ h \o t \in Seq(Byte) /\ Len(h \o t) = 4 + s.size
              /\ \A i \in 1..4 + s.size : (h \o t)[i] = IF i <= 4 THEN h[i] ELSE t[i - 4]
            <4>1. /\ h \o t \in Seq(Byte) /\ Len(h \o t) = Len(h) + Len(t)
                  /\ \A i \in 1..Len(h) + Len(t) : (h \o t)[i] = IF i <= Len(h) THEN h[i] ELSE t[i - Len(h)]
                BY <2>3, <2>4, ConcatProperties, Zenon
            <4> QED
                BY <2>3, <2>4, <4>1, Zenon
        <3> QED
            BY <2>1, <2>2, <2>5, <3>1
    <2> DEFINE w == h \o t
    <2>8. w \in Seq(Byte) /\ Len(w) = 4 + s.size /\ \A i \in 1..4 + s.size : w[i] = FrameByte(s, i)
        BY <2>7
    <2> HIDE DEF w
    <2>9. \A i \in 1..s.out : w[i] \in Byte /\ w[i] = FrameByte(s, i)
        BY <2>1, <2>8
    <2>10. /\ SubSeq(w, 1, s.out) \in Seq(Byte) /\ Len(SubSeq(w, 1, s.out)) = s.out
           /\ \A i \in 1..s.out : SubSeq(w, 1, s.out)[i] = w[i]
        BY <2>1, <2>9, SubSeqProperties
    <2> QED
        BY <2>1, <2>6, <2>9, <2>10 DEF w
<1> QED
    BY <1>1, <1>2

\* Where the writes of a stream lie in it.
Layout(data, sends, pos) ==
    /\ data \in Seq(Byte) /\ pos \in [0..Len(sends) -> Nat]
    /\ pos[0] = 0 /\ pos[Len(sends)] = Len(data)
    /\ \A k \in 1..Len(sends) :
          /\ pos[k] = pos[k - 1] + Out(sends[k])
          /\ \A i \in 1..Out(sends[k]) : data[pos[k - 1] + i] = FrameByte(sends[k], i)

\* A stream is its writes, one behind the other.
LEMMA StreamLaid ==
    ASSUME NEW sends \in Seq(Sends)
    PROVE  \E pos : Layout(Stream(sends), sends, pos)
<1> DEFINE N == Len(sends)
<1> DEFINE seqs == [k \in DOMAIN sends |-> WriteMessage(sends[k])]
<1>1. N \in Nat /\ DOMAIN sends = 1..N /\ \A k \in 1..N : sends[k] \in Sends
    OBVIOUS
<1>2. seqs = [k \in 1..N |-> WriteMessage(sends[k])]
    BY <1>1
<1>3. \A k \in 1..N : /\ seqs[k] \in Seq(Byte) /\ Len(seqs[k]) = Out(sends[k])
                      /\ \A i \in 1..Out(sends[k]) : seqs[k][i] = FrameByte(sends[k], i)
    BY <1>1, <1>2, Written
<1>4. Stream(sends) = FlattenSeq(seqs)
    BY DEF Stream
<1> HIDE DEF N
<1>5. seqs \in [1..N -> Seq(Byte)]
    BY <1>2, <1>3
<1> HIDE DEF seqs
<1>6. seqs \in Seq(Seq(Byte)) /\ Len(seqs) = N
    BY <1>1, <1>5
<1>7. FlattenSeq(seqs) \in Seq(Byte) /\ \E pos : Lies(FlattenSeq(seqs), seqs, pos)
    BY <1>6, Laid, Zenon
<1>8. PICK pos : Lies(FlattenSeq(seqs), seqs, pos)
    BY <1>7
<1>9. /\ pos \in [0..N -> Nat] /\ pos[0] = 0 /\ pos[N] = Len(FlattenSeq(seqs))
      /\ \A k \in 1..N :
            /\ pos[k] = pos[k - 1] + Out(sends[k])
            /\ \A i \in 1..Out(sends[k]) : FlattenSeq(seqs)[pos[k - 1] + i] = FrameByte(sends[k], i)
    <2>1. /\ pos \in [0..N -> Nat] /\ pos[0] = 0 /\ pos[N] = Len(FlattenSeq(seqs))
          /\ \A k \in 1..N :
                /\ pos[k] = pos[k - 1] + Len(seqs[k])
                /\ \A i \in 1..Len(seqs[k]) : FlattenSeq(seqs)[pos[k - 1] + i] = seqs[k][i]
        BY <1>6, <1>8 DEF Lies
    <2>2. ASSUME NEW k \in 1..N
          PROVE  /\ pos[k] = pos[k - 1] + Out(sends[k])
                 /\ \A i \in 1..Out(sends[k]) : FlattenSeq(seqs)[pos[k - 1] + i] = FrameByte(sends[k], i)
        BY <1>3, <2>1, Zenon
    <2> QED
        BY <2>1, <2>2
<1>10. Layout(Stream(sends), sends, pos)
    BY <1>4, <1>7, <1>9, Zenon DEF Layout, N
<1> QED
    BY <1>10

\* Later writes lie further on.
LEMMA Ordered ==
    ASSUME NEW data, NEW sends \in Seq(Sends), NEW pos, Layout(data, sends, pos)
    PROVE  \A j, k \in 0..Len(sends) : j <= k => pos[j] <= pos[k]
<1> DEFINE N == Len(sends)
<1>1. N \in Nat /\ \A k \in 1..N : Out(sends[k]) \in Nat
    BY SendType
<1>2. pos \in [0..N -> Nat] /\ \A k \in 1..N : pos[k] = pos[k - 1] + Out(sends[k])
    BY DEF Layout
<1> HIDE DEF N
<1>3. \A k \in 1..N : pos[k - 1] <= pos[k]
    <2> TAKE k \in 1..N
    <2>1. k - 1 \in 0..N
        BY <1>1
    <2> QED
        BY <1>1, <1>2, <2>1
<1> DEFINE S == {d \in Nat : \A j \in 0..N : j + d <= N => pos[j] <= pos[j + d]}
<1>4. 0 \in S
    BY <1>1, <1>2
<1>5. ASSUME NEW d \in Nat, d \in S PROVE d + 1 \in S
    <2> SUFFICES ASSUME NEW j \in 0..N, j + (d + 1) <= N PROVE pos[j] <= pos[j + (d + 1)]
        BY DEF S
    <2>1. pos[j] <= pos[j + d]
        BY <1>1, <1>5
    <2>2. j + (d + 1) \in 1..N /\ (j + (d + 1)) - 1 = j + d /\ j + d \in 0..N
        BY <1>1
    <2>3. pos[j + d] <= pos[j + (d + 1)]
        BY <1>3, <2>2
    <2> QED
        BY <1>2, <2>1, <2>2, <2>3
<1> HIDE DEF S
<1>6. Nat \subseteq S
    BY <1>4, <1>5, Induction, Zenon
<1>7. ASSUME NEW j \in 0..N, NEW k \in 0..N, j <= k PROVE pos[j] <= pos[k]
    <2>1. k - j \in Nat /\ j + (k - j) = k
        BY <1>1, <1>7
    <2> QED
        <3>1. k - j \in S
            BY <1>6, <2>1
        <3>2. \A i \in 0..N : i + (k - j) <= N => pos[i] <= pos[i + (k - j)]
            BY <3>1 DEF S
        <3>3. j + (k - j) <= N
            BY <1>1, <2>1
        <3> QED
            BY <2>1, <3>2, <3>3
<1> QED
    BY <1>7 DEF N

\* Every byte is one of a write's.
LEMMA WriteOf ==
    ASSUME NEW data, NEW sends \in Seq(Sends), NEW pos, Layout(data, sends, pos), NEW i \in 1..Len(data)
    PROVE  \E k \in 1..Len(sends) : i - pos[k - 1] \in 1..Out(sends[k])
<1> DEFINE N == Len(sends)
<1>1. N \in Nat /\ Len(data) \in Nat /\ \A k \in 1..N : Out(sends[k]) \in Nat
    BY SendType DEF Layout
<1>2. /\ pos \in [0..N -> Nat] /\ pos[0] = 0 /\ pos[N] = Len(data)
      /\ \A k \in 1..N : pos[k] = pos[k - 1] + Out(sends[k])
    BY DEF Layout
<1> HIDE DEF N
<1> DEFINE T == {k \in 0..N : i <= pos[k]}
<1>3. PICK k \in T : \A j \in T : k <= j
    <2>1. N \in T /\ T \in SUBSET Nat
        BY <1>1, <1>2
    <2> HIDE DEF T
    <2> QED
        BY <2>1, NatMin
<1>4. k \in 1..N /\ k - 1 \in 0..N /\ k - 1 \notin T
    BY <1>1, <1>2, <1>3
<1>5. pos[k - 1] \in Nat /\ pos[k] = pos[k - 1] + Out(sends[k]) /\ Out(sends[k]) \in Nat
    BY <1>1, <1>2, <1>4
<1>6. i <= pos[k] /\ ~(i <= pos[k - 1])
    BY <1>3, <1>4
<1>7. i - pos[k - 1] \in 1..Out(sends[k])
    BY <1>1, <1>5, <1>6
<1> QED
    BY <1>4, <1>7 DEF N

\* Behind a write comes a length.
LEMMA AfterWrite ==
    ASSUME NEW data, NEW sends \in Seq(Sends), NEW pos, Layout(data, sends, pos),
           NEW k \in 0..Len(sends), pos[k] < Len(data)
    PROVE  data[pos[k] + 1] \in 0..2
<1> DEFINE N == Len(sends)
<1>1. N \in Nat /\ Len(data) \in Nat /\ \A j \in 1..N : sends[j] \in Sends /\ Out(sends[j]) \in Nat
    BY SendType DEF Layout
<1>2. /\ pos \in [0..N -> Nat]
      /\ \A j \in 1..N : /\ pos[j] = pos[j - 1] + Out(sends[j])
                         /\ \A i \in 1..Out(sends[j]) : data[pos[j - 1] + i] = FrameByte(sends[j], i)
    BY DEF Layout
<1>3. \A i, j \in 0..N : i <= j => pos[i] <= pos[j]
    BY Ordered
<1>4. pos[k] + 1 \in 1..Len(data)
    BY <1>1, <1>2
<1>5. PICK j \in 1..N : (pos[k] + 1) - pos[j - 1] \in 1..Out(sends[j])
    BY <1>4, WriteOf
<1> HIDE DEF N
<1>6. j - 1 \in 0..N /\ j \in 0..N /\ pos[j - 1] \in Nat /\ pos[j] \in Nat /\ pos[k] \in Nat
    <2>1. j \in 1..N /\ k \in 0..N
        BY DEF N
    <2> QED
        BY <1>1, <1>2, <2>1
<1>7. ~(j <= k)
    <2> SUFFICES ASSUME j <= k PROVE FALSE
        OBVIOUS
    <2>1. pos[j] <= pos[k]
        BY <1>3, <1>6 DEF N
    <2>2. pos[j] = pos[j - 1] + Out(sends[j]) /\ Out(sends[j]) \in Nat
        BY <1>1, <1>2
    <2> QED
        BY <1>5, <1>6, <2>1, <2>2
<1>8. pos[k] <= pos[j - 1]
    <2>1. k <= j - 1 /\ k \in 0..N
        BY <1>1, <1>7 DEF N
    <2> QED
        BY <1>3, <1>6, <2>1
<1>9. pos[j - 1] + 1 = pos[k] + 1 /\ 1 \in 1..Out(sends[j])
    BY <1>1, <1>5, <1>6, <1>8
<1>10. data[pos[k] + 1] = FrameByte(sends[j], 1)
    BY <1>2, <1>9
<1>11. Writes(sends[j].size)
    BY <1>9 DEF Out
<1> QED
    BY <1>1, <1>10, <1>11, LengthBytes

\* The byte behind one of a write's is its next one, or of a length.
LEMMA NextByte ==
    ASSUME NEW data, NEW sends \in Seq(Sends), NEW pos, Layout(data, sends, pos),
           NEW k \in 1..Len(sends), NEW o \in 1..Out(sends[k]), pos[k - 1] + o < Len(data)
    PROVE  \/ o + 1 \in 1..Out(sends[k]) /\ data[pos[k - 1] + o + 1] = FrameByte(sends[k], o + 1)
           \/ data[pos[k - 1] + o + 1] \in 0..2
<1>1. Out(sends[k]) \in Nat /\ sends[k] \in Sends
    BY SendType
<1>2. k \in 0..Len(sends) /\ k - 1 \in 0..Len(sends)
    OBVIOUS
<1>3. pos[k - 1] \in Nat
    BY <1>2 DEF Layout
<1>4. CASE o < Out(sends[k])
    <2>1. o + 1 \in 1..Out(sends[k]) /\ pos[k - 1] + o + 1 = pos[k - 1] + (o + 1)
        BY <1>1, <1>3, <1>4
    <2>2. data[pos[k - 1] + (o + 1)] = FrameByte(sends[k], o + 1)
        BY <2>1 DEF Layout
    <2> QED
        BY <2>1, <2>2
<1>5. CASE o = Out(sends[k])
    <2>1. pos[k] = pos[k - 1] + o
        BY <1>5 DEF Layout
    <2> QED
        BY <1>2, <2>1, AfterWrite
<1> QED
    BY <1>1, <1>4, <1>5

-----------------------------------------------------------------------------
(* What ReadMessage makes of a write.                                       *)

\* Four bytes of a stream spell a length.
LEMMA SpelledAt ==
    ASSUME NEW data \in Seq(Byte), NEW p \in Nat, Has(data, p, 4)
    PROVE  /\ data[p + 1] \in Byte /\ data[p + 2] \in Byte /\ data[p + 3] \in Byte /\ data[p + 4] \in Byte
           /\ Spelled(data, p, 4) = ((data[p + 1] * 256 + data[p + 2]) * 256 + data[p + 3]) * 256 + data[p + 4]
           /\ Spelled(data, p, 4) \in Nat
<1>1. p + 4 <= Len(data)
    BY DEF Has
<1>2. DOMAIN data = 1..Len(data) /\ Len(data) \in Nat /\ \A i \in 1..Len(data) : data[i] \in Byte
    OBVIOUS
<1>3. \A j \in 0..3 : p + j + 1 \in 1..Len(data)
    BY <1>1, <1>2
<1>4. \A j \in 0..3 : ByteAt(data, p + j) = data[p + j + 1] /\ data[p + j + 1] \in Byte
    BY <1>2, <1>3 DEF ByteAt
<1>5. /\ p + 0 = p /\ p + 0 + 1 = p + 1 /\ p + 1 + 1 = p + 2 /\ p + 2 + 1 = p + 3 /\ p + 3 + 1 = p + 4
    OBVIOUS
<1>6. /\ ByteAt(data, p) = data[p + 1] /\ data[p + 1] \in Byte
      /\ ByteAt(data, p + 1) = data[p + 2] /\ data[p + 2] \in Byte
      /\ ByteAt(data, p + 2) = data[p + 3] /\ data[p + 3] \in Byte
      /\ ByteAt(data, p + 3) = data[p + 4] /\ data[p + 4] \in Byte
    <2>1. 0 \in 0..3 /\ 1 \in 0..3 /\ 2 \in 0..3 /\ 3 \in 0..3
        OBVIOUS
    <2> QED
        BY <1>4, <1>5, <2>1, Zenon
<1>7. \A j \in 0..3 : ByteAt(data, p + j) \in Int
    <2>1. \A b \in Byte : b \in Int
        BY DEF Byte
    <2> QED
        BY <1>4, <2>1, Zenon
<1>8. Spelled(data, p, 4) = ((data[p + 1] * 256 + data[p + 2]) * 256 + data[p + 3]) * 256 + data[p + 4]
    BY <1>6, <1>7, Spell4, ZenonT(60)
<1>9. Spelled(data, p, 4) \in Nat
    <2> DEFINE a == data[p + 1]
    <2> DEFINE b == data[p + 2]
    <2> DEFINE c == data[p + 3]
    <2> DEFINE d == data[p + 4]
    <2>1. a \in Byte /\ b \in Byte /\ c \in Byte /\ d \in Byte
        BY <1>6
    <2> HIDE DEF a, b, c, d
    <2>2. ((a * 256 + b) * 256 + c) * 256 + d \in Nat
        BY <2>1 DEF Byte
    <2> QED
        BY <1>8, <2>2 DEF a, b, c, d
<1> QED
    BY <1>6, <1>8, <1>9, Zenon

\* A text that is read is whole.
LEMMA ReadIs ==
    ASSUME NEW data \in Seq(Byte), NEW p \in Nat, ReadMessage(data, p) # << >>
    PROVE  \E n \in Nat :
              /\ n = Spelled(data, p, 4) /\ Has(data, p, 4) /\ n > 2 /\ p + 4 + n <= Len(data)
              /\ ReadMessage(data, p) \in Seq(Byte) /\ Len(ReadMessage(data, p)) = n
              /\ data[p + 5] = 123 /\ data[p + 4 + n] = 125
              /\ \A i \in 2..n - 1 : data[p + 4 + i] \in 9..122
<1> DEFINE n == Spelled(data, p, 4)
<1> DEFINE t == Slice(data, p + 4, n)
<1>1. ReadMessage(data, p) = t /\ Has(data, p, 4) /\ Takes(n) /\ Has(data, p + 4, n) /\ IsMessage(t)
    BY DEF ReadMessage
<1>2. n \in Nat
    BY <1>1, SpelledAt
<1>3. t = SubSeq(data, p + 5, p + 4 + n)
    BY <1>2 DEF Slice
<1> HIDE DEF n
<1>4. n # 0 /\ p + 4 + n <= Len(data)
    BY <1>1, <1>2 DEF Takes, Has
<1>5. \A i \in p + 5..p + 4 + n : data[i] \in Byte
    BY <1>2, <1>4
<1> DEFINE a == p + 5
<1> DEFINE b == p + 4 + n
<1>6. a \in Int /\ b \in Int /\ a <= b /\ b - a + 1 = n
    BY <1>2, <1>4
<1> HIDE DEF a, b
<1>7. /\ SubSeq(data, a, b) \in Seq(Byte) /\ Len(SubSeq(data, a, b)) = n
      /\ \A i \in 1..n : SubSeq(data, a, b)[i] = data[a + i - 1]
    BY <1>5, <1>6, SubSeqProperties DEF a, b
<1>8. t \in Seq(Byte) /\ Len(t) = n /\ \A i \in 1..n : t[i] = data[p + 5 + i - 1]
    BY <1>3, <1>7, Zenon DEF a, b
<1>9. \A i \in 1..n : p + 5 + i - 1 = p + 4 + i
    BY <1>2
<1> HIDE DEF t
<1>10. \A i \in 1..n : t[i] = data[p + 4 + i]
    BY <1>8, <1>9
<1>11. n > 2 /\ t[1] = 123 /\ t[n] = 125 /\ \A i \in 2..n - 1 : t[i] \in 9..122
    BY <1>1, <1>8 DEF IsMessage
<1>12. data[p + 4 + 1] = 123 /\ data[p + 4 + n] = 125 /\ \A i \in 2..n - 1 : data[p + 4 + i] \in 9..122
    <2>1. 1 \in 1..n /\ n \in 1..n /\ \A i \in 2..n - 1 : i \in 1..n
        BY <1>2, <1>11
    <2>2. ASSUME NEW i \in 2..n - 1 PROVE data[p + 4 + i] \in 9..122
        BY <1>10, <1>11, <2>1, ZenonT(60)
    <2>3. data[p + 4 + 1] = 123
        BY <1>10, <1>11, <2>1, Zenon
    <2>4. data[p + 4 + n] = 125
        BY <1>10, <1>11, <2>1, Zenon
    <2> QED
        BY <2>2, <2>3, <2>4
<1>13. p + 4 + 1 = p + 5
    OBVIOUS
<1>14. data[p + 5] = 123
    BY <1>12, <1>13, Zenon
<1>15. ReadMessage(data, p) \in Seq(Byte) /\ Len(ReadMessage(data, p)) = n
    BY <1>1, <1>8, Zenon
<1>16. n = Spelled(data, p, 4)
    BY DEF n
<1> WITNESS n \in Nat
<1> QED
    BY <1>1, <1>4, <1>11, <1>12, <1>14, <1>15, <1>16, ZenonT(60)

\* A write that came out whole is read as it was.
LEMMA WholeIsRead ==
    ASSUME NEW data, NEW sends \in Seq(Sends), NEW pos, Layout(data, sends, pos),
           NEW k \in 1..Len(sends), Writes(sends[k].size), sends[k].out = FrameSize(sends[k])
    PROVE  ReadMessage(data, pos[k - 1]) = Text(sends[k])
<1> DEFINE s == sends[k]
<1> DEFINE p == pos[k - 1]
<1> DEFINE n == Spelled(data, p, 4)
<1>1. s \in Sends
    OBVIOUS
<1>2. s.size \in Nat /\ s.size > 2 /\ Out(s) = 4 + s.size /\ s.id \in 9..122
    BY <1>1, SendType DEF Out
<1>3. k \in 0..Len(sends) /\ k - 1 \in 0..Len(sends) /\ Len(sends) \in 0..Len(sends)
    OBVIOUS
<1>4. p \in Nat /\ pos[k] = p + Out(s) /\ pos[k] <= pos[Len(sends)] /\ pos[Len(sends)] = Len(data)
      /\ data \in Seq(Byte) /\ Len(data) \in Nat
    <2>1. pos[k] <= pos[Len(sends)]
        <3>1. k <= Len(sends)
            OBVIOUS
        <3> QED
            BY <1>3, <3>1, Ordered
    <2>2. pos[k - 1] \in Nat
        BY <1>3 DEF Layout
    <2>3. pos[k] = pos[k - 1] + Out(sends[k]) /\ pos[Len(sends)] = Len(data) /\ data \in Seq(Byte)
        BY DEF Layout
    <2>4. Len(data) \in Nat
        BY <2>3
    <2> QED
        BY <2>1, <2>2, <2>3, <2>4, Zenon DEF s, p
<1>5. \A i \in 1..4 + s.size : data[p + i] = FrameByte(s, i)
    BY <1>2 DEF Layout
<1> HIDE DEF s, p
<1>6. p + 4 + s.size <= Len(data)
    BY <1>2, <1>4
<1>7. Has(data, p, 4)
    BY <1>2, <1>4, <1>6 DEF Has
<1>8. n = s.size
    <2>1. n = ((data[p + 1] * 256 + data[p + 2]) * 256 + data[p + 3]) * 256 + data[p + 4]
        BY <1>4, <1>7, SpelledAt
    <2>2. 1 \in 1..4 + s.size /\ 2 \in 1..4 + s.size /\ 3 \in 1..4 + s.size /\ 4 \in 1..4 + s.size
        BY <1>2
    <2>3. /\ data[p + 1] = FrameByte(s, 1) /\ data[p + 2] = FrameByte(s, 2)
          /\ data[p + 3] = FrameByte(s, 3) /\ data[p + 4] = FrameByte(s, 4)
        BY <1>5, <2>2
    <2>4. Writes(s.size)
        BY DEF s
    <2> QED
        BY <1>1, <2>1, <2>3, <2>4, LengthBytes, ZenonT(60)
<1> DEFINE t == Slice(data, p + 4, s.size)
<1> HIDE DEF n
<1>9. t = SubSeq(data, p + 5, p + 4 + s.size)
    <2>1. p + 4 + 1 = p + 5
        BY <1>4
    <2> QED
        BY <2>1, Zenon DEF Slice
<1>10. \A i \in 1..s.size : data[p + 4 + i] = Text(s)[i]
    <2> TAKE i \in 1..s.size
    <2>1. 4 + i \in 1..4 + s.size /\ p + 4 + i = p + (4 + i) /\ ~(4 + i <= 4) /\ (4 + i) - 4 = i
        BY <1>2, <1>4
    <2>2. data[p + (4 + i)] = FrameByte(s, 4 + i)
        BY <1>5, <2>1
    <2> QED
        BY <2>1, <2>2, Zenon DEF FrameByte
<1>11. \A i \in p + 5..p + 4 + s.size : data[i] \in Byte
    BY <1>2, <1>4, <1>6
<1> DEFINE a == p + 5
<1> DEFINE b == p + 4 + s.size
<1>12. a \in Int /\ b \in Int /\ a <= b /\ b - a + 1 = s.size
    BY <1>2, <1>4
<1> HIDE DEF a, b
<1>13. /\ SubSeq(data, a, b) \in Seq(Byte) /\ Len(SubSeq(data, a, b)) = s.size
       /\ \A i \in 1..s.size : SubSeq(data, a, b)[i] = data[a + i - 1]
    BY <1>11, <1>12, SubSeqProperties DEF a, b
<1>14. t \in Seq(Byte) /\ Len(t) = s.size /\ \A i \in 1..s.size : t[i] = data[p + 5 + i - 1]
    BY <1>9, <1>13, Zenon DEF a, b
<1>15. \A i \in 1..s.size : p + 5 + i - 1 = p + 4 + i
    BY <1>2, <1>4
<1> HIDE DEF t
<1>16. Text(s) \in Seq(Byte) /\ Len(Text(s)) = s.size
    BY <1>1, TextIs
<1>17. t = Text(s)
    <2>1. \A i \in 1..s.size : t[i] = Text(s)[i]
        BY <1>10, <1>14, <1>15
    <2> QED
        BY <1>14, <1>16, <2>1, SeqEqual
<1>18. IsMessage(t)
    BY <1>1, <1>2, <1>16, <1>17, TextIs, ZenonT(60) DEF IsMessage
<1>19. Takes(s.size) /\ Has(data, p + 4, s.size)
    BY <1>4, <1>6 DEF Takes, Writes, Has, s
<1> QED
    BY <1>7, <1>8, <1>17, <1>18, <1>19 DEF ReadMessage, n, t, s, p

\* A frame that was cut makes no message, whatever follows it.
LEMMA TornIsRefused ==
    ASSUME NEW data, NEW sends \in Seq(Sends), NEW pos, Layout(data, sends, pos),
           NEW k \in 1..Len(sends), Writes(sends[k].size),
           sends[k].out \in 1..FrameSize(sends[k]) - 1
    PROVE  ReadMessage(data, pos[k - 1]) = << >>
<1> SUFFICES ASSUME ReadMessage(data, pos[k - 1]) # << >> PROVE FALSE
    OBVIOUS
<1> DEFINE N == Len(sends)
<1> DEFINE s == sends[k]
<1> DEFINE p == pos[k - 1]
<1>1. k \in 0..N /\ k - 1 \in 0..N /\ N \in Nat /\ s \in Sends
    OBVIOUS
<1>2. data \in Seq(Byte) /\ p \in Nat /\ pos[k] \in Nat /\ Len(data) \in Nat
    BY <1>1 DEF Layout
<1>3. /\ s.size \in Nat /\ Writes(s.size) /\ s.out \in Nat /\ 1 <= s.out /\ s.out < 4 + s.size
      /\ Out(s) = s.out
    BY <1>1, SendType DEF Out
<1>4. pos[k] = p + s.out /\ \A i \in 1..s.out : data[p + i] = FrameByte(s, i)
    BY <1>3 DEF Layout
<1> HIDE DEF N, s, p
<1>5. PICK n \in Nat :
         /\ n = Spelled(data, p, 4) /\ Has(data, p, 4) /\ n > 2 /\ p + 4 + n <= Len(data)
         /\ data[p + 5] = 123 /\ data[p + 4 + n] = 125
         /\ \A i \in 2..n - 1 : data[p + 4 + i] \in 9..122
    <2>1. ReadMessage(data, p) # << >>
        BY DEF p
    <2> QED
        BY <1>2, <2>1, ReadIs, ZenonT(60)
<1>6. /\ n = ((data[p + 1] * 256 + data[p + 2]) * 256 + data[p + 3]) * 256 + data[p + 4]
      /\ data[p + 1] \in Byte /\ data[p + 2] \in Byte /\ data[p + 3] \in Byte /\ data[p + 4] \in Byte
    <2>1. Has(data, p, 4)
        BY <1>5
    <2>2. Spelled(data, p, 4) = ((data[p + 1] * 256 + data[p + 2]) * 256 + data[p + 3]) * 256 + data[p + 4]
        BY <1>2, <2>1, SpelledAt, ZenonT(60)
    <2> QED
        BY <1>2, <1>5, <2>1, <2>2, SpelledAt, ZenonT(60)
\* No byte of the text but a brace is what a length begins with.
<1>7. \A i \in 1..n : data[p + 4 + i] \notin 0..2
    <2> TAKE i \in 1..n
    <2>1. p + 4 + 1 = p + 5
        BY <1>2
    <2>2. i = 1 \/ i = n \/ i \in 2..n - 1
        BY <1>5
    <2>3. CASE i = 1
        BY <1>5, <2>1, <2>3
    <2>4. CASE i = n
        BY <1>5, <2>4
    <2>5. CASE i \in 2..n - 1
        <3>1. \A x \in 9..122 : x \notin 0..2
            OBVIOUS
        <3> QED
            BY <1>5, <2>5, <3>1, ZenonT(60)
    <2> QED
        BY <2>2, <2>3, <2>4, <2>5
<1>8. \A i \in 2..n : data[p + 4 + i] # 123
    <2> TAKE i \in 2..n
    <2>1. i = n \/ i \in 2..n - 1
        BY <1>5
    <2>2. CASE i = n
        BY <1>5, <2>2
    <2>3. CASE i \in 2..n - 1
        <3>1. \A x \in 9..122 : x # 123
            OBVIOUS
        <3> QED
            BY <1>5, <2>3, <3>1, Zenon
    <2> QED
        BY <2>1, <2>2, <2>3
\* The length came out whole: the text runs into the next one.
<1>9. CASE s.out >= 4
    <2>1. /\ data[p + 1] = FrameByte(s, 1) /\ data[p + 2] = FrameByte(s, 2)
          /\ data[p + 3] = FrameByte(s, 3) /\ data[p + 4] = FrameByte(s, 4)
        BY <1>3, <1>4, <1>9
    <2>2. n = s.size
        BY <1>1, <1>3, <1>6, <2>1, LengthBytes, ZenonT(60)
    <2>3. pos[k] < Len(data)
        <3>1. \A a, b, c, l \in Nat : a < 4 + b /\ p + 4 + b <= l /\ c = p + a => c < l
            BY <1>2
        <3> QED
            BY <1>2, <1>3, <1>4, <1>5, <2>2, <3>1, ZenonT(60)
    <2>4. data[pos[k] + 1] \in 0..2
        BY <1>1, <2>3, AfterWrite DEF N
    <2>5. s.out - 3 \in 1..n /\ p + 4 + (s.out - 3) = pos[k] + 1
        <3>1. \A a, b \in Nat : a >= 4 /\ a < 4 + b => a - 3 \in 1..b /\ p + 4 + (a - 3) = p + a + 1
            BY <1>2
        <3> QED
            BY <1>3, <1>4, <1>9, <2>2, <3>1, Zenon
    <2> QED
        BY <1>7, <2>4, <2>5
\* It did not: the text begins in the length of a later write.
<1>10. CASE s.out < 4
    <2>1. p + 5 \in 1..Len(data)
        BY <1>2, <1>5
    <2>2. PICK j \in 1..N : (p + 5) - pos[j - 1] \in 1..Out(sends[j])
        BY <2>1, WriteOf DEF N
    <2> DEFINE q == pos[j - 1]
    <2> DEFINE o == (p + 5) - q
    <2>3. j \in 0..N /\ j - 1 \in 0..N /\ sends[j] \in Sends
        BY <1>1 DEF N
    <2>4. q \in Nat /\ pos[j] \in Nat /\ pos[j] = q + Out(sends[j]) /\ Out(sends[j]) \in Nat
        <3>1. q \in Nat /\ pos[j] \in Nat
            BY <2>3 DEF Layout, N
        <3>2. pos[j] = q + Out(sends[j])
            BY <2>2 DEF Layout, N
        <3>3. Out(sends[j]) \in Nat
            BY <2>3, SendType
        <3> QED
            BY <3>1, <3>2, <3>3
    <2>5. pos[k] <= q
        <3>1. ~(j <= k)
            <4> SUFFICES ASSUME j <= k PROVE FALSE
                OBVIOUS
            <4>1. pos[j] <= pos[k]
                BY <1>1, <2>3, Ordered DEF N
            <4>2. \A a, b, c, d, e \in Nat : a < 4 /\ b = p + a /\ c <= b /\ c = d + e => (p + 5) - d \notin 1..e
                BY <1>2
            <4> QED
                BY <1>2, <1>3, <1>4, <1>10, <2>2, <2>4, <4>1, <4>2, Zenon
        <3>2. k <= j - 1
            BY <1>1, <2>3, <3>1
        <3> QED
            BY <1>1, <2>3, <3>2, Ordered DEF N
    <2>6. o \in 1..4 /\ o \in 1..Out(sends[j]) /\ q + o = p + 5
        <3>1. \A a, b, c, e \in Nat : 1 <= a /\ b = p + a /\ b <= c /\ (p + 5) - c \in 1..e =>
                                       (p + 5) - c \in 1..4 /\ c + ((p + 5) - c) = p + 5
            BY <1>2
        <3>2. o \in 1..4 /\ q + o = p + 5
            BY <1>2, <1>3, <1>4, <2>2, <2>4, <2>5, <3>1, Zenon
        <3> QED
            BY <2>2, <3>2
    <2>7. \A i \in 1..Out(sends[j]) : data[q + i] = FrameByte(sends[j], i)
        BY <2>2 DEF Layout, N
    <2>8. Writes(sends[j].size)
        BY <2>6 DEF Out
    <2>9. FrameByte(sends[j], 1) \in 0..2 /\ FrameByte(sends[j], 5) = 123
        BY <2>3, <2>8, LengthBytes
    <2> HIDE DEF q, o
    \* As long as the text goes on, so does that write.
    <2>10. ASSUME NEW i \in 0..n - 2, o + i \in 1..Out(sends[j])
           PROVE  /\ o + i + 1 \in 1..Out(sends[j])
                  /\ data[p + 4 + (i + 2)] = FrameByte(sends[j], o + i + 1)
        <3>1. q + (o + i) < Len(data) /\ q + (o + i) + 1 = p + 4 + (i + 2) /\ i + 2 \in 1..n
            <4>1. \A a, b, l \in Nat : a + b = p + 5 /\ p + 4 + n <= l =>
                     a + (b + i) < l /\ a + (b + i) + 1 = p + 4 + (i + 2)
                BY <1>2
            <4>2. i + 2 \in 1..n /\ o \in Nat
                BY <2>6
            <4> QED
                BY <1>2, <1>5, <2>4, <2>6, <4>1, <4>2, ZenonT(60)
        <3>2. \/ (o + i) + 1 \in 1..Out(sends[j]) /\ data[q + (o + i) + 1] = FrameByte(sends[j], (o + i) + 1)
              \/ data[q + (o + i) + 1] \in 0..2
            BY <2>2, <2>10, <3>1, NextByte DEF q, N
        <3>3. data[q + (o + i) + 1] \notin 0..2
            BY <1>7, <3>1
        <3> QED
            BY <3>1, <3>2, <3>3
    <2>11. o # 1
        <3> SUFFICES ASSUME o = 1 PROVE FALSE
            OBVIOUS
        <3>1. data[p + 5] = FrameByte(sends[j], 1)
            BY <2>6, <2>7
        <3> QED
            BY <1>5, <2>9, <3>1
    <2>12. o # 4
        <3> SUFFICES ASSUME o = 4 PROVE FALSE
            OBVIOUS
        <3>1. 0 \in 0..n - 2 /\ 2 \in 2..n /\ o + 0 = o /\ o + 0 + 1 = 5 /\ 0 + 2 = 2
            BY <1>5
        <3>2. data[p + 4 + 2] = FrameByte(sends[j], 5)
            BY <2>6, <2>10, <3>1
        <3> QED
            BY <1>8, <2>9, <3>1, <3>2
    <2>13. o # 3
        <3> SUFFICES ASSUME o = 3 PROVE FALSE
            OBVIOUS
        <3>1. 0 \in 0..n - 2 /\ 1 \in 0..n - 2 /\ 3 \in 2..n
            BY <1>5
        <3>2. o + 0 \in 1..Out(sends[j]) /\ o + 0 + 1 = 4 /\ o + 1 = 4 /\ o + 1 + 1 = 5 /\ 1 + 2 = 3
            BY <2>6
        <3>3. o + 1 \in 1..Out(sends[j])
            BY <2>10, <3>1, <3>2
        <3>4. data[p + 4 + 3] = FrameByte(sends[j], 5)
            BY <2>10, <3>1, <3>2, <3>3
        <3> QED
            BY <1>8, <2>9, <3>1, <3>4
    <2>14. o # 2
        <3> SUFFICES ASSUME o = 2 PROVE FALSE
            OBVIOUS
        <3>1. 0 \in 0..n - 2 /\ 1 \in 0..n - 2
            BY <1>5
        <3>2. o + 0 \in 1..Out(sends[j]) /\ o + 0 + 1 = 3 /\ o + 1 = 3 /\ o + 1 + 1 = 4 /\ o + 2 = 4 /\ o + 2 + 1 = 5
            BY <2>6
        <3>3. 3 \in 1..Out(sends[j])
            BY <2>10, <3>1, <3>2
        <3>4. 4 \in 1..Out(sends[j])
            BY <2>10, <3>1, <3>2, <3>3
        <3>5. CASE n = 3
            <4>1. q + 1 = p + 4 /\ 1 \in 1..Out(sends[j])
                BY <1>2, <2>4, <2>6, <3>4
            <4>2. data[p + 4] \in 0..2
                BY <2>7, <2>9, <4>1
            <4> DEFINE a == data[p + 1]
            <4> DEFINE b == data[p + 2]
            <4> DEFINE c == data[p + 3]
            <4> DEFINE d == data[p + 4]
            <4>3. a \in Byte /\ b \in Byte /\ c \in Byte /\ d \in 0..2 /\ n = ((a * 256 + b) * 256 + c) * 256 + d
                BY <1>6, <4>2
            <4> HIDE DEF a, b, c, d
            <4> QED
                BY <3>5, <4>3 DEF Byte
        <3>6. CASE n > 3
            <4>1. 2 \in 0..n - 2 /\ 4 \in 2..n /\ 2 + 2 = 4
                BY <1>5, <3>6
            <4>2. data[p + 4 + 4] = FrameByte(sends[j], 5)
                BY <2>10, <3>2, <3>4, <4>1
            <4> QED
                BY <1>8, <2>9, <4>1, <4>2
        <3> QED
            BY <1>5, <3>5, <3>6
    <2> QED
        BY <2>6, <2>11, <2>12, <2>13, <2>14
<1> QED
    BY <1>3, <1>9, <1>10

-----------------------------------------------------------------------------
(* What Receive after Receive makes of a stream.                            *)

From(data, h) == [p \in 0..Len(data) |->
    IF ReadMessage(data, p) = << >> THEN << >>
    ELSE <<ReadMessage(data, p)>> \o h[p + 4 + Len(ReadMessage(data, p))]]

Loops(f, L, T, next) ==
    f = [p \in 0..L |-> IF T[p] = << >> THEN << >> ELSE <<T[p]>> \o f[next[p]]]

\* The loop ends: each message takes it further.
LEMMA LoopEnds ==
    ASSUME NEW L \in Nat, NEW T, NEW next,
           \A p \in 0..L : T[p] # << >> => next[p] \in p + 1..L
    PROVE  \E f : Loops(f, L, T, next)
<1> DEFINE C(f, p) == IF T[p] = << >> THEN << >> ELSE <<T[p]>> \o f[next[p]]
<1> DEFINE Done(f, d) == f = [p \in 0..L |-> f[p]] /\ \A p \in 0..L : p + d > L => f[p] = C(f, p)
<1> DEFINE S == {d \in Nat : d <= L + 1 => \E f : Done(f, d)}
<1> HIDE DEF Done
<1>1. 0 \in S
    <2> DEFINE f == [p \in 0..L |-> << >>]
    <2>1. f = [p \in 0..L |-> f[p]] /\ \A p \in 0..L : ~(p + 0 > L)
        OBVIOUS
    <2> HIDE DEF f
    <2>2. Done(f, 0)
        BY <2>1 DEF Done
    <2> QED
        BY <2>2
<1>2. ASSUME NEW d \in Nat, d \in S PROVE d + 1 \in S
    <2> SUFFICES ASSUME d + 1 <= L + 1 PROVE \E f : Done(f, d + 1)
        OBVIOUS
    <2>1. PICK f : Done(f, d)
        BY <1>2
    <2> DEFINE q == L - d
    <2>2. q \in 0..L /\ \A p \in 0..L : p + (d + 1) > L <=> p = q \/ p + d > L
        OBVIOUS
    <2>3. q + d = L
        OBVIOUS
    <2> HIDE DEF q
    <2> DEFINE g == [p \in 0..L |-> IF p = q THEN C(f, q) ELSE f[p]]
    <2> HIDE DEF C
    <2>4. \A p \in 0..L : g[p] = IF p = q THEN C(f, q) ELSE f[p]
        OBVIOUS
    <2>5. g = [p \in 0..L |-> g[p]]
        OBVIOUS
    <2> HIDE DEF g
    <2>6. ASSUME NEW p \in 0..L, p >= q PROVE C(g, p) = C(f, p)
        <3>1. CASE T[p] = << >>
            BY <3>1 DEF C
        <3>2. CASE T[p] # << >>
            <4>1. next[p] \in 0..L /\ next[p] # q
                <5>1. next[p] \in p + 1..L
                    BY <3>2
                <5> QED
                    BY <2>2, <2>6, <5>1
            <4>2. g[next[p]] = f[next[p]]
                BY <2>4, <4>1
            <4> QED
                BY <4>2 DEF C
        <3> QED
            BY <3>1, <3>2
    <2>7. ASSUME NEW p \in 0..L, p + (d + 1) > L PROVE g[p] = C(g, p)
        <3>1. p = q \/ p + d > L
            BY <2>2, <2>7
        <3>2. CASE p = q
            BY <2>4, <2>6, <3>2
        <3>3. CASE p + d > L
            <4>1. p # q /\ p >= q
                BY <2>2, <2>3, <3>3
            <4>2. g[p] = f[p] /\ f[p] = C(f, p)
                BY <2>1, <2>4, <3>3, <4>1 DEF Done
            <4> QED
                BY <2>6, <4>1, <4>2
        <3> QED
            BY <3>1, <3>2, <3>3
    <2>8. Done(g, d + 1)
        BY <2>5, <2>7 DEF Done
    <2> QED
        BY <2>8
<1> HIDE DEF S
<1>3. L + 1 \in Nat /\ Nat \subseteq S
    BY <1>1, <1>2, Induction
<1>4. PICK f : Done(f, L + 1)
    BY <1>3 DEF S
<1>5. \A p \in 0..L : p + (L + 1) > L
    OBVIOUS
<1> HIDE DEF C
<1>6. f = [p \in 0..L |-> f[p]] /\ \A p \in 0..L : f[p] = C(f, p)
    BY <1>4, <1>5, Zenon DEF Done
<1>7. f = [p \in 0..L |-> C(f, p)]
    BY <1>6
<1> QED
    BY <1>7 DEF C, Loops

\* So the loop is what its definition says.
LEMMA ReceivedIs ==
    ASSUME NEW data \in Seq(Byte)
    PROVE  \E f : f = From(data, f) /\ Received(data) = f[0]
<1> DEFINE L == Len(data)
<1> DEFINE T == [p \in 0..L |-> ReadMessage(data, p)]
<1> DEFINE next == [p \in 0..L |-> p + 4 + Len(ReadMessage(data, p))]
<1> DEFINE v == CHOOSE h : h = From(data, h)
<1>1. L \in Nat
    OBVIOUS
<1>2. ASSUME NEW p \in 0..L, T[p] # << >> PROVE next[p] \in p + 1..L
    <2>1. p \in Nat /\ T[p] = ReadMessage(data, p) /\ next[p] = p + 4 + Len(ReadMessage(data, p))
        OBVIOUS
    <2>2. PICK n \in Nat : n > 2 /\ p + 4 + n <= L /\ Len(ReadMessage(data, p)) = n
        BY <1>2, <2>1, ReadIs
    <2> QED
        BY <1>1, <2>1, <2>2
<1>3. \A p \in 0..L : T[p] = ReadMessage(data, p) /\ next[p] = p + 4 + Len(ReadMessage(data, p))
    OBVIOUS
<1> HIDE DEF L, T, next
<1>4. PICK f : Loops(f, L, T, next)
    BY <1>1, <1>2, LoopEnds, Zenon
<1>5. f = From(data, f)
    BY <1>3, <1>4 DEF Loops, From, L
<1>6. Received(data) = v[0]
    BY DEF Received, From
<1>7. v = From(data, v)
    <2> HIDE DEF From
    <2> QED
        BY <1>5
<1> HIDE DEF v
<1> QED
    BY <1>6, <1>7

Cut(s)           == Writes(s.size) /\ s.out \in 1..FrameSize(s) - 1
Good(s)          == Writes(s.size) /\ s.out = FrameSize(s)
Whole(sends)     == {k \in DOMAIN sends : Good(sends[k]) /\ \A j \in 1..k - 1 : ~Cut(sends[j])}
Between(W, m, k) == {j \in W : m < j /\ j <= k}

\* What the reader makes of the writes behind the m-th.
Tells(sends, m, texts) ==
    LET W == Whole(sends) IN
    /\ texts \in Seq(Seq(Byte)) /\ Len(texts) = Cardinality(Between(W, m, Len(sends)))
    /\ \A k \in W : k > m => texts[Cardinality(Between(W, m, k))] = Text(sends[k])

\* Places in a stream are numbers of messages before them.
LEMMA FiniteNumbers == ASSUME NEW N \in Nat, NEW W \in SUBSET (1..N) PROVE IsFiniteSet(W)
<1>1. IsFiniteSet(1..N) /\ W \subseteq 1..N
    BY FS_Interval
<1> QED
    BY <1>1, FS_Subset, Zenon

\* Places are numbers, as large as there are messages.
LEMMA Places ==
    ASSUME NEW N \in Nat, NEW W \in SUBSET (1..N), NEW m \in 0..N
    PROVE  /\ \A k \in 0..N : Cardinality(Between(W, m, k)) \in Nat
           /\ \A k \in W : k > m => /\ Cardinality(Between(W, m, k)) >= 1
                                   /\ Cardinality(Between(W, m, k)) <= Cardinality(Between(W, m, N))
           /\ Cardinality(Between(W, m, m)) = 0
<1>0. \A j \in W : j \in Int /\ j <= N
    OBVIOUS
<1>1. IsFiniteSet(W)
    BY FiniteNumbers
<1>2. ASSUME NEW k \in Int PROVE IsFiniteSet(Between(W, m, k)) /\ Cardinality(Between(W, m, k)) \in Nat
    <2>1. Between(W, m, k) \subseteq W
        BY DEF Between
    <2> QED
        BY <1>1, <2>1, FS_Subset, FS_CardinalityType
<1>3. ASSUME NEW k \in W, k > m
      PROVE  /\ Cardinality(Between(W, m, k)) >= 1
             /\ Cardinality(Between(W, m, k)) <= Cardinality(Between(W, m, N))
    <2>1. k \in Int /\ N \in Int /\ m < k /\ k <= k
        BY <1>0, <1>3
    <2>3. k \in Between(W, m, k)
        BY <1>3, <2>1, Zenon DEF Between
    <2>4. \A j \in W : j <= N
        BY <1>0
    <2>5. Between(W, m, k) \subseteq Between(W, m, N)
        BY <2>4, Zenon DEF Between
    <2>2. Cardinality(Between(W, m, k)) # 0
        BY <1>2, <2>1, <2>3, FS_EmptySet, Zenon
    <2>6. Cardinality(Between(W, m, k)) <= Cardinality(Between(W, m, N))
        BY <1>2, <2>1, <2>5, FS_Subset, Zenon
    <2> QED
        BY <1>2, <2>1, <2>2, <2>6
<1>4. Between(W, m, m) = {}
    <2>1. \A j \in W : ~(m < j /\ j <= m)
        BY <1>0
    <2> QED
        BY <2>1, Zenon DEF Between
<1> QED
    BY <1>2, <1>3, <1>4, FS_EmptySet

\* A message that comes next takes the first place, and one that does not, none.
LEMMA NextPlace ==
    ASSUME NEW N \in Nat, NEW W \in SUBSET (1..N), NEW m \in Nat, m + 1 <= N, NEW k \in Int, k > m
    PROVE  /\ m + 1 \notin W => Between(W, m, k) = Between(W, m + 1, k)
           /\ m + 1 \in W =>
                 Cardinality(Between(W, m, k)) = Cardinality(Between(W, m + 1, k)) + 1
<1>1. /\ \A j \in W : j \in Int /\ (m < j <=> j = m + 1 \/ m + 1 < j)
      /\ m + 1 <= k /\ m < m + 1
    OBVIOUS
<1>2. m + 1 \notin W => Between(W, m, k) = Between(W, m + 1, k)
    <2> SUFFICES ASSUME m + 1 \notin W PROVE \A j \in W : m < j <=> m + 1 < j
        BY Zenon DEF Between
    <2> QED
        BY <1>1
<1>3. ASSUME m + 1 \in W
      PROVE  Cardinality(Between(W, m, k)) = Cardinality(Between(W, m + 1, k)) + 1
    <2>1. Between(W, m, k) = Between(W, m + 1, k) \cup {m + 1}
        <3>1. ASSUME NEW j \in W
              PROVE  m < j /\ j <= k <=> (m + 1 < j /\ j <= k) \/ j = m + 1
            BY <1>1
        <3> QED
            BY <1>1, <1>3, <3>1, Zenon DEF Between
    <2>2. m + 1 \notin Between(W, m + 1, k)
        BY DEF Between
    <2>3. IsFiniteSet(Between(W, m + 1, k))
        <3>1. IsFiniteSet(W)
            BY FiniteNumbers
        <3>2. Between(W, m + 1, k) \subseteq W
            BY DEF Between
        <3> QED
            BY <3>1, <3>2, FS_Subset
    <2> QED
        BY <2>1, <2>2, <2>3, FS_AddElement
<1> QED
    BY <1>2, <1>3

\* Each write that came out whole adds its message, one that was cut ends them.
LEMMA StreamTells ==
    ASSUME NEW sends \in Seq(Sends), NEW data, NEW pos, Layout(data, sends, pos),
           NEW f, f = From(data, f)
    PROVE  Tells(sends, 0, f[0])
<1> DEFINE N == Len(sends)
<1> DEFINE W == Whole(sends)
<1> DEFINE Clear(m) == \A j \in 1..m : ~Cut(sends[j])
<1> DEFINE S == {d \in Nat : \A m \in 0..N : m + d = N /\ Clear(m) => Tells(sends, m, f[pos[m]])}
<1>1. N \in Nat /\ DOMAIN sends = 1..N /\ \A k \in 1..N : sends[k] \in Sends
    OBVIOUS
<1>2. W \in SUBSET (1..N) /\ \A k \in 1..N : k \in W <=> Good(sends[k]) /\ \A j \in 1..k - 1 : ~Cut(sends[j])
    BY <1>1 DEF Whole
<1>3. /\ data \in Seq(Byte) /\ pos[0] = 0 /\ pos[N] = Len(data) /\ Len(data) \in Nat
      /\ \A m \in 0..N : pos[m] \in Nat
      /\ \A k \in 1..N : pos[k] = pos[k - 1] + Out(sends[k])
    BY SMTT(30) DEF Layout
<1>4. \A m \in 0..N : pos[m] \in 0..Len(data)
    <2> TAKE m \in 0..N
    <2>1. m <= N /\ N \in 0..N
        BY <1>1
    <2>2. pos[m] <= pos[N]
        BY <2>1, Ordered
    <2> QED
        BY <1>3, <2>2
<1>5. \A p \in 0..Len(data) :
         f[p] = IF ReadMessage(data, p) = << >> THEN << >>
                ELSE <<ReadMessage(data, p)>> \o f[p + 4 + Len(ReadMessage(data, p))]
    BY Zenon DEF From
<1>6. \A m, texts : Tells(sends, m, texts) <=>
         /\ texts \in Seq(Seq(Byte)) /\ Len(texts) = Cardinality(Between(W, m, N))
         /\ \A k \in W : k > m => texts[Cardinality(Between(W, m, k))] = Text(sends[k])
    BY Zenon DEF Tells
<1> HIDE DEF N, W
\* Where nothing follows, there is no message.
<1>7. ASSUME NEW m \in 0..N, \A k \in W : ~(k > m) PROVE Tells(sends, m, << >>)
    <2>1. Between(W, m, N) = {}
        <3>1. \A k \in W : ~(m < k)
            BY <1>2, <1>7
        <3> QED
            BY <3>1, Zenon DEF Between
    <2>2. << >> \in Seq(Seq(Byte)) /\ Len(<< >>) = 0 /\ Cardinality({}) = 0
        BY FS_EmptySet
    <2> QED
        BY <1>6, <1>7, <2>1, <2>2, Zenon
<1>8. 0 \in S
    <2> SUFFICES ASSUME NEW m \in 0..N, m + 0 = N PROVE Tells(sends, m, f[pos[m]])
        OBVIOUS
    <2>1. m = N
        BY <1>1
    <2>2. ReadMessage(data, Len(data)) = << >>
        <3> SUFFICES ASSUME ReadMessage(data, Len(data)) # << >> PROVE FALSE
            OBVIOUS
        <3>1. PICK n \in Nat : n > 2 /\ Len(data) + 4 + n <= Len(data)
            BY <1>3, ReadIs
        <3> QED
            BY <1>3, <3>1
    <2>3. f[pos[m]] = << >>
        BY <1>3, <1>4, <1>5, <2>1, <2>2
    <2>4. \A k \in W : ~(k > m)
        BY <1>1, <1>2, <2>1
    <2> QED
        BY <1>7, <2>3, <2>4
<1>9. ASSUME NEW d \in Nat, d \in S PROVE d + 1 \in S
    <2> SUFFICES ASSUME NEW m \in 0..N, m + (d + 1) = N, Clear(m) PROVE Tells(sends, m, f[pos[m]])
        OBVIOUS
    <2> DEFINE k == m + 1
    <2> DEFINE s == sends[k]
    <2>1. k \in 1..N /\ k \in 0..N /\ k - 1 = m /\ k + d = N /\ m \in Nat /\ m + 1 <= N
        BY <1>1
    <2>2. s \in Sends /\ pos[k] = pos[m] + Out(s)
        BY <1>1, <1>3, <2>1
    <2>3. /\ s.size \in Nat /\ s.size > 2 /\ s.out \in Nat /\ s.out <= 4 + s.size
          /\ FrameSize(s) = 4 + s.size
        BY <2>2, SendType
    <2>4. pos[m] \in Nat /\ pos[m] \in 0..Len(data)
        BY <1>3, <1>4
    <2>5. CASE Cut(s)
        <3>1. ReadMessage(data, pos[k - 1]) = << >>
            BY <2>1, <2>5, TornIsRefused DEF Cut, N
        <3>2. f[pos[m]] = << >>
            BY <1>5, <2>1, <2>4, <3>1
        <3>3. ASSUME NEW j \in W, j > m PROVE FALSE
            <4>1. j \in 1..N /\ Good(sends[j]) /\ \A i \in 1..j - 1 : ~Cut(sends[i])
                BY <1>2
            <4>2. j # k
                <5> SUFFICES ASSUME j = k PROVE FALSE
                    OBVIOUS
                <5>1. s.out = FrameSize(s) /\ s.out \in 1..FrameSize(s) - 1
                    BY <2>5, <4>1 DEF Good, Cut
                <5> QED
                    BY <2>3, <5>1
            <4>3. k \in 1..j - 1
                BY <2>1, <3>3, <4>1, <4>2
            <4> QED
                BY <2>5, <4>1, <4>3
        <3> QED
            BY <1>7, <3>2, <3>3
    <2>6. CASE ~Cut(s)
        <3>1. Clear(k)
            <4> SUFFICES ASSUME NEW j \in 1..k PROVE ~Cut(sends[j])
                OBVIOUS
            <4>1. j = k \/ j \in 1..m
                BY <2>1
            <4> QED
                BY <2>6, <4>1
        <3>2. Tells(sends, k, f[pos[k]])
            BY <1>9, <2>1, <3>1
        <3>3. k \in W <=> Good(s)
            BY <1>2, <2>1
        <3>4. CASE ~Good(s)
            <4>1. Out(s) = 0
                <5>1. CASE ~Writes(s.size)
                    BY <5>1 DEF Out
                <5>2. CASE Writes(s.size)
                    <6>1. s.out # 4 + s.size /\ s.out \notin 1..4 + s.size - 1
                        BY <2>3, <2>6, <3>4, <5>2 DEF Good, Cut
                    <6> QED
                        BY <2>3, <5>2, <6>1 DEF Out
                <5> QED
                    BY <5>1, <5>2
            <4>2. pos[k] = pos[m]
                BY <2>2, <2>4, <4>1
            <4>3. \A j \in Int : j > m => Between(W, m, j) = Between(W, k, j)
                BY <1>1, <1>2, <2>1, <3>3, <3>4, NextPlace
            <4>4. N \in Int /\ N > m /\ \A j \in W : j \in Int /\ (j > m => j > k)
                BY <1>1, <1>2, <2>1, <3>3, <3>4
            <4> DEFINE r == f[pos[m]]
            <4>5. /\ r \in Seq(Seq(Byte)) /\ Len(r) = Cardinality(Between(W, k, N))
                  /\ \A j \in W : j > k => r[Cardinality(Between(W, k, j))] = Text(sends[j])
                BY <1>6, <3>2, <4>2, Zenon
            <4> HIDE DEF r
            <4>6. Len(r) = Cardinality(Between(W, m, N))
                BY <4>3, <4>4, <4>5, Zenon
            <4>7. ASSUME NEW j \in W, j > m PROVE r[Cardinality(Between(W, m, j))] = Text(sends[j])
                BY <4>3, <4>4, <4>5, <4>7, Zenon
            <4>8. Tells(sends, m, r)
                BY <1>6, <4>5, <4>6, <4>7, Zenon
            <4> QED
                BY <4>8 DEF r
        <3>5. CASE Good(s)
            <4> DEFINE t == Text(s)
            <4> DEFINE r == f[pos[k]]
            <4>1. Out(s) = 4 + s.size /\ ReadMessage(data, pos[m]) = t
                <5>1. Writes(s.size) /\ s.out = FrameSize(s)
                    BY <3>5 DEF Good
                <5>2. ReadMessage(data, pos[k - 1]) = t
                    BY <2>1, <5>1, WholeIsRead DEF N
                <5> QED
                    BY <2>1, <2>3, <5>1, <5>2 DEF Out
            <4>2. t \in Seq(Byte) /\ Len(t) = s.size /\ t # << >>
                <5>1. t \in Seq(Byte) /\ Len(t) = s.size
                    BY <2>2, TextIs
                <5> QED
                    BY <2>3, <5>1
            <4>3. pos[m] + 4 + Len(t) = pos[k]
                <5>1. \A a, z \in Nat : a + 4 + z = a + (4 + z)
                    OBVIOUS
                <5>2. pos[m] + 4 + s.size = pos[m] + (4 + s.size)
                    BY <2>3, <2>4, <5>1, Zenon
                <5>3. pos[k] = pos[m] + (4 + s.size)
                    BY <2>2, <4>1, Zenon
                <5>4. Len(t) = s.size
                    BY <4>2, Zenon
                <5> HIDE DEF t
                <5> QED
                    BY <5>2, <5>3, <5>4, Zenon
            <4>4. f[pos[m]] = <<t>> \o r
                BY <1>5, <2>4, <4>1, <4>2, <4>3
            <4>5. /\ r \in Seq(Seq(Byte)) /\ Len(r) = Cardinality(Between(W, k, N))
                  /\ \A j \in W : j > k => r[Cardinality(Between(W, k, j))] = Text(sends[j])
                BY <1>6, <3>2
            <4> HIDE DEF r, t
            <4>6. /\ <<t>> \o r \in Seq(Seq(Byte)) /\ Len(<<t>> \o r) = Len(r) + 1
                  /\ (<<t>> \o r)[1] = t /\ \A i \in 1..Len(r) : (<<t>> \o r)[i + 1] = r[i]
                BY <4>2, <4>5
            <4>7. \A j \in Int : j > m =>
                     Cardinality(Between(W, m, j)) = Cardinality(Between(W, k, j)) + 1
                BY <1>1, <1>2, <2>1, <3>3, <3>5, NextPlace
            <4>8. N \in Int /\ N > m
                BY <1>1, <2>1
            <4>9. Len(<<t>> \o r) = Cardinality(Between(W, m, N))
                BY <4>5, <4>6, <4>7, <4>8
            <4>10. ASSUME NEW j \in W, j > m
                   PROVE  (<<t>> \o r)[Cardinality(Between(W, m, j))] = Text(sends[j])
                <5>1. j \in Int
                    BY <1>2
                <5>2. Cardinality(Between(W, m, j)) = Cardinality(Between(W, k, j)) + 1
                    BY <4>7, <4>10, <5>1
                <5>3. CASE j = k
                    <6>1. Cardinality(Between(W, k, j)) = 0
                        BY <1>1, <1>2, <2>1, <5>3, Places
                    <6>2. Cardinality(Between(W, m, j)) = 1
                        BY <5>2, <6>1
                    <6> QED
                        BY <4>6, <5>3, <6>2 DEF t
                <5>4. CASE j # k
                    <6>1. j > k
                        BY <2>1, <4>10, <5>1, <5>4
                    <6> DEFINE c == Cardinality(Between(W, k, j))
                    <6>2. c >= 1 /\ c <= Len(r)
                        BY <1>1, <1>2, <2>1, <4>5, <6>1, Places
                    <6>3. c \in Nat /\ Len(r) \in Nat
                        <7>1. j \in 0..N /\ N \in 0..N
                            BY <1>1, <1>2
                        <7> QED
                            BY <1>1, <1>2, <2>1, <4>5, <7>1, Places
                    <6>4. (<<t>> \o r)[c + 1] = r[c]
                        <7> HIDE DEF c
                        <7>1. c \in 1..Len(r)
                            BY <6>2, <6>3
                        <7> QED
                            BY <4>6, <7>1
                    <6> QED
                        BY <4>5, <5>2, <6>1, <6>4
                <5> QED
                    BY <5>3, <5>4
            <4> QED
                BY <1>6, <4>4, <4>6, <4>9, <4>10 DEF r
        <3> QED
            BY <3>4, <3>5
    <2> QED
        BY <2>5, <2>6
<1> HIDE DEF S
<1>10. N \in S
    BY <1>1, <1>8, <1>9, Induction
<1>11. 0 \in 0..N /\ 0 + N = N /\ Clear(0)
    BY <1>1
<1>12. Tells(sends, 0, f[pos[0]])
    BY <1>10, <1>11 DEF S
<1> QED
    BY <1>3, <1>12

\* For every stream, however many writes it has and wherever they were cut: what is read is
\* what was wholly written, in order, up to the first cut, and nothing else.
THEOREM StreamsArePrefixes == Spec => []StreamIsPrefix
<1>1. AnswerInv => StreamIsPrefix
    <2> SUFFICES ASSUME AnswerInv, Decoded("stream") PROVE StreamIsPrefix
        BY DEF StreamIsPrefix
    <2> DEFINE sends == job.sends
    <2> DEFINE W == Whole(sends)
    <2>1. sends \in Seq(Sends)
        <3>1. job \in Jobs /\ job.kind = "stream"
            BY DEF AnswerInv, Decoded
        <3>2. /\ sends \in Seq([id : 9..122, size : Nat \ 0..2, out : Nat])
              /\ \A i \in DOMAIN sends : sends[i].out <= FrameSize(sends[i])
            BY <3>1, SendsAssumption DEF SendsAssumption
        <3> HIDE DEF sends
        <3>3. Len(sends) \in Nat /\ DOMAIN sends = 1..Len(sends) /\ sends = [i \in 1..Len(sends) |-> sends[i]]
            BY <3>2
        <3>4. \A i \in 1..Len(sends) : sends[i] \in [id : 9..122, size : Nat \ 0..2, out : Nat]
            BY <3>2, ElementOfSeq
        <3>5. \A i \in 1..Len(sends) : sends[i] \in Sends
            BY <3>2, <3>3, <3>4, Zenon DEF Sends
        <3>6. sends \in [1..Len(sends) -> Sends]
            BY <3>3, <3>5, Zenon
        <3> QED
            BY <3>3, <3>6, SeqDef
    <2>2. out = Received(Stream(sends))
        BY DEF AnswerInv
    <2> HIDE DEF sends
    <2>3. PICK pos : Layout(Stream(sends), sends, pos)
        BY <2>1, StreamLaid
    <2>4. Stream(sends) \in Seq(Byte)
        BY <2>3 DEF Layout
    <2>5. PICK f : f = From(Stream(sends), f) /\ out = f[0]
        BY <2>2, <2>4, ReceivedIs
    <2>6. Tells(sends, 0, out)
        BY <2>1, <2>3, <2>5, StreamTells
    <2>7. W = {k \in DOMAIN sends : Good(sends[k]) /\ \A j \in 1..k - 1 : ~Cut(sends[j])}
        BY DEF Whole
    <2>8. \A j \in W : j \in Int /\ 0 < j /\ j <= Len(sends)
        BY <2>1, <2>7
    <2>9. /\ Len(out) = Cardinality(Between(W, 0, Len(sends)))
          /\ \A k \in W : k > 0 => out[Cardinality(Between(W, 0, k))] = Text(sends[k])
        BY <2>6, Zenon DEF Tells
    <2> HIDE DEF W
    <2>10. Between(W, 0, Len(sends)) = W /\ \A k : Between(W, 0, k) = {j \in W : j <= k}
        BY <2>8, Zenon DEF Between
    <2>11. Len(out) = Cardinality(W) /\ \A k \in W : out[Cardinality({j \in W : j <= k})] = Text(sends[k])
        <3>1. \A k \in W : k > 0
            BY <2>8
        <3> QED
            BY <2>9, <2>10, <3>1, Zenon
    <2> QED
        BY <2>7, <2>11, Zenon DEF StreamIsPrefix, Good, Cut, sends
<1> QED
    BY <1>1, AnswersHold, PTL

-----------------------------------------------------------------------------
(* The powers of two.                                                       *)

\* The powers of two, as far as a read of bits needs them.
LEMMA Doubles ==
    /\ 2 ^ (0 + 1) = 2 * 2 ^ 0 /\ 2 ^ (1 + 1) = 2 * 2 ^ 1 /\ 2 ^ (2 + 1) = 2 * 2 ^ 2 /\ 2 ^ (3 + 1) = 2 * 2 ^ 3
    /\ 2 ^ (4 + 1) = 2 * 2 ^ 4 /\ 2 ^ (5 + 1) = 2 * 2 ^ 5 /\ 2 ^ (6 + 1) = 2 * 2 ^ 6 /\ 2 ^ (7 + 1) = 2 * 2 ^ 7
    /\ 2 ^ (8 + 1) = 2 * 2 ^ 8 /\ 2 ^ (9 + 1) = 2 * 2 ^ 9 /\ 2 ^ (10 + 1) = 2 * 2 ^ 10 /\ 2 ^ (11 + 1) = 2 * 2 ^ 11
    /\ 2 ^ (12 + 1) = 2 * 2 ^ 12 /\ 2 ^ (13 + 1) = 2 * 2 ^ 13 /\ 2 ^ (14 + 1) = 2 * 2 ^ 14 /\ 2 ^ (15 + 1) = 2 * 2 ^ 15
    /\ 2 ^ (16 + 1) = 2 * 2 ^ 16 /\ 2 ^ (17 + 1) = 2 * 2 ^ 17 /\ 2 ^ (18 + 1) = 2 * 2 ^ 18 /\ 2 ^ (19 + 1) = 2 * 2 ^ 19
    /\ 2 ^ (20 + 1) = 2 * 2 ^ 20 /\ 2 ^ (21 + 1) = 2 * 2 ^ 21 /\ 2 ^ (22 + 1) = 2 * 2 ^ 22 /\ 2 ^ (23 + 1) = 2 * 2 ^ 23
    /\ 2 ^ (24 + 1) = 2 * 2 ^ 24 /\ 2 ^ (25 + 1) = 2 * 2 ^ 25 /\ 2 ^ (26 + 1) = 2 * 2 ^ 26 /\ 2 ^ (27 + 1) = 2 * 2 ^ 27
    /\ 2 ^ (28 + 1) = 2 * 2 ^ 28 /\ 2 ^ (29 + 1) = 2 * 2 ^ 29 /\ 2 ^ (30 + 1) = 2 * 2 ^ 30 /\ 2 ^ (31 + 1) = 2 * 2 ^ 31
    OBVIOUS

\* Each is twice the one before.
LEMMA Twos == \A n \in 0..31 : 2 ^ (n + 1) = 2 * 2 ^ n
<1> SUFFICES ASSUME NEW n \in 0..31 PROVE 2 ^ (n + 1) = 2 * 2 ^ n
    OBVIOUS
<1>1. \/ n = 0 \/ n = 1 \/ n = 2 \/ n = 3 \/ n = 4 \/ n = 5 \/ n = 6 \/ n = 7
      \/ n = 8 \/ n = 9 \/ n = 10 \/ n = 11 \/ n = 12 \/ n = 13 \/ n = 14 \/ n = 15
      \/ n = 16 \/ n = 17 \/ n = 18 \/ n = 19 \/ n = 20 \/ n = 21 \/ n = 22 \/ n = 23
      \/ n = 24 \/ n = 25 \/ n = 26 \/ n = 27 \/ n = 28 \/ n = 29 \/ n = 30 \/ n = 31
    OBVIOUS
<1> QED
    BY <1>1, Doubles, ZenonT(60)

\* They are positive, and of a sum they are the product.
LEMMA PowerSum ==
    ASSUME NEW m \in Nat, NEW n \in Nat, m + n <= 32
    PROVE  2 ^ n \in Nat /\ 2 ^ n > 0 /\ 2 ^ (m + n) = 2 ^ m * 2 ^ n
<1> DEFINE p == [i \in 0..32 |-> 2 ^ i]
<1>1. p[0] = 1 /\ \A i \in 0..31 : p[i + 1] = 2 * p[i]
    <2>1. 2 ^ 0 = 1 /\ 0 \in 0..32 /\ \A i \in 0..31 : i \in 0..32 /\ i + 1 \in 0..32
        OBVIOUS
    <2> QED
        BY <2>1, Twos, Zenon
<1>2. \A i \in 0..32 : p[i] = 2 ^ i
    OBVIOUS
<1> HIDE DEF p
<1> DEFINE S == {i \in Nat : i <= 32 => p[i] \in Nat /\ p[i] > 0}
<1> DEFINE T == {i \in Nat : m + i <= 32 => p[m + i] = p[m] * p[i]}
<1>3. Nat \subseteq S
    <2>1. 0 \in S
        BY <1>1
    <2>2. ASSUME NEW i \in Nat, i \in S PROVE i + 1 \in S
        <3> SUFFICES ASSUME i + 1 <= 32 PROVE p[i + 1] \in Nat /\ p[i + 1] > 0
            OBVIOUS
        <3>1. p[i + 1] = 2 * p[i] /\ p[i] \in Nat /\ p[i] > 0
            BY <1>1, <2>2
        <3> QED
            BY <3>1
    <2> HIDE DEF S
    <2> QED
        BY <2>1, <2>2, Induction
<1>4. \A i \in 0..32 : p[i] \in Nat /\ p[i] > 0
    BY <1>3
<1>5. Nat \subseteq T
    <2>1. 0 \in T
        <3>1. m \in 0..32 /\ m + 0 = m
            OBVIOUS
        <3>2. p[m] * 1 = p[m]
            BY <1>4, <3>1
        <3> QED
            BY <1>1, <3>1, <3>2
    <2>2. ASSUME NEW i \in Nat, i \in T PROVE i + 1 \in T
        <3> SUFFICES ASSUME m + (i + 1) <= 32 PROVE p[m + (i + 1)] = p[m] * p[i + 1]
            OBVIOUS
        <3>1. /\ m \in 0..32 /\ i \in 0..32 /\ i \in 0..31 /\ m + i \in 0..31
              /\ (m + i) + 1 = m + (i + 1)
            OBVIOUS
        <3>2. p[m + (i + 1)] = 2 * p[m + i] /\ p[i + 1] = 2 * p[i]
            BY <1>1, <3>1
        <3>3. p[m + i] = p[m] * p[i] /\ p[m] \in Nat /\ p[i] \in Nat
            BY <1>4, <2>2, <3>1
        <3>4. \A x, y \in Nat : 2 * (x * y) = x * (2 * y)
            OBVIOUS
        <3> QED
            BY <3>2, <3>3, <3>4, ZenonT(40)
    <2> HIDE DEF T
    <2> QED
        BY <2>1, <2>2, Induction
<1>6. p[m + n] = p[m] * p[n]
    BY <1>5
<1>7. m \in 0..32 /\ n \in 0..32 /\ m + n \in 0..32
    OBVIOUS
<1> QED
    BY <1>2, <1>4, <1>6, <1>7, Zenon

\* What a product and less than one factor leaves, and how often that factor goes.
LEMMA Divides ==
    ASSUME NEW a \in Nat, NEW p \in Nat, p > 0, NEW r \in Nat, r < p
    PROVE  (a * p + r) % p = r /\ (a * p + r) \div p = a
    OBVIOUS

-----------------------------------------------------------------------------
(* The bits of a frame.                                                     *)

\* Bit k of a file; what its first j bits spell, for every j up to M; and what the n bits
\* from a on spell.
Bit(data, k)       == (ByteAt(data, k \div 8) \div 2 ^ (7 - (k % 8))) % 2
Prefix(data, M, h) == /\ h \in [0..M -> Int] /\ h[0] = 0
                      /\ \A j \in 1..M : h[j] = h[j - 1] * 2 + Bit(data, j - 1)
Window(h, a, n)    == h[a + n] - h[a] * 2 ^ n
Splits(h, a, m, n) == Window(h, a, m + n) = Window(h, a, m) * 2 ^ n + Window(h, a + m, n)
Grows(data, h, a, n) == Window(h, a, n + 1) = Window(h, a, n) * 2 + Bit(data, a + n)

\* What is read from a file is a byte, wherever.
LEMMA ByteType == ASSUME NEW data \in Seq(Byte), NEW i PROVE ByteAt(data, i) \in 0..255
<1>1. \A j \in DOMAIN data : data[j] \in Byte
    OBVIOUS
<1>2. Byte = 0..255 /\ 0 \in 0..255
    BY DEF Byte
<1> QED
    BY <1>1, <1>2, Zenon DEF ByteAt

\* A bit is 0 or 1.
LEMMA BitType == ASSUME NEW data \in Seq(Byte), NEW k \in Nat PROVE Bit(data, k) \in 0..1
<1> DEFINE b == ByteAt(data, k \div 8)
<1>1. b \in 0..255
    BY ByteType
<1>2. 7 - (k % 8) \in 0..7
    OBVIOUS
<1>3. 2 ^ (7 - (k % 8)) \in Nat /\ 2 ^ (7 - (k % 8)) > 0
    <2> DEFINE e == 7 - (k % 8)
    <2>1. e \in Nat /\ 0 + e <= 32
        BY <1>2
    <2> HIDE DEF e
    <2>2. 2 ^ e \in Nat /\ 2 ^ e > 0
        BY <2>1, PowerSum
    <2> QED
        BY <2>2 DEF e
<1> DEFINE d == 2 ^ (7 - (k % 8))
<1> HIDE DEF b, d
<1>4. d \in Nat /\ d > 0
    BY <1>3 DEF d
<1>5. b \div d \in Int
    BY <1>1, <1>4
<1>6. \A x \in Int : x % 2 \in 0..1
    OBVIOUS
<1>7. (b \div d) % 2 \in 0..1
    BY <1>5, <1>6, Zenon
<1> QED
    BY <1>7, Zenon DEF Bit, b, d

\* The numbers spelled by the first bits exist.
LEMMA PrefixIs ==
    ASSUME NEW data \in Seq(Byte), NEW M \in Nat PROVE \E h : Prefix(data, M, h)
<1> DEFINE G == [i \in 1..M |-> [x \in Int |-> x * 2 + Bit(data, i - 1)]]
<1>1. \A i \in 1..M : i - 1 \in Nat /\ Bit(data, i - 1) \in Int
    <2>1. \A i \in 1..M : i - 1 \in Nat
        OBVIOUS
    <2>2. \A x \in 0..1 : x \in Int
        OBVIOUS
    <2> QED
        BY <2>1, <2>2, BitType, Zenon
<1>2. G \in Steps(M, Int)
    BY <1>1 DEF Steps
<1>3. 0 \in Int
    OBVIOUS
<1>4. \A i \in 1..M, x \in Int : G[i][x] = x * 2 + Bit(data, i - 1)
    OBVIOUS
<1> HIDE DEF G
<1>5. PICK h : Iterates(h, 0, G, M, Int)
    BY <1>2, <1>3, Recursion
<1>6. \A j \in 1..M : h[j - 1] \in Int
    BY <1>5 DEF Iterates
<1>7. \A j \in 1..M : h[j] = h[j - 1] * 2 + Bit(data, j - 1)
    BY <1>4, <1>5, <1>6, Zenon DEF Iterates
<1> QED
    BY <1>5, <1>7, Zenon DEF Prefix, Iterates

\* A window grows by a bit.
LEMMA WindowGrows ==
    ASSUME NEW data \in Seq(Byte), NEW M \in Nat, NEW h, Prefix(data, M, h),
           NEW a \in Nat, NEW n \in 0..31, a + n < M
    PROVE  /\ Window(h, a, n) \in Int
           /\ Grows(data, h, a, n)
           /\ Bit(data, a + n) \in 0..1
<1>1. /\ a \in 0..M /\ a + n \in 0..M /\ (a + n) + 1 \in 1..M /\ a + n \in Nat
      /\ a + (n + 1) = (a + n) + 1 /\ ((a + n) + 1) - 1 = a + n /\ 0 + n <= 32
    OBVIOUS
<1>2. h[(a + n) + 1] = h[((a + n) + 1) - 1] * 2 + Bit(data, ((a + n) + 1) - 1)
    BY <1>1, Zenon DEF Prefix
<1>3. h[a + n] \in Int /\ h[a] \in Int
    BY <1>1 DEF Prefix
<1>4. 2 ^ (n + 1) = 2 * 2 ^ n /\ 2 ^ n \in Nat
    <2>1. 0 \in Nat /\ n \in Nat
        OBVIOUS
    <2>2. 2 ^ n \in Nat
        BY <1>1, <2>1, PowerSum, Zenon
    <2> QED
        BY <2>2, Twos, Zenon
<1>5. Bit(data, a + n) \in 0..1
    BY <1>1, BitType
<1>6. \A x, y, b \in Int : \A p \in Nat : x * 2 + b - y * (2 * p) = (x - y * p) * 2 + b
    OBVIOUS
<1>7. \A x, y \in Int : \A p \in Nat : x - y * p \in Int
    OBVIOUS
<1>8. Bit(data, a + n) \in Int
    BY <1>5
<1>9. h[a + (n + 1)] = h[a + n] * 2 + Bit(data, a + n)
    BY <1>1, <1>2, Zenon
<1>10. h[a + (n + 1)] - h[a] * 2 ^ (n + 1) = (h[a + n] - h[a] * 2 ^ n) * 2 + Bit(data, a + n)
    <2>1. h[a + (n + 1)] - h[a] * 2 ^ (n + 1) = (h[a + n] * 2 + Bit(data, a + n)) - h[a] * (2 * 2 ^ n)
        BY <1>4, <1>9, Zenon
    <2>2. (h[a + n] * 2 + Bit(data, a + n)) - h[a] * (2 * 2 ^ n) = (h[a + n] - h[a] * 2 ^ n) * 2 + Bit(data, a + n)
        <3> DEFINE x == h[a + n]
        <3> DEFINE y == h[a]
        <3> DEFINE p == 2 ^ n
        <3> DEFINE b == Bit(data, a + n)
        <3>1. x \in Int /\ y \in Int /\ p \in Nat /\ b \in Int
            BY <1>3, <1>4, <1>8
        <3> HIDE DEF x, y, p, b
        <3>2. (x * 2 + b) - y * (2 * p) = (x - y * p) * 2 + b
            BY <1>6, <3>1
        <3> QED
            BY <3>2, Zenon DEF x, y, p, b
    <2> QED
        BY <2>1, <2>2, Zenon
<1>11. h[a + n] - h[a] * 2 ^ n \in Int
    BY <1>3, <1>4, <1>7, Zenon
<1> QED
    BY <1>5, <1>10, <1>11, Zenon DEF Window, Grows

\* It is what its bits can spell.
LEMMA WindowRange ==
    ASSUME NEW data \in Seq(Byte), NEW M \in Nat, NEW h, Prefix(data, M, h),
           NEW a \in Nat, a <= M
    PROVE  /\ Window(h, a, 0) = 0
           /\ \A n \in 0..32 : a + n <= M => Window(h, a, n) \in Nat /\ Window(h, a, n) < 2 ^ n
<1> DEFINE S == {n \in Nat : n <= 32 /\ a + n <= M => Window(h, a, n) \in Nat /\ Window(h, a, n) < 2 ^ n}
<1>1. Window(h, a, 0) = 0
    <2>1. h[a] \in Int
        BY DEF Prefix
    <2>2. a + 0 = a /\ 2 ^ 0 = 1
        OBVIOUS
    <2>3. \A x \in Int : x - x * 1 = 0
        OBVIOUS
    <2> QED
        BY <2>1, <2>2, <2>3, Zenon DEF Window
<1>2. 0 \in S
    <2>1. 2 ^ 0 = 1
        OBVIOUS
    <2>2. 0 \in Nat /\ 0 < 1
        OBVIOUS
    <2> QED
        BY <1>1, <2>1, <2>2, Zenon
<1>3. ASSUME NEW n \in Nat, n \in S PROVE n + 1 \in S
    <2> SUFFICES ASSUME n + 1 <= 32, a + (n + 1) <= M
                 PROVE  Window(h, a, n + 1) \in Nat /\ Window(h, a, n + 1) < 2 ^ (n + 1)
        OBVIOUS
    <2>1. n \in 0..31 /\ a + n < M /\ n <= 32 /\ a + n <= M /\ 0 + n <= 32
        OBVIOUS
    <2>2. Window(h, a, n) \in Nat /\ Window(h, a, n) < 2 ^ n
        BY <1>3, <2>1
    <2>3. Grows(data, h, a, n) /\ Bit(data, a + n) \in 0..1
        BY <2>1, WindowGrows, Zenon
    <2>4. 2 ^ (n + 1) = 2 * 2 ^ n /\ 2 ^ n \in Nat
        BY <2>1, Twos, PowerSum
    <2>5. \A w, p \in Nat : \A b \in 0..1 : w < p => w * 2 + b \in Nat /\ w * 2 + b < 2 * p
        OBVIOUS
    <2> QED
        BY <2>2, <2>3, <2>4, <2>5, Zenon DEF Grows
<1> HIDE DEF S
<1>4. Nat \subseteq S
    BY <1>2, <1>3, Induction
<1>5. ASSUME NEW n \in 0..32, a + n <= M PROVE Window(h, a, n) \in Nat /\ Window(h, a, n) < 2 ^ n
    <2>1. n \in S /\ n <= 32
        BY <1>4
    <2> QED
        BY <1>5, <2>1, Zenon DEF S
<1> QED
    BY <1>1, <1>5

\* A window comes apart at any place.
LEMMA WindowSplit ==
    ASSUME NEW data \in Seq(Byte), NEW M \in Nat, NEW h, Prefix(data, M, h),
           NEW a \in Nat, NEW m \in Nat, NEW n \in Nat, m + n <= 32, a + (m + n) <= M
    PROVE  Splits(h, a, m, n)
<1>1. a \in 0..M /\ a + m \in 0..M /\ a + (m + n) \in 0..M /\ (a + m) + n = a + (m + n) /\ n + m <= 32
    OBVIOUS
<1>2. h[a] \in Int /\ h[a + m] \in Int /\ h[a + (m + n)] \in Int
    BY <1>1 DEF Prefix
<1>3. 2 ^ (m + n) = 2 ^ m * 2 ^ n /\ 2 ^ m \in Nat /\ 2 ^ n \in Nat
    BY <1>1, PowerSum
<1>4. \A x, y, z \in Int : \A p, q \in Nat : z - x * (p * q) = (y - x * p) * q + (z - y * q)
    OBVIOUS
<1> QED
    <2>1. h[a + (m + n)] - h[a] * (2 ^ m * 2 ^ n)
             = (h[a + m] - h[a] * 2 ^ m) * 2 ^ n + (h[a + (m + n)] - h[a + m] * 2 ^ n)
        <3> DEFINE x == h[a]
        <3> DEFINE y == h[a + m]
        <3> DEFINE z == h[a + (m + n)]
        <3> DEFINE p == 2 ^ m
        <3> DEFINE q == 2 ^ n
        <3>1. x \in Int /\ y \in Int /\ z \in Int /\ p \in Nat /\ q \in Nat
            BY <1>2, <1>3
        <3> HIDE DEF x, y, z, p, q
        <3>2. z - x * (p * q) = (y - x * p) * q + (z - y * q)
            BY <1>4, <3>1
        <3> QED
            BY <3>2, Zenon DEF x, y, z, p, q
    <2>2. /\ Window(h, a, m + n) = h[a + (m + n)] - h[a] * (2 ^ m * 2 ^ n)
          /\ Window(h, a, m) = h[a + m] - h[a] * 2 ^ m
          /\ Window(h, a + m, n) = h[a + (m + n)] - h[a + m] * 2 ^ n
        BY <1>1, <1>3, Zenon DEF Window
    <2> QED
        BY <2>1, <2>2, Zenon DEF Splits

\* Eight bits are a byte.
LEMMA WindowByte ==
    ASSUME NEW data \in Seq(Byte), NEW M \in Nat, NEW h, Prefix(data, M, h),
           NEW r \in Nat, 8 * r + 8 <= M
    PROVE  Window(h, 8 * r, 8) = ByteAt(data, r)
<1> DEFINE b == ByteAt(data, r)
<1> DEFINE w(n) == Window(h, 8 * r, n)
<1>1. b \in 0..255
    BY ByteType
<1>2. \A n \in 0..7 : /\ 8 * r + n < M /\ n \in 0..31 /\ 8 * r \in Nat
                      /\ (8 * r + n) \div 8 = r /\ (8 * r + n) % 8 = n
    OBVIOUS
<1>3. w(0) = 0
    <2>1. 8 * r \in Nat /\ 8 * r <= M
        OBVIOUS
    <2> QED
        BY <2>1, WindowRange, Zenon
<1>4. ASSUME NEW n \in 0..7 PROVE w(n + 1) = w(n) * 2 + ((b \div 2 ^ (7 - n)) % 2)
    <2>1. Grows(data, h, 8 * r, n)
        BY <1>2, WindowGrows, Zenon
    <2>2. Bit(data, 8 * r + n) = (b \div 2 ^ (7 - n)) % 2
        BY <1>2, Zenon DEF Bit
    <2> QED
        BY <2>1, <2>2, Zenon DEF Grows
<1> HIDE DEF b, w
<1>5. /\ w(0 + 1) = w(0) * 2 + ((b \div 2 ^ (7 - 0)) % 2)
      /\ w(1 + 1) = w(1) * 2 + ((b \div 2 ^ (7 - 1)) % 2)
      /\ w(2 + 1) = w(2) * 2 + ((b \div 2 ^ (7 - 2)) % 2)
      /\ w(3 + 1) = w(3) * 2 + ((b \div 2 ^ (7 - 3)) % 2)
      /\ w(4 + 1) = w(4) * 2 + ((b \div 2 ^ (7 - 4)) % 2)
      /\ w(5 + 1) = w(5) * 2 + ((b \div 2 ^ (7 - 5)) % 2)
      /\ w(6 + 1) = w(6) * 2 + ((b \div 2 ^ (7 - 6)) % 2)
      /\ w(7 + 1) = w(7) * 2 + ((b \div 2 ^ (7 - 7)) % 2)
    <2>1. {0, 1, 2, 3, 4, 5, 6, 7} \subseteq 0..7
        OBVIOUS
    <2> QED
        BY <1>4, <2>1, Zenon
<1>6. /\ w(1) = (b \div 128) % 2
      /\ w(2) = w(1) * 2 + ((b \div 64) % 2)
      /\ w(3) = w(2) * 2 + ((b \div 32) % 2)
      /\ w(4) = w(3) * 2 + ((b \div 16) % 2)
      /\ w(5) = w(4) * 2 + ((b \div 8) % 2)
      /\ w(6) = w(5) * 2 + ((b \div 4) % 2)
      /\ w(7) = w(6) * 2 + ((b \div 2) % 2)
      /\ w(8) = w(7) * 2 + (b % 2)
    BY <1>1, <1>3, <1>5, SMT
<1>7. w(8) = b
    <2>1. w(8) = (((((((((b \div 128) % 2) * 2 + ((b \div 64) % 2)) * 2 + ((b \div 32) % 2)) * 2
                       + ((b \div 16) % 2)) * 2 + ((b \div 8) % 2)) * 2 + ((b \div 4) % 2)) * 2
                       + ((b \div 2) % 2)) * 2) + (b % 2)
        BY <1>6, SMT
    <2>2. (b \div 128) % 2 = b \div 128
        BY <1>1, SMT
    <2> QED
        BY <1>1, <2>1, <2>2, SMTT(30)
<1> QED
    BY <1>7 DEF w, b

\* What bytes spell, their bits do.
LEMMA SpelledIsWindow ==
    ASSUME NEW data \in Seq(Byte), NEW M \in Nat, NEW h, Prefix(data, M, h),
           NEW q \in Nat, NEW k \in 0..4, 8 * q + 8 * k <= M
    PROVE  Spelled(data, q, k) = Window(h, 8 * q, 8 * k)
<1> DEFINE b(j) == ByteAt(data, q + j - 1)
<1> DEFINE v == CHOOSE w : w = [j \in 0..k |-> IF j = 0 THEN 0 ELSE w[j - 1] * 256 + b(j)]
<1> DEFINE g == [j \in 0..k |-> Window(h, 8 * q, 8 * j)]
<1>1. Spelled(data, q, k) = v[k]
    BY DEF Spelled, SpelledAfter
<1>2. g[0] = 0
    <2>1. 8 * q \in Nat /\ 8 * q <= M /\ 8 * 0 = 0 /\ 0 \in 0..k
        OBVIOUS
    <2>2. Window(h, 8 * q, 0) = 0
        BY <2>1, WindowRange, Zenon
    <2> QED
        BY <2>1, <2>2, Zenon
<1>3. ASSUME NEW j \in 1..k PROVE g[j] = g[j - 1] * 256 + b(j)
    <2> DEFINE m == 8 * (j - 1)
    <2> DEFINE r == q + j - 1
    <2>1. /\ j \in 0..k /\ j - 1 \in 0..k /\ 8 * j = m + 8 /\ m \in Nat /\ r \in Nat /\ 8 \in Nat /\ 8 * q \in Nat
          /\ m + 8 <= 32 /\ 8 * q + (m + 8) <= M /\ 8 * q + m = 8 * r /\ 8 * r + 8 <= M
        OBVIOUS
    <2>2. Window(h, 8 * q, m + 8) = Window(h, 8 * q, m) * 2 ^ 8 + Window(h, 8 * q + m, 8)
        <3> HIDE DEF m
        <3>1. Splits(h, 8 * q, m, 8)
            BY <2>1, WindowSplit, Zenon
        <3> QED
            BY <3>1, Zenon DEF Splits
    <2>3. Window(h, 8 * r, 8) = ByteAt(data, r)
        <3> HIDE DEF r
        <3> QED
            BY <2>1, WindowByte
    <2>4. 2 ^ 8 = 256
        OBVIOUS
    <2>5. g[j] = Window(h, 8 * q, m + 8) /\ g[j - 1] = Window(h, 8 * q, m)
        BY <2>1, Zenon
    <2> HIDE DEF g
    <2>6. Window(h, 8 * q + m, 8) = b(j)
        <3>1. 8 * q + m = 8 * r
            BY <2>1
        <3> QED
            BY <2>3, <3>1, Zenon DEF r
    <2> QED
        BY <2>2, <2>4, <2>5, <2>6, ZenonT(60)
<1>4. g = [j \in 0..k |-> g[j]]
    OBVIOUS
<1> HIDE DEF b, g
<1>5. g = [j \in 0..k |-> IF j = 0 THEN 0 ELSE g[j - 1] * 256 + b(j)]
    <2>1. \A j \in 0..k : j # 0 => j \in 1..k
        OBVIOUS
    <2>2. \A j \in 0..k : g[j] = IF j = 0 THEN 0 ELSE g[j - 1] * 256 + b(j)
        BY <1>2, <1>3, <2>1, Zenon
    <2> QED
        BY <1>4, <2>2, Zenon
<1>6. v = [j \in 0..k |-> IF j = 0 THEN 0 ELSE v[j - 1] * 256 + b(j)]
    BY <1>5
<1> HIDE DEF v
<1>7. 0 \in 0..k /\ \A j \in 1..k : j \in 0..k /\ j # 0
    OBVIOUS
<1>8. v[0] = g[0] /\ \A j \in 1..k : v[j - 1] = g[j - 1] => v[j] = g[j]
    <2>1. v[0] = 0
        BY <1>6, <1>7, Zenon
    <2>2. \A j \in 1..k : v[j] = v[j - 1] * 256 + b(j)
        BY <1>6, <1>7, Zenon
    <2>3. ASSUME NEW j \in 1..k, v[j - 1] = g[j - 1] PROVE v[j] = g[j]
        BY <1>3, <2>2, <2>3, Zenon
    <2> QED
        BY <1>2, <2>1, <2>3, Zenon
<1>9. k \in Nat /\ k \in 0..k
    OBVIOUS
<1>10. v[k] = g[k]
    <2>1. \A j \in 0..k : v[j] = g[j]
        <3>1. Alike(v, g, k)
            BY <1>8, Zenon DEF Alike
        <3> QED
            <4>1. Same(v, g, k)
                BY <1>9, <3>1, SameSteps, Zenon
            <4> QED
                BY <4>1, Zenon DEF Same
    <2> QED
        BY <1>9, <2>1
<1> QED
    BY <1>1, <1>9, <1>10, Zenon DEF g

Peeks(data, h, bit, n) == bitreaderPeek(data, bit, n) = Window(h, bit, n)

\* A read of no more than fits in four bytes, far enough from the end, is its window.
LEMMA PeekIsWindow ==
    ASSUME NEW data \in Seq(Byte), NEW M \in Nat, NEW h, Prefix(data, M, h),
           NEW bit \in Nat, NEW n \in Nat, n > 0, (bit % 8) + n <= 32, bit + 32 <= M,
           bit + n + 16 <= 8 * Len(data)
    PROVE  Peeks(data, h, bit, n)
<1> DEFINE q == bit \div 8
<1> DEFINE rem == bit % 8
<1> DEFINE k == PeekBytes(n + rem, 8 * Len(data) - bit)
<1> DEFINE e == 8 * k - rem
<1> DEFINE s == e - n
<1>1. q \in Nat /\ rem \in 0..7 /\ bit = 8 * q + rem /\ Len(data) \in Nat
    OBVIOUS
<1>2. k \in 1..4 /\ n + rem <= 8 * k
    <2> DEFINE left == 8 * Len(data) - bit
    <2>1. left \in Int /\ left >= n + 16
        BY <1>1
    <2> HIDE DEF left, rem
    <2> QED
        BY <1>1, <2>1 DEF PeekBytes, rem
<1>3. bitreaderPeek(data, bit, n) = (Spelled(data, q, k) % 2 ^ e) \div 2 ^ s
    <2>1. 8 * k - rem - n = s /\ ~(s < 0)
        BY <1>1, <1>2
    <2>2. ~(bit + n > 8 * Len(data) \/ n = 0)
        BY <1>1
    <2> QED
        BY <2>1, <2>2, Zenon DEF bitreaderPeek
<1> HIDE DEF q, rem, k
<1>4. /\ e \in Nat /\ s \in Nat /\ e = n + s /\ 8 * k = rem + e /\ rem + e <= 32 /\ n + s <= 32
      /\ 8 * q \in Nat /\ rem \in Nat /\ k \in 0..4 /\ 8 * q + 8 * k <= M /\ 8 * q + (rem + e) <= M
      /\ 8 * q + rem = bit /\ bit + (n + s) <= M
    BY <1>1, <1>2
<1> HIDE DEF e, s
<1>5. Spelled(data, q, k) = Window(h, 8 * q, rem) * 2 ^ e + Window(h, bit, e)
    <2>1. Spelled(data, q, k) = Window(h, 8 * q, 8 * k)
        BY <1>1, <1>4, SpelledIsWindow
    <2>2. Window(h, 8 * q, rem + e) = Window(h, 8 * q, rem) * 2 ^ e + Window(h, 8 * q + rem, e)
        <3>1. Splits(h, 8 * q, rem, e)
            BY <1>4, WindowSplit, Zenon
        <3> QED
            BY <3>1, Zenon DEF Splits
    <2> QED
        BY <1>4, <2>1, <2>2, Zenon
<1>6. Window(h, bit, e) = Window(h, bit, n) * 2 ^ s + Window(h, bit + n, s)
    <2>1. Window(h, bit, n + s) = Window(h, bit, n) * 2 ^ s + Window(h, bit + n, s)
        <3>1. Splits(h, bit, n, s)
            BY <1>4, WindowSplit, Zenon
        <3> QED
            BY <3>1, Zenon DEF Splits
    <2> QED
        BY <1>4, <2>1, Zenon
<1>7. /\ Window(h, 8 * q, rem) \in Nat /\ Window(h, bit, e) \in Nat /\ Window(h, bit, e) < 2 ^ e
      /\ Window(h, bit, n) \in Nat /\ Window(h, bit + n, s) \in Nat /\ Window(h, bit + n, s) < 2 ^ s
    <2>1. /\ rem \in 0..32 /\ e \in 0..32 /\ n \in 0..32 /\ s \in 0..32 /\ bit + n \in Nat
          /\ 8 * q <= M /\ 8 * q + rem <= M /\ bit <= M /\ bit + e <= M /\ bit + n <= M /\ (bit + n) + s <= M
        BY <1>1, <1>4
    <2> QED
        BY <1>4, <2>1, WindowRange, Zenon
<1>8. 2 ^ e \in Nat /\ 2 ^ e > 0 /\ 2 ^ s \in Nat /\ 2 ^ s > 0
    <2>1. 0 \in Nat /\ 0 + e <= 32 /\ 0 + s <= 32
        BY <1>4
    <2> QED
        BY <1>4, <2>1, PowerSum, Zenon
<1>9. (Window(h, 8 * q, rem) * 2 ^ e + Window(h, bit, e)) % 2 ^ e = Window(h, bit, e)
    BY <1>7, <1>8, Divides
<1>10. (Window(h, bit, n) * 2 ^ s + Window(h, bit + n, s)) \div 2 ^ s = Window(h, bit, n)
    BY <1>7, <1>8, Divides
<1> QED
    BY <1>3, <1>5, <1>6, <1>9, <1>10, Zenon DEF Peeks

\* For every read of a frame that keeps away from its checksum: the bits come out in their
\* order; and every read past the end is 0.
THEOREM BitsComeOut == Spec => []BitsAreRead
<1>1. AnswerInv => BitsAreRead
    <2> SUFFICES ASSUME AnswerInv, Decoded("bits") PROVE BitsAreRead
        BY DEF BitsAreRead
    <2> DEFINE data == job.data
    <2> DEFINE bit == job.bit
    <2> DEFINE n == job.n
    <2> DEFINE v == CHOOSE w : w = [j \in 0..n |-> IF j = 0 THEN 0 ELSE w[j - 1] * 2 + Bit(data, bit + j - 1)]
    <2>1. /\ data \in Seq(Byte) /\ bit \in Nat /\ n \in Nat /\ (bit % 8) + n <= 32
          /\ out = bitreaderPeek(data, bit, n)
        <3>1. job \in Jobs /\ job.kind = "bits"
            BY DEF AnswerInv, Decoded
        <3>2. data \in Seq(Byte) /\ bit \in Nat /\ n \in Nat /\ (bit % 8) + n <= 32
            BY <3>1, ReadsAssumption DEF ReadsAssumption, Byte
        <3> QED
            BY <3>2 DEF AnswerInv
    <2> HIDE DEF data, bit, n
    <2>2. bit + n > 8 * Len(data) => out = 0
        BY <2>1, Zenon DEF bitreaderPeek
    <2>3. ASSUME bit + n + 16 <= 8 * Len(data) PROVE out = v[n]
        <3> DEFINE M == bit + 32
        <3> DEFINE b(j) == Bit(data, bit + j - 1)
        <3>1. PICK h : Prefix(data, M, h)
            <4>1. M \in Nat
                BY <2>1
            <4> QED
                BY <2>1, <4>1, PrefixIs, Zenon
        <3> DEFINE g == [j \in 0..n |-> Window(h, bit, j)]
        <3>2. n <= 32 /\ bit \in Nat /\ bit <= M /\ M \in Nat
            <4>1. bit % 8 >= 0
                BY <2>1
            <4> HIDE DEF v
            <4> QED
                BY <2>1, <4>1
        <3>3. g[0] = 0
            <4>1. Window(h, bit, 0) = 0
                BY <2>1, <3>1, <3>2, WindowRange, Zenon
            <4>2. 0 \in 0..n
                BY <2>1
            <4> QED
                BY <4>1, <4>2, Zenon
        <3>4. ASSUME NEW j \in 1..n PROVE g[j] = g[j - 1] * 2 + b(j)
            <4> DEFINE i == j - 1
            <4>1. /\ i \in 0..31 /\ bit + i < M /\ j = i + 1 /\ j \in 0..n /\ i \in 0..n /\ bit + j - 1 = bit + i
                BY <2>1, <3>2
            <4>2. Grows(data, h, bit, i)
                <5> HIDE DEF i, M
                <5> QED
                    BY <2>1, <3>1, <3>2, <4>1, WindowGrows, Zenon
            <4>3. g[j] = Window(h, bit, i + 1) /\ g[i] = Window(h, bit, i)
                BY <4>1, Zenon
            <4> HIDE DEF g
            <4> QED
                BY <4>1, <4>2, <4>3, Zenon DEF Grows
        <3>5. g = [j \in 0..n |-> g[j]]
            OBVIOUS
        <3> HIDE DEF b, g, M
        <3>6. g = [j \in 0..n |-> IF j = 0 THEN 0 ELSE g[j - 1] * 2 + b(j)]
            <4>1. \A j \in 0..n : j # 0 => j \in 1..n
                BY <2>1
            <4>2. \A j \in 0..n : g[j] = IF j = 0 THEN 0 ELSE g[j - 1] * 2 + b(j)
                BY <3>3, <3>4, <4>1, Zenon
            <4> QED
                BY <3>5, <4>2, Zenon
        <3>7. v = [j \in 0..n |-> IF j = 0 THEN 0 ELSE v[j - 1] * 2 + b(j)]
            BY <3>6 DEF b
        <3> HIDE DEF v
        <3>8. 0 \in 0..n /\ n \in 0..n /\ \A j \in 1..n : j \in 0..n /\ j # 0
            BY <2>1
        <3>9. Alike(v, g, n)
            <4>1. v[0] = 0
                BY <3>7, <3>8, Zenon
            <4>2. \A j \in 1..n : v[j] = v[j - 1] * 2 + b(j)
                BY <3>7, <3>8, Zenon
            <4>3. ASSUME NEW j \in 1..n, v[j - 1] = g[j - 1] PROVE v[j] = g[j]
                BY <3>4, <4>2, <4>3, Zenon
            <4> QED
                BY <3>3, <4>1, <4>3, Zenon DEF Alike
        <3>10. v[n] = Window(h, bit, n)
            <4>1. v[n] = g[n]
                <5>1. Same(v, g, n)
                    BY <2>1, <3>9, SameSteps, Zenon
                <5> QED
                    BY <3>8, <5>1, Zenon DEF Same
            <4> QED
                BY <3>8, <4>1, Zenon DEF g
        <3>11. CASE n = 0
            <4>1. out = 0
                BY <2>1, <3>11, Zenon DEF bitreaderPeek
            <4>2. v[n] = 0
                BY <3>7, <3>8, <3>11, Zenon
            <4> QED
                BY <4>1, <4>2, Zenon
        <3>12. CASE n > 0
            <4>1. bit + 32 <= M
                BY <2>1 DEF M
            <4>2. bitreaderPeek(data, bit, n) = Window(h, bit, n)
                <5>1. Peeks(data, h, bit, n)
                    BY <2>1, <2>3, <3>1, <3>2, <3>12, <4>1, PeekIsWindow, Zenon
                <5> QED
                    BY <5>1, Zenon DEF Peeks
            <4> QED
                BY <2>1, <3>10, <4>2, Zenon
        <3> QED
            BY <2>1, <3>11, <3>12
    <2> QED
        BY <2>2, <2>3, Zenon DEF BitsAreRead, Bit, data, bit, n
<1> QED
    BY <1>1, AnswersHold, PTL

-----------------------------------------------------------------------------
(* USM files.                                                               *)

\* What a file consists of, and what a chunk of it is.
Sigs   == {"sig"} \X Signatures
Nums   == {"num"} \X Nat
Cells  == Sigs \cup Nums \cup Contents
Room(c) == 8 + c.header + Len(c.content) + c.pad

\* u is s and behind it t, of lengths m and n.
Behind(D, u, s, m, t, n) ==
    /\ u \in Seq(D) /\ Len(u) = m + n
    /\ \A i \in 1..m : u[i] = s[i]
    /\ \A i \in 1..n : u[m + i] = t[i]

\* One sequence put behind another.
LEMMA Appended ==
    ASSUME NEW D, NEW s \in Seq(D), NEW t \in Seq(D)
    PROVE  Behind(D, s \o t, s, Len(s), t, Len(t))
    BY DEF Behind

\* The fields of a chunk stand where the code looks for them.
HasFields(D, w, a, b, d, e, m, content, p) ==
    /\ w \in Seq(D) /\ Len(w) = 11 + m + Len(content) + p
    /\ w[1] = a /\ w[5] = b /\ w[9] = d /\ w[11] = e
    /\ \A i \in 1..Len(content) : w[11 + m + i] = content[i]

\* Whatever they hold.
LEMMA FieldsStand ==
    ASSUME NEW D, NEW a \in D, NEW b \in D, NEW d \in D, NEW e \in D,
           NEW m \in Nat, NEW p \in Nat, NEW content \in Seq(D), NEW F,
           \A n \in Nat : F[n] \in Seq(D) /\ Len(F[n]) = n
    PROVE  HasFields(D, <<a>> \o F[3] \o <<b>> \o F[3] \o <<d>> \o F[1] \o <<e>> \o F[m] \o content \o F[p],
                     a, b, d, e, m, content, p)
<1> DEFINE s0 == <<a>>
<1> DEFINE s1 == s0 \o F[3]
<1> DEFINE s2 == s1 \o <<b>>
<1> DEFINE s3 == s2 \o F[3]
<1> DEFINE s4 == s3 \o <<d>>
<1> DEFINE s5 == s4 \o F[1]
<1> DEFINE s6 == s5 \o <<e>>
<1> DEFINE s7 == s6 \o F[m]
<1> DEFINE s8 == s7 \o content
<1> DEFINE s9 == s8 \o F[p]
<1> SUFFICES /\ s9 \in Seq(D) /\ Len(s9) = 11 + m + Len(content) + p
             /\ s9[1] = a /\ s9[5] = b /\ s9[9] = d /\ s9[11] = e
             /\ \A i \in 1..Len(content) : s9[11 + m + i] = content[i]
    BY DEF HasFields
<1>1. Len(content) \in Nat
    OBVIOUS
<1>10. s0 \in Seq(D) /\ Len(s0) = 1 /\ s0[1] = a
    OBVIOUS
<1> HIDE DEF s0
<1>11. /\ s1 \in Seq(D) /\ Len(s1) = 4
      /\ s1[1] = a
    <2> DEFINE t == F[3]
    <2>1. t \in Seq(D) /\ Len(t) = 3
        OBVIOUS
    <2>2. Behind(D, s0 \o t, s0, Len(s0), t, Len(t))
        BY <1>10, <2>1, Appended, Zenon
    <2> HIDE DEF t
    <2> QED
        BY <1>1, <1>10, <2>1, <2>2 DEF t, Behind
<1> HIDE DEF s1
<1>12. /\ s2 \in Seq(D) /\ Len(s2) = 5
      /\ s2[1] = a /\ s2[5] = b
    <2> DEFINE t == <<b>>
    <2>1. t \in Seq(D) /\ Len(t) = 1 /\ t[1] = b
        OBVIOUS
    <2>2. Behind(D, s1 \o t, s1, Len(s1), t, Len(t))
        BY <1>11, <2>1, Appended, Zenon
    <2> HIDE DEF t
    <2> QED
        BY <1>1, <1>11, <2>1, <2>2 DEF t, Behind
<1> HIDE DEF s2
<1>13. /\ s3 \in Seq(D) /\ Len(s3) = 8
      /\ s3[1] = a /\ s3[5] = b
    <2> DEFINE t == F[3]
    <2>1. t \in Seq(D) /\ Len(t) = 3
        OBVIOUS
    <2>2. Behind(D, s2 \o t, s2, Len(s2), t, Len(t))
        BY <1>12, <2>1, Appended, Zenon
    <2> HIDE DEF t
    <2> QED
        BY <1>1, <1>12, <2>1, <2>2 DEF t, Behind
<1> HIDE DEF s3
<1>14. /\ s4 \in Seq(D) /\ Len(s4) = 9
      /\ s4[1] = a /\ s4[5] = b /\ s4[9] = d
    <2> DEFINE t == <<d>>
    <2>1. t \in Seq(D) /\ Len(t) = 1 /\ t[1] = d
        OBVIOUS
    <2>2. Behind(D, s3 \o t, s3, Len(s3), t, Len(t))
        BY <1>13, <2>1, Appended, Zenon
    <2> HIDE DEF t
    <2> QED
        BY <1>1, <1>13, <2>1, <2>2 DEF t, Behind
<1> HIDE DEF s4
<1>15. /\ s5 \in Seq(D) /\ Len(s5) = 10
      /\ s5[1] = a /\ s5[5] = b /\ s5[9] = d
    <2> DEFINE t == F[1]
    <2>1. t \in Seq(D) /\ Len(t) = 1
        OBVIOUS
    <2>2. Behind(D, s4 \o t, s4, Len(s4), t, Len(t))
        BY <1>14, <2>1, Appended, Zenon
    <2> HIDE DEF t
    <2> QED
        BY <1>1, <1>14, <2>1, <2>2 DEF t, Behind
<1> HIDE DEF s5
<1>16. /\ s6 \in Seq(D) /\ Len(s6) = 11
      /\ s6[1] = a /\ s6[5] = b /\ s6[9] = d /\ s6[11] = e
    <2> DEFINE t == <<e>>
    <2>1. t \in Seq(D) /\ Len(t) = 1 /\ t[1] = e
        OBVIOUS
    <2>2. Behind(D, s5 \o t, s5, Len(s5), t, Len(t))
        BY <1>15, <2>1, Appended, Zenon
    <2> HIDE DEF t
    <2> QED
        BY <1>1, <1>15, <2>1, <2>2 DEF t, Behind
<1> HIDE DEF s6
<1>17. /\ s7 \in Seq(D) /\ Len(s7) = 11 + m
      /\ s7[1] = a /\ s7[5] = b /\ s7[9] = d /\ s7[11] = e
    <2> DEFINE t == F[m]
    <2>1. t \in Seq(D) /\ Len(t) = m
        OBVIOUS
    <2>2. Behind(D, s6 \o t, s6, Len(s6), t, Len(t))
        BY <1>16, <2>1, Appended, Zenon
    <2> HIDE DEF t
    <2> QED
        BY <1>1, <1>16, <2>1, <2>2 DEF t, Behind
<1> HIDE DEF s7
<1>18. /\ s8 \in Seq(D) /\ Len(s8) = 11 + m + Len(content)
      /\ s8[1] = a /\ s8[5] = b /\ s8[9] = d /\ s8[11] = e
      /\ \A i \in 1..Len(content) : s8[11 + m + i] = content[i]
    <2> DEFINE t == content
    <2>1. t \in Seq(D) /\ Len(t) = Len(content)
        OBVIOUS
    <2>2. Behind(D, s7 \o t, s7, Len(s7), t, Len(t))
        BY <1>17, <2>1, Appended, Zenon
    <2> HIDE DEF t
    <2> QED
        BY <1>1, <1>17, <2>1, <2>2 DEF t, Behind
<1> HIDE DEF s8
<1>19. /\ s9 \in Seq(D) /\ Len(s9) = 11 + m + Len(content) + p
      /\ s9[1] = a /\ s9[5] = b /\ s9[9] = d /\ s9[11] = e
      /\ \A i \in 1..Len(content) : s9[11 + m + i] = content[i]
    <2> DEFINE t == F[p]
    <2>1. t \in Seq(D) /\ Len(t) = p
        OBVIOUS
    <2>2. Behind(D, s8 \o t, s8, Len(s8), t, Len(t))
        BY <1>18, <2>1, Appended, Zenon
    <2> HIDE DEF t
    <2> QED
        BY <1>1, <1>18, <2>1, <2>2 DEF t, Behind
<1> QED
    BY <1>19

\* The cells of a chunk.
LEMMA ChunkIs ==
    ASSUME NEW c \in ChunkOf
    PROVE  /\ ChunkCells(c) \in Seq(Cells) /\ Len(ChunkCells(c)) = Room(c)
           /\ ChunkCells(c)[1] = <<"sig", c.sig>>
           /\ ChunkCells(c)[5] = <<"num", c.header + Len(c.content) + c.pad>>
           /\ ChunkCells(c)[9] = <<"num", c.header>> /\ ChunkCells(c)[11] = <<"num", c.footer>>
           /\ \A i \in 1..Len(c.content) : ChunkCells(c)[8 + c.header + i] = c.content[i]
<1> DEFINE n == c.header + Len(c.content) + c.pad
<1> DEFINE F == [k \in Nat |-> Fill(k)]
<1> DEFINE m == c.header - 3
<1>1. /\ c.sig \in Signatures /\ c.header \in Nat /\ c.footer \in Nat /\ c.pad \in Nat
      /\ c.content \in Seq(Contents) /\ Len(c.content) \in Nat /\ n \in Nat /\ m \in Nat
      /\ 11 + m = 8 + c.header /\ 11 + m + Len(c.content) + c.pad = Room(c)
    BY DEF ChunkOf, Room
<1>2. \A k \in Nat : F[k] = Fill(k) /\ Fill(k) \in Seq(Cells) /\ Len(Fill(k)) = k
    BY DEF Fill, Cells, Contents
<1>3. /\ <<"sig", c.sig>> \in Cells /\ <<"num", n>> \in Cells
      /\ <<"num", c.header>> \in Cells /\ <<"num", c.footer>> \in Cells /\ <<"byte", 0>> \in Cells
    BY <1>1 DEF Cells, Sigs, Nums, Contents
<1>4. c.content \in Seq(Cells)
    <2>1. Contents \subseteq Cells
        BY DEF Cells
    <2> QED
        BY <1>1, <2>1, SeqMonotonic
<1> DEFINE w == <<<<"sig", c.sig>>>> \o F[3] \o <<<<"num", n>>>> \o F[3] \o <<<<"num", c.header>>>>
                \o F[1] \o <<<<"num", c.footer>>>> \o F[m] \o c.content \o F[c.pad]
<1>5. ChunkCells(c) = w
    <2>1. F[3] = Fill(3) /\ F[1] = Fill(1) /\ F[m] = Fill(m) /\ F[c.pad] = Fill(c.pad)
        BY <1>1, <1>2
    <2> HIDE DEF F
    <2> QED
        BY <2>1, Zenon DEF ChunkCells
<1> HIDE DEF F, n, m
<1>6. HasFields(Cells, w, <<"sig", c.sig>>, <<"num", n>>, <<"num", c.header>>, <<"num", c.footer>>,
                m, c.content, c.pad)
    <2>1. \A k \in Nat : F[k] \in Seq(Cells) /\ Len(F[k]) = k
        BY <1>2
    <2> QED
        BY <1>1, <1>3, <1>4, <2>1, FieldsStand, Zenon
<1> HIDE DEF w
<1> QED
    BY <1>1, <1>5, <1>6, Zenon DEF n, HasFields

-----------------------------------------------------------------------------
(* What the code reads of a chunk.                                          *)

\* A chunk stands in a file at position p.
Stands(file, c, p) ==
    /\ p + Room(c) <= Len(file)
    /\ \A i \in 1..Room(c) : file[p + i] = ChunkCells(c)[i]

\* What is read of a file, in general.
LEMMA CellType ==
    ASSUME NEW file \in Seq(Cells), NEW p
    PROVE  Cell(file, p) \in Cells /\ Field(file, p) \in Nat
<1>1. Cell(file, p) \in Cells
    <2>1. \A i \in DOMAIN file : file[i] \in Cells
        OBVIOUS
    <2>2. <<"byte", 0>> \in Cells
        BY DEF Cells, Contents
    <2> QED
        BY <2>1, <2>2, Zenon DEF Cell
<1>2. ASSUME NEW x \in Cells, x[1] = "num" PROVE x[2] \in Nat
    BY <1>2 DEF Cells, Sigs, Nums, Contents
<1>3. 0 \in Nat
    OBVIOUS
<1> QED
    BY <1>1, <1>2, <1>3, Zenon DEF Field, Kind

\* Of a chunk that stands there: its signature, its successor, its mark and its content.
LEMMA ChunkRead ==
    ASSUME NEW file \in Seq(Cells), NEW c \in ChunkOf, NEW p \in Nat, Stands(file, c, p)
    PROVE  /\ Sig(file, p) = c.sig /\ NextChunk(file, p) = p + Room(c)
           /\ c.header = 24 => Mark(file, p) = IF c.content[1][1] = "mark" THEN c.content[1][2] ELSE "none"
           /\ c.header = 24 /\ c.footer = c.pad =>
                 /\ ContentLength(file, p) = Len(c.content)
                 /\ processChunk(file, p) = IF c.sig = "@SFV" THEN c.content ELSE << >>
<1>1. /\ c.header \in Nat /\ c.footer \in Nat /\ c.pad \in Nat /\ c.content \in Seq(Contents)
      /\ Len(c.content) \in Nat /\ Len(c.content) > 0 /\ c.header >= 3 /\ Room(c) \in Nat
      /\ Room(c) = 8 + c.header + Len(c.content) + c.pad /\ Len(file) \in Nat
    BY DEF ChunkOf, Room
<1>2. ASSUME NEW i \in 1..Room(c) PROVE Cell(file, p + i - 1) = ChunkCells(c)[i]
    <2>1. (p + i - 1) + 1 = p + i /\ p + i \in 1..Len(file)
        <3>1. p + Room(c) <= Len(file)
            BY DEF Stands
        <3>2. \A r, l \in Nat : \A k \in 1..r : p + r <= l => (p + k - 1) + 1 = p + k /\ p + k \in 1..l
            OBVIOUS
        <3> QED
            BY <1>1, <3>1, <3>2, Zenon
    <2>2. p + i \in DOMAIN file
        BY <2>1
    <2>3. file[p + i] = ChunkCells(c)[i]
        BY DEF Stands
    <2> QED
        BY <2>1, <2>2, <2>3, Zenon DEF Cell
<1>3. /\ Cell(file, p) = <<"sig", c.sig>>
      /\ Cell(file, p + 4) = <<"num", c.header + Len(c.content) + c.pad>>
      /\ Cell(file, p + 8) = <<"num", c.header>>
      /\ Cell(file, p + 10) = <<"num", c.footer>>
    <2>1. /\ {1, 5, 9, 11} \subseteq 1..Room(c)
          /\ p + 1 - 1 = p /\ p + 5 - 1 = p + 4 /\ p + 9 - 1 = p + 8 /\ p + 11 - 1 = p + 10
        BY <1>1
    <2>2. /\ Cell(file, p + 1 - 1) = ChunkCells(c)[1] /\ Cell(file, p + 5 - 1) = ChunkCells(c)[5]
          /\ Cell(file, p + 9 - 1) = ChunkCells(c)[9] /\ Cell(file, p + 11 - 1) = ChunkCells(c)[11]
        BY <1>2, <2>1, Zenon
    <2> QED
        BY <2>1, <2>2, ChunkIs, Zenon
<1>4. Sig(file, p) = c.sig
    <2>1. <<"sig", c.sig>>[1] = "sig" /\ <<"sig", c.sig>>[2] = c.sig
        OBVIOUS
    <2> QED
        BY <1>3, <2>1, Zenon DEF Sig, Kind
<1>5. /\ Field(file, p + 4) = c.header + Len(c.content) + c.pad
      /\ Field(file, p + 8) = c.header /\ Field(file, p + 10) = c.footer
    <2>1. ASSUME NEW q, NEW v, Cell(file, q) = <<"num", v>> PROVE Field(file, q) = v
        <3>1. <<"num", v>>[1] = "num" /\ <<"num", v>>[2] = v
            OBVIOUS
        <3> QED
            BY <2>1, <3>1, Zenon DEF Field, Kind
    <2> QED
        BY <1>3, <2>1, Zenon
<1>6. NextChunk(file, p) = p + Room(c)
    <2> DEFINE h == c.header
    <2> DEFINE l == Len(c.content)
    <2> DEFINE d == c.pad
    <2> DEFINE r == Room(c)
    <2>1. NextChunk(file, p) = p + 8 + (h + l + d)
        BY <1>5, Zenon DEF NextChunk
    <2>2. h \in Nat /\ l \in Nat /\ d \in Nat /\ r = 8 + h + l + d
        BY <1>1
    <2> HIDE DEF h, l, d, r
    <2>3. NextChunk(file, p) = p + r
        BY <2>1, <2>2
    <2> QED
        BY <2>3 DEF r
<1>7. ASSUME c.header = 24, NEW i \in 1..Len(c.content)
      PROVE  Cell(file, p + 32 + i - 1) = c.content[i]
    <2>1. 32 + i \in 1..Room(c) /\ p + (32 + i) - 1 = p + 32 + i - 1 /\ 8 + c.header + i = 32 + i
        BY <1>1, <1>7
    <2> QED
        BY <1>2, <2>1, ChunkIs, Zenon
<1>8. c.header = 24 => Mark(file, p) = IF c.content[1][1] = "mark" THEN c.content[1][2] ELSE "none"
    <2>1. 1 \in 1..Len(c.content) /\ p + 32 + 1 - 1 = p + 32
        BY <1>1
    <2> QED
        BY <1>7, <2>1, Zenon DEF Mark, Kind
<1>9. ASSUME c.header = 24, c.footer = c.pad
      PROVE  /\ ContentLength(file, p) = Len(c.content)
             /\ processChunk(file, p) = IF c.sig = "@SFV" THEN c.content ELSE << >>
    <2>1. ContentLength(file, p) = Len(c.content)
        BY <1>1, <1>5, <1>9 DEF ContentLength
    <2>2. c.content = [i \in 1..Len(c.content) |-> c.content[i]]
        BY <1>1
    <2>3. [i \in 1..Len(c.content) |-> Cell(file, p + 32 + i - 1)] = c.content
        BY <1>7, <1>9, <2>2, Zenon
    <2> QED
        BY <1>4, <2>1, <2>3, Zenon DEF processChunk
<1> QED
    BY <1>4, <1>6, <1>8, <1>9

-----------------------------------------------------------------------------
(* Where the chunks of a file stand.                                        *)

\* Numbers that rise: none is above the last, and none below its share.
LEMMA Rising ==
    ASSUME NEW N \in Nat, NEW pos \in [0..N -> Nat], pos[0] = 0,
           \A k \in 1..N : pos[k] >= pos[k - 1] + 8
    PROVE  \A k \in 0..N : pos[k] <= pos[N] /\ 8 * k <= pos[k]
<1> DEFINE S == {d \in Nat : \A k \in 0..N : k + d = N => pos[k] <= pos[N]}
<1> DEFINE T == {k \in Nat : k <= N => 8 * k <= pos[k]}
<1>1. 0 \in S /\ 0 \in T
    OBVIOUS
<1>2. ASSUME NEW d \in Nat, d \in S PROVE d + 1 \in S
    <2> SUFFICES ASSUME NEW k \in 0..N, k + (d + 1) = N PROVE pos[k] <= pos[N]
        OBVIOUS
    <2>1. k + 1 \in 1..N /\ k + 1 \in 0..N /\ (k + 1) + d = N /\ (k + 1) - 1 = k /\ N \in 0..N
        OBVIOUS
    <2>2. pos[k + 1] <= pos[N] /\ pos[k + 1] >= pos[k] + 8
        BY <1>2, <2>1
    <2>3. pos[k] \in Nat /\ pos[k + 1] \in Nat /\ pos[N] \in Nat
        BY <2>1
    <2> QED
        BY <2>2, <2>3
<1>3. ASSUME NEW k \in Nat, k \in T PROVE k + 1 \in T
    <2> SUFFICES ASSUME k + 1 <= N PROVE 8 * (k + 1) <= pos[k + 1]
        OBVIOUS
    <2>1. k + 1 \in 1..N /\ k + 1 \in 0..N /\ k \in 0..N /\ (k + 1) - 1 = k
        OBVIOUS
    <2>2. 8 * k <= pos[k] /\ pos[k + 1] >= pos[k] + 8
        BY <1>3, <2>1
    <2>3. pos[k] \in Nat /\ pos[k + 1] \in Nat
        BY <2>1
    <2> QED
        BY <2>2, <2>3
<1> HIDE DEF S, T
<1>4. Nat \subseteq S /\ Nat \subseteq T
    BY <1>1, <1>2, <1>3, Induction
<1> SUFFICES ASSUME NEW k \in 0..N PROVE pos[k] <= pos[N] /\ 8 * k <= pos[k]
    OBVIOUS
<1>5. N - k \in S /\ k + (N - k) = N /\ k \in T /\ k <= N
    BY <1>4
<1>6. pos[k] <= pos[N]
    BY <1>5 DEF S
<1>7. 8 * k <= pos[k]
    BY <1>5, Zenon DEF T
<1> QED
    BY <1>6, <1>7

\* The chunks of a list, cell by cell.
CellsOf(s) == [k \in DOMAIN s |-> ChunkCells(s[k])]
ChunksLie(all, s, pos) ==
    /\ pos \in [0..Len(s) -> Nat] /\ pos[0] = 0 /\ pos[Len(s)] = Len(all)
    /\ \A k \in 1..Len(s) : pos[k] = pos[k - 1] + Room(s[k]) /\ Stands(all, s[k], pos[k - 1])
    /\ 8 * Len(s) <= Len(all)

\* They stand one behind the other.
LEMMA CellsLaid ==
    ASSUME NEW s \in Seq(ChunkOf)
    PROVE  /\ FlattenSeq(CellsOf(s)) \in Seq(Cells)
           /\ \E pos : ChunksLie(FlattenSeq(CellsOf(s)), s, pos)
<1> DEFINE N == Len(s)
<1> DEFINE seqs == CellsOf(s)
<1> DEFINE all == FlattenSeq(seqs)
<1>1. N \in Nat /\ DOMAIN s = 1..N /\ \A k \in 1..N : s[k] \in ChunkOf
    OBVIOUS
<1>2. \A k \in 1..N : /\ seqs[k] = ChunkCells(s[k]) /\ seqs[k] \in Seq(Cells)
                      /\ Len(seqs[k]) = Room(s[k]) /\ Room(s[k]) \in Nat /\ Room(s[k]) >= 8
    <2>1. \A k \in 1..N : seqs[k] = ChunkCells(s[k])
        BY <1>1 DEF CellsOf
    <2>2. \A c \in ChunkOf : Room(c) \in Nat /\ Room(c) >= 8
        BY DEF ChunkOf, Room
    <2> QED
        BY <1>1, <2>1, <2>2, ChunkIs, Zenon
<1>3. seqs = [k \in 1..N |-> seqs[k]]
    BY <1>1 DEF CellsOf
<1> HIDE DEF N, seqs
<1>4. seqs \in [1..N -> Seq(Cells)]
    BY <1>2, <1>3, Zenon
<1>5. seqs \in Seq(Seq(Cells)) /\ Len(seqs) = N
    BY <1>1, <1>4
<1>6. all \in Seq(Cells) /\ \E pos : Lies(all, seqs, pos)
    BY <1>5, Laid, Zenon
<1> HIDE DEF all
<1>7. PICK pos : Lies(all, seqs, pos)
    BY <1>6
<1>8. /\ pos \in [0..N -> Nat] /\ pos[0] = 0 /\ pos[N] = Len(all)
      /\ \A k \in 1..N : /\ pos[k] = pos[k - 1] + Room(s[k])
                         /\ \A i \in 1..Room(s[k]) : all[pos[k - 1] + i] = ChunkCells(s[k])[i]
    <2>1. pos \in [0..N -> Nat] /\ pos[0] = 0 /\ pos[N] = Len(all)
        BY <1>5, <1>7, Zenon DEF Lies
    <2>2. \A k \in 1..N : /\ pos[k] = pos[k - 1] + Len(seqs[k])
                          /\ \A i \in 1..Len(seqs[k]) : all[pos[k - 1] + i] = seqs[k][i]
        BY <1>5, <1>7, Zenon DEF Lies
    <2>3. \A k \in 1..N : pos[k] = pos[k - 1] + Room(s[k])
        BY <1>2, <2>2, Zenon
    <2>4. \A k \in 1..N : \A i \in 1..Room(s[k]) : all[pos[k - 1] + i] = ChunkCells(s[k])[i]
        BY <1>2, <2>2, Zenon
    <2> QED
        BY <2>1, <2>3, <2>4, Zenon
<1>9. \A k \in 0..N : pos[k] <= pos[N] /\ 8 * k <= pos[k]
    <2>1. \A k \in 1..N : pos[k] >= pos[k - 1] + 8
        <3> TAKE k \in 1..N
        <3>1. k - 1 \in 0..N
            BY <1>1
        <3>2. pos[k - 1] \in Nat /\ Room(s[k]) \in Nat /\ Room(s[k]) >= 8 /\ pos[k] = pos[k - 1] + Room(s[k])
            BY <1>2, <1>8, <3>1
        <3> QED
            BY <3>2
    <2> QED
        BY <1>1, <1>8, <2>1, Rising
<1>10. \A k \in 1..N : Stands(all, s[k], pos[k - 1])
    <2> TAKE k \in 1..N
    <2>1. k \in 0..N
        BY <1>1
    <2>2. pos[k - 1] + Room(s[k]) <= Len(all)
        BY <1>8, <1>9, <2>1, Zenon
    <2> QED
        BY <1>8, <2>2, Zenon DEF Stands
<1>11. 8 * N <= Len(all)
    <2>1. N \in 0..N
        BY <1>1
    <2> QED
        BY <1>8, <1>9, <2>1, Zenon
<1>12. ChunksLie(all, s, pos)
    BY <1>8, <1>10, <1>11, Zenon DEF ChunksLie, N
<1> QED
    BY <1>6, <1>12, Zenon DEF all, seqs

-----------------------------------------------------------------------------
(* The head of a file, and what stands behind it.                           *)

\* What is in a file, and how many chunks its head has.
UsmOf(u)     == u.audio \in BOOLEAN /\ u.table \in Marks /\ u.cut \in Nat /\ u.chunks \in Seq(ChunkOf)
HeadCount(u) == IF u.audio THEN 7 ELSE 5

\* A chunk of 64 bytes that is nothing but a mark.
IsMark(c, sig, mark) ==
    /\ c \in ChunkOf /\ Room(c) = 64 /\ c.header = 24 /\ c.sig = sig
    /\ (IF c.content[1][1] = "mark" THEN c.content[1][2] ELSE "none") = mark

\* Every chunk of the head is one.
LEMMA MarkedIs ==
    ASSUME NEW sig \in Signatures, NEW mark \in Marks
    PROVE  IsMark(Marked(sig, mark), sig, mark)
<1> DEFINE c == Marked(sig, mark)
<1> DEFINE content == <<<<"mark", mark>>>> \o Fill(31)
<1>1. Fill(31) \in Seq(Contents) /\ Len(Fill(31)) = 31
    BY DEF Fill, Contents
<1>2. <<<<"mark", mark>>>> \in Seq(Contents) /\ <<<<"mark", mark>>>>[1] = <<"mark", mark>>
    BY DEF Contents
<1>3. content \in Seq(Contents) /\ Len(content) = 32 /\ content[1] = <<"mark", mark>>
    <2> DEFINE s == <<<<"mark", mark>>>>
    <2> DEFINE t == Fill(31)
    <2>1. s \in Seq(Contents) /\ Len(s) = 1 /\ s[1] = <<"mark", mark>>
        BY <1>2
    <2>2. t \in Seq(Contents) /\ Len(t) = 31
        BY <1>1
    <2>3. Behind(Contents, s \o t, s, Len(s), t, Len(t))
        BY <2>1, <2>2, Appended, Zenon
    <2> DEFINE w == s \o t
    <2> HIDE DEF s, t, w
    <2>4. w \in Seq(Contents) /\ Len(w) = 1 + 31 /\ \A i \in 1..1 : w[i] = s[i]
        BY <2>1, <2>2, <2>3, Zenon DEF Behind, w
    <2>5. 1 \in 1..1 /\ 1 + 31 = 32
        OBVIOUS
    <2>6. w \in Seq(Contents) /\ Len(w) = 32 /\ w[1] = <<"mark", mark>>
        BY <2>1, <2>4, <2>5, Zenon
    <2> QED
        BY <2>6, Zenon DEF s, t, w
<1>4. <<"mark", mark>>[1] = "mark" /\ <<"mark", mark>>[2] = mark
    OBVIOUS
<1>5. c = [sig |-> sig, header |-> 24, footer |-> 0, pad |-> 0, content |-> content]
    BY Zenon DEF Marked
<1> HIDE DEF c, content
<1>6. c.content = content /\ c.header = 24 /\ c.sig = sig
    BY <1>5
<1>7. content # << >>
    <2>1. Len(<< >>) = 0 /\ 32 # 0
        OBVIOUS
    <2> QED
        BY <1>3, <2>1, Zenon
<1>8. c \in ChunkOf
    BY <1>3, <1>5, <1>7 DEF ChunkOf
<1>9. Room(c) = 64
    <2>1. c.header = 24 /\ c.pad = 0 /\ c.content = content
        BY <1>5
    <2>2. Room(c) = 8 + 24 + 32 + 0
        BY <1>3, <2>1, Zenon DEF Room
    <2> QED
        BY <2>2
<1>10. (IF c.content[1][1] = "mark" THEN c.content[1][2] ELSE "none") = mark
    BY <1>3, <1>4, <1>6, Zenon
<1> QED
    BY <1>6, <1>8, <1>9, <1>10, Zenon DEF c, IsMark

\* A list of five parts, of which two may be empty.
HasParts(D, w, a, b, A, c, B, d, e, x) ==
    /\ w \in Seq(D) /\ Len(w) = 5 + 2 * x
    /\ w[1] = a /\ w[2] = b /\ w[3 + x] = c /\ w[4 + 2 * x] = d /\ w[5 + 2 * x] = e
    /\ x = 1 => w[3] = A[1] /\ w[5] = B[1]

\* Each part stands in its place.
LEMMA PartsStand ==
    ASSUME NEW D, NEW a \in D, NEW b \in D, NEW c \in D, NEW d \in D, NEW e \in D,
           NEW x \in 0..1, NEW A \in Seq(D), NEW B \in Seq(D), Len(A) = x, Len(B) = x
    PROVE  HasParts(D, <<a, b>> \o A \o <<c>> \o B \o <<d, e>>, a, b, A, c, B, d, e, x)
<1> DEFINE s0 == <<a, b>>
<1> DEFINE s1 == s0 \o A
<1> DEFINE s2 == s1 \o <<c>>
<1> DEFINE s3 == s2 \o B
<1> DEFINE s4 == s3 \o <<d, e>>
<1>10. s0 \in Seq(D) /\ Len(s0) = 2 /\ s0[1] = a /\ s0[2] = b
    OBVIOUS
<1> HIDE DEF s0
<1>11. /\ s1 \in Seq(D) /\ Len(s1) = 2 + x /\ s1[1] = a /\ s1[2] = b
      /\ (x = 1 => s1[3] = A[1])
    <2> DEFINE t == A
    <2>1. t \in Seq(D) /\ Len(t) = x
        OBVIOUS
    <2>2. Behind(D, s0 \o t, s0, Len(s0), t, Len(t))
        BY <1>10, <2>1, Appended, Zenon
    <2> HIDE DEF t
    <2> QED
        BY <1>10, <2>1, <2>2 DEF t, Behind
<1> HIDE DEF s1
<1>12. /\ s2 \in Seq(D) /\ Len(s2) = 3 + x /\ s2[1] = a /\ s2[2] = b
      /\ (x = 1 => s2[3] = A[1]) /\ s2[3 + x] = c
    <2> DEFINE t == <<c>>
    <2>1. t \in Seq(D) /\ Len(t) = 1 /\ t[1] = c
        OBVIOUS
    <2>2. Behind(D, s1 \o t, s1, Len(s1), t, Len(t))
        BY <1>11, <2>1, Appended, Zenon
    <2> HIDE DEF t
    <2> QED
        BY <1>11, <2>1, <2>2 DEF Behind
<1> HIDE DEF s2
<1>13. /\ s3 \in Seq(D) /\ Len(s3) = 3 + 2 * x /\ s3[1] = a /\ s3[2] = b
      /\ (x = 1 => s3[3] = A[1]) /\ s3[3 + x] = c /\ (x = 1 => s3[5] = B[1])
    <2> DEFINE t == B
    <2>1. t \in Seq(D) /\ Len(t) = x
        OBVIOUS
    <2>2. Behind(D, s2 \o t, s2, Len(s2), t, Len(t))
        BY <1>12, <2>1, Appended, Zenon
    <2> HIDE DEF t
    <2> QED
        BY <1>12, <2>1, <2>2 DEF t, Behind
<1> HIDE DEF s3
<1>14. /\ s4 \in Seq(D) /\ Len(s4) = 5 + 2 * x /\ s4[1] = a /\ s4[2] = b
      /\ (x = 1 => s4[3] = A[1]) /\ s4[3 + x] = c /\ (x = 1 => s4[5] = B[1]) /\ s4[4 + 2 * x] = d /\ s4[5 + 2 * x] = e
    <2> DEFINE t == <<d, e>>
    <2>1. t \in Seq(D) /\ Len(t) = 2 /\ t[1] = d /\ t[2] = e
        OBVIOUS
    <2>2. Behind(D, s3 \o t, s3, Len(s3), t, Len(t))
        BY <1>13, <2>1, Appended, Zenon
    <2> HIDE DEF t
    <2> QED
        BY <1>13, <2>1, <2>2 DEF Behind
<1> HIDE DEF s4
<1>20. HasParts(D, s4, a, b, A, c, B, d, e, x)
    BY <1>14 DEF HasParts
<1> QED
    BY <1>20, Zenon DEF s4, s3, s2, s1, s0

\* The head of a file, chunk by chunk.
LEMMA HeadIs ==
    ASSUME NEW u, UsmOf(u)
    PROVE  LET x == IF u.audio THEN 1 ELSE 0 IN
           HasParts(ChunkOf, UsmHead(u), Marked("CRID", "table"), Marked("@SFV", u.table),
                    <<Marked("@SFA", "table")>>, Marked("@SFV", "#HEADER END"),
                    <<Marked("@SFA", "#HEADER END")>>, Marked("@SFV", u.table),
                    Marked("@SFV", "#METADATA END"), x)
<1> DEFINE x == IF u.audio THEN 1 ELSE 0
<1> DEFINE audio(m) == IF u.audio THEN <<Marked("@SFA", m)>> ELSE << >>
<1> DEFINE w == <<Marked("CRID", "table"), Marked("@SFV", u.table)>> \o audio("table")
    \o <<Marked("@SFV", "#HEADER END")>> \o audio("#HEADER END")
    \o <<Marked("@SFV", u.table), Marked("@SFV", "#METADATA END")>>
<1>1. UsmHead(u) = w
    BY Zenon DEF UsmHead
<1>2. \A sig \in Signatures, mark \in Marks : Marked(sig, mark) \in ChunkOf
    BY MarkedIs, Zenon DEF IsMark
<1>3. /\ {"CRID", "@SFV", "@SFA"} \subseteq Signatures
      /\ {"table", "#HEADER END", "#METADATA END", u.table} \subseteq Marks
    BY DEF UsmOf, Signatures, Marks
<1>4. \A m \in Marks : audio(m) \in Seq(ChunkOf) /\ Len(audio(m)) = x
    <2> TAKE m \in Marks
    <2> DEFINE y == Marked("@SFA", m)
    <2>1. y \in ChunkOf
        BY <1>2, <1>3, Zenon
    <2> HIDE DEF y
    <2>2. <<y>> \in Seq(ChunkOf) /\ Len(<<y>>) = 1 /\ << >> \in Seq(ChunkOf) /\ Len(<< >>) = 0
        BY <2>1
    <2>3. (IF u.audio THEN <<y>> ELSE << >>) \in Seq(ChunkOf)
        BY <2>2, Zenon
    <2>4. Len(IF u.audio THEN <<y>> ELSE << >>) = (IF u.audio THEN 1 ELSE 0)
        BY <2>2
    <2> QED
        BY <2>3, <2>4, Zenon DEF y
<1>5. x \in 0..1 /\ (x = 1 => u.audio)
    OBVIOUS
<1>6. HasParts(ChunkOf, w, Marked("CRID", "table"), Marked("@SFV", u.table),
                    audio("table"), Marked("@SFV", "#HEADER END"),
                    audio("#HEADER END"), Marked("@SFV", u.table),
                    Marked("@SFV", "#METADATA END"), x)
    <2> HIDE DEF x, audio
    <2> QED
        BY <1>2, <1>3, <1>4, <1>5, PartsStand, Zenon
<1> HIDE DEF w, x
<1> QED
    BY <1>1, <1>5, <1>6, Zenon DEF HasParts, x

\* A list of so many chunks of 64 bytes.
HeadOf(h, n) == h \in Seq(ChunkOf) /\ Len(h) = n /\ \A k \in 1..n : Room(h[k]) = 64

\* A head is one.
LEMMA HeadChunks ==
    ASSUME NEW u, UsmOf(u)
    PROVE  HeadOf(UsmHead(u), HeadCount(u))
<1> DEFINE h == UsmHead(u)
<1> DEFINE x == IF u.audio THEN 1 ELSE 0
<1>1. HasParts(ChunkOf, h, Marked("CRID", "table"), Marked("@SFV", u.table),
               <<Marked("@SFA", "table")>>, Marked("@SFV", "#HEADER END"),
               <<Marked("@SFA", "#HEADER END")>>, Marked("@SFV", u.table),
               Marked("@SFV", "#METADATA END"), x)
    BY HeadIs, Zenon
<1>3. /\ "CRID" \in Signatures /\ "@SFV" \in Signatures /\ "@SFA" \in Signatures
      /\ "table" \in Marks /\ "#HEADER END" \in Marks /\ "#METADATA END" \in Marks /\ u.table \in Marks
    BY DEF UsmOf, Signatures, Marks
<1>4. x \in 0..1 /\ HeadCount(u) = 5 + 2 * x
    BY DEF HeadCount, UsmOf
<1>5. <<Marked("@SFA", "table")>>[1] = Marked("@SFA", "table")
    OBVIOUS
<1>6. <<Marked("@SFA", "#HEADER END")>>[1] = Marked("@SFA", "#HEADER END")
    OBVIOUS
<1> HIDE DEF h, x
<1>7. /\ h \in Seq(ChunkOf) /\ Len(h) = 5 + 2 * x
      /\ Room(h[1]) = 64 /\ Room(h[2]) = 64 /\ Room(h[3 + x]) = 64 /\ Room(h[4 + 2 * x]) = 64
      /\ Room(h[5 + 2 * x]) = 64 /\ (x = 1 => Room(h[3]) = 64 /\ Room(h[5]) = 64)
    <2>1. /\ h \in Seq(ChunkOf) /\ Len(h) = 5 + 2 * x
          /\ h[1] = Marked("CRID", "table") /\ h[2] = Marked("@SFV", u.table)
          /\ h[3 + x] = Marked("@SFV", "#HEADER END") /\ h[4 + 2 * x] = Marked("@SFV", u.table)
          /\ h[5 + 2 * x] = Marked("@SFV", "#METADATA END")
          /\ x = 1 => h[3] = Marked("@SFA", "table") /\ h[5] = Marked("@SFA", "#HEADER END")
        BY <1>1, <1>5, <1>6, Zenon DEF HasParts
    <2>2. IsMark(Marked("CRID", "table"), "CRID", "table")
        BY <1>3, MarkedIs, Zenon
    <2>3. IsMark(Marked("@SFV", u.table), "@SFV", u.table)
        BY <1>3, MarkedIs, Zenon
    <2>4. IsMark(Marked("@SFV", "#HEADER END"), "@SFV", "#HEADER END")
        BY <1>3, MarkedIs, Zenon
    <2>5. IsMark(Marked("@SFV", "#METADATA END"), "@SFV", "#METADATA END")
        BY <1>3, MarkedIs, Zenon
    <2>6. IsMark(Marked("@SFA", "table"), "@SFA", "table")
        BY <1>3, MarkedIs, Zenon
    <2>7. IsMark(Marked("@SFA", "#HEADER END"), "@SFA", "#HEADER END")
        BY <1>3, MarkedIs, Zenon
    <2> QED
        BY <2>1, <2>2, <2>3, <2>4, <2>5, <2>6, <2>7, Zenon DEF IsMark
<1>8. ASSUME NEW k \in 1..5 + 2 * x PROVE Room(h[k]) = 64
    <2>1. CASE x = 0
        <3>1. k \in {1, 2, 3, 4, 5} /\ 3 + x = 3 /\ 4 + 2 * x = 4 /\ 5 + 2 * x = 5
            BY <2>1
        <3> QED
            BY <1>7, <3>1
    <2>2. CASE x = 1
        <3>1. k \in {1, 2, 3, 4, 5, 6, 7} /\ 3 + x = 4 /\ 4 + 2 * x = 6 /\ 5 + 2 * x = 7
            BY <2>2
        <3> QED
            BY <1>7, <2>2, <3>1
    <2> QED
        BY <1>4, <2>1, <2>2
<1> QED
    BY <1>4, <1>7, <1>8, Zenon DEF h, HeadOf

\* What stands in a part stands in the whole.
LEMMA StandsBehind ==
    ASSUME NEW s \in Seq(Cells), NEW t \in Seq(Cells), NEW c \in ChunkOf, NEW p \in Nat
    PROVE  /\ Stands(s, c, p) => Stands(s \o t, c, p)
           /\ Stands(t, c, p) => Stands(s \o t, c, Len(s) + p)
<1> DEFINE w == s \o t
<1> DEFINE m == Len(s)
<1> DEFINE n == Len(t)
<1> DEFINE r == Room(c)
<1>1. Behind(Cells, w, s, m, t, n)
    BY Appended, Zenon
<1>2. m \in Nat /\ n \in Nat
    OBVIOUS
<1>3. r \in Nat
    BY DEF ChunkOf, Room
<1> HIDE DEF w, r
<1>4. /\ Len(w) = m + n
      /\ \A i \in 1..m : w[i] = s[i]
      /\ \A i \in 1..n : w[m + i] = t[i]
    BY <1>1, Zenon DEF Behind
<1> HIDE DEF m, n
<1>5. ASSUME p + r <= m, \A i \in 1..r : s[p + i] = ChunkCells(c)[i]
      PROVE  p + r <= Len(w) /\ \A i \in 1..r : w[p + i] = ChunkCells(c)[i]
    <2>1. \A i \in 1..r : p + i \in 1..m
        BY <1>2, <1>3, <1>5
    <2>2. p + r <= m + n
        BY <1>2, <1>3, <1>5
    <2> QED
        BY <1>4, <1>5, <2>1, <2>2, Zenon
<1>6. ASSUME p + r <= n, \A i \in 1..r : t[p + i] = ChunkCells(c)[i]
      PROVE  m + p + r <= Len(w) /\ \A i \in 1..r : w[m + p + i] = ChunkCells(c)[i]
    <2>1. \A i \in 1..r : p + i \in 1..n /\ m + p + i = m + (p + i)
        BY <1>2, <1>3, <1>6
    <2>2. m + p + r <= m + n
        BY <1>2, <1>3, <1>6
    <2> QED
        BY <1>4, <1>6, <2>1, <2>2, Zenon
<1> QED
    BY <1>5, <1>6, Zenon DEF Stands, w, m, n, r

\* A file that is not cut short: its head, and behind it the chunks.
FileLies(file, u, pos) ==
    /\ \A k \in 1..HeadCount(u) : Stands(file, UsmHead(u)[k], 64 * (k - 1))
    /\ pos \in [0..Len(u.chunks) -> Nat] /\ pos[0] = 64 * HeadCount(u)
    /\ \A k \in 1..Len(u.chunks) :
          pos[k] = pos[k - 1] + Room(u.chunks[k]) /\ Stands(file, u.chunks[k], pos[k - 1])
    /\ pos[Len(u.chunks)] = Len(file) /\ 8 * Len(u.chunks) <= Len(file)

\* Every file is of cells, and that is what one not cut short looks like.
LEMMA FileLaid ==
    ASSUME NEW u, UsmOf(u)
    PROVE  /\ UsmFile(u) \in Seq(Cells)
           /\ u.cut = 0 => \E pos : FileLies(UsmFile(u), u, pos)
<1> DEFINE h == UsmHead(u)
<1> DEFINE n == HeadCount(u)
<1> DEFINE c == u.chunks
<1> DEFINE s == FlattenSeq(CellsOf(h))
<1> DEFINE t == FlattenSeq(CellsOf(c))
<1> DEFINE w == s \o t
<1>1. n \in {5, 7}
    BY DEF HeadCount
<1>2. h \in Seq(ChunkOf) /\ Len(h) = n /\ \A k \in 1..n : h[k] \in ChunkOf /\ Room(h[k]) = 64
    <2>0. HeadOf(h, n)
        BY HeadChunks, Zenon
    <2> HIDE DEF h, n
    <2>1. h \in Seq(ChunkOf) /\ Len(h) = n /\ \A k \in 1..n : Room(h[k]) = 64
        BY <2>0, Zenon DEF HeadOf
    <2>2. \A k \in 1..Len(h) : h[k] \in ChunkOf
        BY <2>1
    <2> QED
        BY <2>1, <2>2, Zenon
<1>3. c \in Seq(ChunkOf)
    BY DEF UsmOf
<1>4. Len(c) \in Nat /\ \A k \in 1..Len(c) : c[k] \in ChunkOf
    BY <1>3
<1>5. s \in Seq(Cells) /\ \E a : ChunksLie(s, h, a)
    BY <1>2, CellsLaid, Zenon
<1>6. t \in Seq(Cells) /\ \E b : ChunksLie(t, c, b)
    BY <1>3, CellsLaid, Zenon
<1>7. UsmFile(u) = SubSeq(w, 1, Len(w) - u.cut)
    BY Zenon DEF UsmFile, CellsOf
<1> HIDE DEF h, n, c, s, t
<1>8. w \in Seq(Cells) /\ Len(w) = Len(s) + Len(t) /\ Len(s) \in Nat /\ Len(t) \in Nat
    BY <1>5, <1>6
<1>9. PICK a : ChunksLie(s, h, a)
    BY <1>5
<1>10. PICK b : ChunksLie(t, c, b)
    BY <1>6
<1> HIDE DEF w
<1>11. u.cut \in Nat
    BY DEF UsmOf
<1>12. UsmFile(u) \in Seq(Cells)
    <2> DEFINE l == Len(w) - u.cut
    <2>1. l \in Int /\ l <= Len(w) /\ Len(w) \in Nat
        BY <1>8, <1>11
    <2> HIDE DEF l
    <2>2. SubSeq(w, 1, l) \in Seq(Cells)
        <3> DEFINE m == IF l < 0 THEN 0 ELSE l
        <3>1. SubSeq(w, 1, l) = [i \in 1..m |-> w[i]]
            BY <1>8, <2>1
        <3>2. m \in Nat /\ \A i \in 1..m : w[i] \in Cells
            BY <1>8, <2>1
        <3> DEFINE g == [i \in 1..m |-> w[i]]
        <3> HIDE DEF m
        <3>3. g \in Seq(Cells)
            BY <3>2
        <3> QED
            BY <3>1, <3>3, Zenon
    <2> QED
        BY <1>7, <2>2, Zenon DEF l
<1>13. u.cut = 0 => UsmFile(u) = w
    <2>1. SubSeq(w, 1, Len(w)) = w /\ Len(w) - 0 = Len(w)
        BY <1>8
    <2> QED
        BY <1>7, <2>1, Zenon
<1>14. /\ a \in [0..n -> Nat] /\ a[0] = 0 /\ a[n] = Len(s)
       /\ \A k \in 1..n : a[k] = a[k - 1] + 64 /\ Stands(s, h[k], a[k - 1])
    BY <1>2, <1>9, Zenon DEF ChunksLie
<1>15. \A k \in 0..n : a[k] = 64 * k
    <2> DEFINE S == {k \in Nat : k <= n => a[k] = 64 * k}
    <2>1. 0 \in S
        BY <1>14
    <2>2. ASSUME NEW k \in Nat, k \in S PROVE k + 1 \in S
        BY <1>1, <1>14, <2>2
    <2> HIDE DEF S
    <2>3. Nat \subseteq S
        BY <2>1, <2>2, Induction
    <2> QED
        BY <1>1, <2>3 DEF S
<1>16. Len(s) = 64 * n
    BY <1>1, <1>14, <1>15
<1>17. \A k \in 1..n : Stands(w, h[k], 64 * (k - 1))
    <2> TAKE k \in 1..n
    <2>1. k - 1 \in 0..n /\ 64 * (k - 1) \in Nat
        BY <1>1
    <2>2. Stands(s, h[k], 64 * (k - 1)) /\ h[k] \in ChunkOf
        BY <1>2, <1>14, <1>15, <2>1, Zenon
    <2> QED
        BY <1>5, <1>6, <2>1, <2>2, StandsBehind, Zenon DEF w
<1>18. /\ b \in [0..Len(c) -> Nat] /\ b[0] = 0 /\ b[Len(c)] = Len(t) /\ 8 * Len(c) <= Len(t)
       /\ \A k \in 1..Len(c) : b[k] = b[k - 1] + Room(c[k]) /\ Stands(t, c[k], b[k - 1])
    BY <1>10, Zenon DEF ChunksLie
<1> DEFINE pos == [k \in 0..Len(c) |-> Len(s) + b[k]]
<1>19. pos \in [0..Len(c) -> Nat] /\ pos[0] = 64 * n /\ pos[Len(c)] = Len(w) /\ 8 * Len(c) <= Len(w)
    <2>1. 0 \in 0..Len(c) /\ Len(c) \in 0..Len(c)
        BY <1>4
    <2>2. pos \in [0..Len(c) -> Nat]
        BY <1>8, <1>18
    <2>3. pos[0] = Len(s) + 0 /\ pos[Len(c)] = Len(s) + Len(t)
        BY <1>18, <2>1
    <2> HIDE DEF pos
    <2> QED
        BY <1>4, <1>8, <1>16, <1>18, <2>2, <2>3
<1>20. \A k \in 1..Len(c) : pos[k] = pos[k - 1] + Room(c[k]) /\ Stands(w, c[k], pos[k - 1])
    <2> TAKE k \in 1..Len(c)
    <2>1. k \in 0..Len(c) /\ k - 1 \in 0..Len(c)
        BY <1>4
    <2>2. pos[k] = Len(s) + b[k] /\ pos[k - 1] = Len(s) + b[k - 1]
        BY <2>1
    <2>3. b[k - 1] \in Nat /\ b[k] \in Nat /\ b[k] = b[k - 1] + Room(c[k]) /\ Stands(t, c[k], b[k - 1])
        BY <1>18, <2>1
    <2>4. Room(c[k]) \in Nat
        <3>1. \A y \in ChunkOf : Room(y) \in Nat
            BY DEF ChunkOf, Room
        <3> QED
            BY <1>4, <3>1
    <2> HIDE DEF pos
    <2>5. Stands(w, c[k], Len(s) + b[k - 1])
        BY <1>4, <1>5, <1>6, <2>3, StandsBehind, Zenon DEF w
    <2>6. pos[k] = pos[k - 1] + Room(c[k])
        <3> DEFINE i == Len(s)
                   x == b[k - 1]
                   y == b[k]
                   r == Room(c[k])
        <3>1. pos[k] = i + y /\ pos[k - 1] = i + x /\ y = x + r /\ {i, x, y, r} \subseteq Nat
            BY <1>8, <2>2, <2>3, <2>4
        <3> HIDE DEF i, x, y, r
        <3>2. pos[k] = pos[k - 1] + r
            BY <3>1
        <3> QED
            BY <3>2 DEF r
    <2> QED
        BY <2>2, <2>5, <2>6, Zenon
<1> HIDE DEF pos
<1>21. u.cut = 0 => FileLies(UsmFile(u), u, pos)
    BY <1>13, <1>17, <1>19, <1>20, Zenon DEF FileLies, h, n, c
<1> QED
    BY <1>12, <1>21, Zenon

\* Where the stream starts: behind the head, when the header is taken.
StartsAfter(file, u) == parseUSMHeader(file) # -1 => parseUSMHeader(file) = 64 * HeadCount(u)

\* What the walk reads of a chunk: its signature, and where the next one is.
Reads(file, c, p, q) == Sig(file, p) = c.sig /\ NextChunk(file, p) = q

\* The walk over the sections comes to the end of the head.
LEMMA StartIs ==
    ASSUME NEW u, UsmOf(u), NEW file \in Seq(Cells),
           \A k \in 1..HeadCount(u) : Stands(file, UsmHead(u)[k], 64 * (k - 1))
    PROVE  StartsAfter(file, u)
<1> DEFINE h == UsmHead(u)
<1> DEFINE n == HeadCount(u)
<1>0. HeadOf(h, n)
    BY HeadChunks, Zenon
<1>1. h \in Seq(ChunkOf) /\ Len(h) = n /\ \A k \in 1..n : Room(h[k]) = 64
    <2> HIDE DEF h, n
    <2> QED
        BY <1>0, Zenon DEF HeadOf
<1>2. n = IF u.audio THEN 7 ELSE 5
    BY DEF HeadCount
<1>3. \A k \in 1..n : Stands(file, h[k], 64 * (k - 1))
    OBVIOUS
<1>4. h[3].sig = IF u.audio THEN "@SFA" ELSE "@SFV"
    <2> DEFINE x == IF u.audio THEN 1 ELSE 0
    <2>1. HasParts(ChunkOf, h, Marked("CRID", "table"), Marked("@SFV", u.table),
                   <<Marked("@SFA", "table")>>, Marked("@SFV", "#HEADER END"),
                   <<Marked("@SFA", "#HEADER END")>>, Marked("@SFV", u.table),
                   Marked("@SFV", "#METADATA END"), x)
        BY HeadIs, Zenon
    <2>2. <<Marked("@SFA", "table")>>[1] = Marked("@SFA", "table")
        OBVIOUS
    <2>3. Marked("@SFA", "table").sig = "@SFA" /\ Marked("@SFV", "#HEADER END").sig = "@SFV"
        BY DEF Marked
    <2>4. (u.audio => x = 1) /\ (~u.audio => x = 0 /\ 3 + x = 3)
        OBVIOUS
    <2> HIDE DEF h, x
    <2>5. h[3 + x] = Marked("@SFV", "#HEADER END") /\ (x = 1 => h[3] = Marked("@SFA", "table"))
        BY <2>1, <2>2, Zenon DEF HasParts
    <2> QED
        BY <2>3, <2>4, <2>5, Zenon
<1> HIDE DEF h, n
<1>5. ASSUME NEW k \in 1..n
      PROVE  Sig(file, 64 * (k - 1)) = h[k].sig /\ NextChunk(file, 64 * (k - 1)) = 64 * (k - 1) + 64
    <2>1. h[k] \in ChunkOf
        BY <1>1
    <2>2. 64 * (k - 1) \in Nat
        BY <1>2
    <2>3. Room(h[k]) = 64 /\ Stands(file, h[k], 64 * (k - 1))
        BY <1>1, <1>3
    <2>4. Sig(file, 64 * (k - 1)) = h[k].sig /\ NextChunk(file, 64 * (k - 1)) = 64 * (k - 1) + Room(h[k])
        BY <2>1, <2>2, <2>3, ChunkRead, Zenon
    <2> QED
        BY <2>3, <2>4, Zenon
<1>6. /\ Sig(file, 128) = h[3].sig
      /\ NextChunk(file, 0) = 64 /\ NextChunk(file, 64) = 128 /\ NextChunk(file, 128) = 192
      /\ NextChunk(file, 192) = 256 /\ (u.audio => NextChunk(file, 256) = 320 /\ NextChunk(file, 320) = 384)
    <2>1. {1, 2, 3, 4, 5} \subseteq 1..n /\ (u.audio => {6, 7} \subseteq 1..n)
        BY <1>2
    <2>2. \A k \in 1..n : Reads(file, h[k], 64 * (k - 1), 64 * (k - 1) + 64)
        BY <1>5, Zenon DEF Reads
    <2>3. Reads(file, h[1], 0, 64)
        BY <2>1, <2>2
    <2>4. Reads(file, h[2], 64, 128)
        BY <2>1, <2>2
    <2>5. Reads(file, h[3], 128, 192)
        BY <2>1, <2>2
    <2>6. Reads(file, h[4], 192, 256)
        BY <2>1, <2>2
    <2>7. u.audio => Reads(file, h[5], 256, 320)
        BY <2>1, <2>2
    <2>8. u.audio => Reads(file, h[6], 320, 384)
        BY <2>1, <2>2
    <2> QED
        BY <2>3, <2>4, <2>5, <2>6, <2>7, <2>8, Zenon DEF Reads
<1>7. Sections(file).metaEnd = IF u.audio THEN 384 ELSE 256
    <2>1. CASE u.audio
        <3>1. Sig(file, 128) = "@SFA"
            BY <1>4, <1>6, <2>1, Zenon
        <3> QED
            BY <1>6, <2>1, <3>1 DEF Sections
    <2>2. CASE ~u.audio
        <3>1. Sig(file, 128) = "@SFV" /\ "@SFV" # "@SFA"
            BY <1>4, <1>6, <2>2
        <3> QED
            BY <1>6, <2>2, <3>1 DEF Sections
    <2> QED
        BY <2>1, <2>2
<1>8. AfterMarker(384) = 64 * 7 /\ AfterMarker(256) = 64 * 5
    BY DEF AfterMarker
<1>9. AfterMarker(Sections(file).metaEnd) = 64 * n
    BY <1>2, <1>7, <1>8, Zenon
<1> QED
    BY <1>9, Zenon DEF parseUSMHeader, StartsAfter, n

-----------------------------------------------------------------------------
(* The copy of the video, turn by turn.                                     *)

\* Where a copy can be, how many turns it takes, and how it goes.
CopyState    == [at : Nat, video : Seq(Cells), how : {"run", "eof", "end", "panic"}]
CopyStart(p) == [at |-> p, video |-> << >>, how |-> "run"]
Turns(file)  == Len(file) \div 8 + 2
Copies(f, file, start) ==
    /\ f \in [0..Turns(file) -> CopyState] /\ f[0] = CopyStart(start)
    /\ \A k \in 1..Turns(file) : f[k] = CopyChunk(file, f[k - 1])

\* A turn goes from one such place to another.
LEMMA TurnType ==
    ASSUME NEW file \in Seq(Cells), NEW s \in CopyState
    PROVE  CopyChunk(file, s) \in CopyState
<1>1. s.at \in Nat /\ s.video \in Seq(Cells) /\ s.how \in {"run", "eof", "end", "panic"}
    BY DEF CopyState
<1>2. /\ [s EXCEPT !.how = "eof"] \in CopyState
      /\ [s EXCEPT !.how = "end"] \in CopyState
      /\ [s EXCEPT !.how = "panic"] \in CopyState
    BY DEF CopyState
<1> DEFINE m == ContentLength(file, s.at)
<1> DEFINE e == processChunk(file, s.at)
<1>3. NextChunk(file, s.at) \in Nat
    <2>1. Field(file, s.at + 4) \in Nat
        BY CellType, Zenon
    <2>2. \A i, j \in Nat : i + 8 + j \in Nat
        OBVIOUS
    <2> QED
        BY <1>1, <2>1, <2>2, Zenon DEF NextChunk
<1>4. m \in Int
    <2>1. Field(file, s.at + 4) \in Nat /\ Field(file, s.at + 8) \in Nat /\ Field(file, s.at + 10) \in Nat
        BY CellType, Zenon
    <2>2. \A i, j, k \in Nat : i - j - k \in Int
        OBVIOUS
    <2> QED
        BY <2>1, <2>2, Zenon DEF ContentLength
<1>5. ASSUME ~(Sig(file, s.at) = "@SFV" /\ m < 0) PROVE e \in Seq(Cells)
    <2>1. \A i : Cell(file, i) \in Cells
        BY CellType, Zenon
    <2>2. CASE Sig(file, s.at) # "@SFV"
        <3>1. << >> \in Seq(Cells)
            OBVIOUS
        <3> QED
            BY <2>2, <3>1, Zenon DEF processChunk
    <2>3. CASE Sig(file, s.at) = "@SFV"
        <3>1. m \in Nat
            BY <1>4, <1>5, <2>3
        <3>2. e = [i \in 1..m |-> Cell(file, s.at + 32 + i - 1)]
            BY <2>3, Zenon DEF processChunk
        <3> HIDE DEF m, e
        <3> DEFINE c == [i \in 1..m |-> Cell(file, s.at + 32 + i - 1)]
        <3>3. c \in Seq(Cells)
            <4>1. c \in [1..m -> Cells]
                BY <2>1, Zenon
            <4> HIDE DEF c
            <4> QED
                BY <3>1, <4>1
        <3> QED
            BY <3>2, <3>3, Zenon
    <2> QED
        BY <2>2, <2>3, Zenon
<1> HIDE DEF e
<1> DEFINE r == [at |-> NextChunk(file, s.at), how |-> "run", video |-> s.video \o e]
<1>6. ASSUME ~(Sig(file, s.at) = "@SFV" /\ m < 0) PROVE r \in CopyState
    <2>1. s.video \o e \in Seq(Cells)
        BY <1>1, <1>5, <1>6
    <2> QED
        BY <1>3, <2>1 DEF CopyState
<1> QED
    BY <1>2, <1>6, Zenon DEF CopyChunk, r, e

\* The copy of extractUSMChunks goes so.
LEMMA CopyRuns ==
    ASSUME NEW file \in Seq(Cells), NEW start \in Nat
    PROVE  \E f : Copies(f, file, start) /\ extractUSMChunks(file, start) = f[Turns(file)]
<1> DEFINE N == Turns(file)
<1> DEFINE z == CopyStart(start)
<1> DEFINE G == [k \in 1..N |-> [s \in CopyState |-> CopyChunk(file, s)]]
<1>1. N \in Nat
    BY DEF Turns
<1>2. z \in CopyState
    BY DEF CopyStart, CopyState
<1>3. \A s \in CopyState : CopyChunk(file, s) \in CopyState
    BY TurnType, Zenon
<1>4. G \in Steps(N, CopyState)
    BY <1>3, Zenon DEF Steps
<1>5. \A k \in 1..N, s \in CopyState : G[k][s] = CopyChunk(file, s)
    OBVIOUS
<1>6. 0 \in 0..N /\ N \in 0..N /\ \A k \in 1..N : k # 0 /\ k \in 0..N /\ k - 1 \in 0..N
    BY <1>1
<1> DEFINE v == CHOOSE h : h = [k \in 0..N |-> IF k = 0 THEN z ELSE CopyChunk(file, h[k - 1])]
<1>7. extractUSMChunks(file, start) = v[N]
    BY Zenon DEF extractUSMChunks, Turns, CopyStart
<1> HIDE DEF N, z, G
<1>8. PICK f : Iterates(f, z, G, N, CopyState)
    BY <1>1, <1>2, <1>4, Recursion, Zenon
<1>9. f \in [0..N -> CopyState] /\ f[0] = z /\ \A k \in 1..N : f[k] = CopyChunk(file, f[k - 1])
    <2>1. f \in [0..N -> CopyState] /\ f[0] = z /\ \A k \in 1..N : f[k] = G[k][f[k - 1]]
        BY <1>8, Zenon DEF Iterates
    <2>2. \A k \in 1..N : f[k - 1] \in CopyState
        BY <1>6, <2>1, Zenon
    <2> QED
        BY <1>5, <2>1, <2>2, Zenon
<1>10. f = [k \in 0..N |-> IF k = 0 THEN z ELSE CopyChunk(file, f[k - 1])]
    <2>1. \A k \in 0..N : f[k] = IF k = 0 THEN z ELSE CopyChunk(file, f[k - 1])
        <3> TAKE k \in 0..N
        <3>1. k = 0 \/ k \in 1..N
            BY <1>1
        <3> QED
            BY <1>6, <1>9, <3>1, Zenon
    <2> QED
        BY <1>9, <2>1, Zenon
<1>11. v = [k \in 0..N |-> IF k = 0 THEN z ELSE CopyChunk(file, v[k - 1])]
    BY <1>10, Zenon
<1> HIDE DEF v
<1>12. v[0] = z /\ \A k \in 1..N : v[k] = CopyChunk(file, v[k - 1])
    BY <1>6, <1>11, Zenon
<1>13. \A k \in 0..N : v[k] \in CopyState
    <2> DEFINE S == {k \in Nat : k <= N => v[k] \in CopyState}
    <2>1. 0 \in S
        BY <1>2, <1>12
    <2>2. ASSUME NEW k \in Nat, k \in S PROVE k + 1 \in S
        <3> SUFFICES ASSUME k + 1 <= N PROVE v[k + 1] \in CopyState
            OBVIOUS
        <3>1. k <= N /\ k + 1 \in 1..N /\ (k + 1) - 1 = k
            BY <1>1
        <3>2. v[k] \in CopyState
            BY <2>2, <3>1
        <3>3. v[k + 1] = CopyChunk(file, v[k])
            BY <1>12, <3>1
        <3> QED
            BY <1>3, <3>2, <3>3, Zenon
    <2> HIDE DEF S
    <2>3. Nat \subseteq S
        BY <2>1, <2>2, Induction
    <2> QED
        BY <1>1, <2>3 DEF S
<1>14. v \in [0..N -> CopyState]
    BY <1>11, <1>13, Zenon
<1>15. Copies(v, file, start)
    BY <1>12, <1>14, Zenon DEF Copies, N, z
<1> QED
    BY <1>7, <1>15, Zenon DEF N

\* Whatever the file, a copy that was begun does not end with the error of the header.
LEMMA CopyEnds ==
    ASSUME NEW file \in Seq(Cells), NEW start \in Nat
    PROVE  extractUSMChunks(file, start) \in CopyState
<1>1. PICK f : Copies(f, file, start) /\ extractUSMChunks(file, start) = f[Turns(file)]
    BY CopyRuns
<1>2. Turns(file) \in 0..Turns(file)
    BY DEF Turns
<1> QED
    BY <1>1, <1>2, Zenon DEF Copies

\* Where a copy starts, and that a file which the metadata reader takes is copied.
LEMMA StartType ==
    ASSUME NEW file \in Seq(Cells)
    PROVE  /\ parseUSMHeader(file) # -1 => parseUSMHeader(file) \in Nat
           /\ ReadMetadata(file) # -1 => parseUSMHeader(file) # -1
<1>1. ASSUME NEW p \in Nat PROVE NextChunk(file, p) \in Nat
    <2>1. Field(file, p + 4) \in Nat
        BY CellType, Zenon
    <2>2. \A i, j \in Nat : i + 8 + j \in Nat
        OBVIOUS
    <2> QED
        BY <2>1, <2>2, Zenon DEF NextChunk
<1>2. Sections(file).metaEnd \in Nat
    <2> DEFINE video == NextChunk(file, 0)
    <2> DEFINE audio == NextChunk(file, video)
    <2> DEFINE has   == Sig(file, audio) = "@SFA"
    <2> DEFINE vEnd  == IF has THEN NextChunk(file, audio) ELSE audio
    <2> DEFINE aEnd  == NextChunk(file, vEnd)
    <2> DEFINE meta  == IF has THEN NextChunk(file, aEnd) ELSE aEnd
    <2>1. Sections(file).metaEnd = NextChunk(file, meta)
        BY DEF Sections
    <2>2. 0 \in Nat
        OBVIOUS
    <2>3. video \in Nat
        BY <1>1, <2>2, Zenon
    <2> HIDE DEF video
    <2>4. audio \in Nat
        BY <1>1, <2>3, Zenon
    <2> HIDE DEF audio, has
    <2>5. vEnd \in Nat
        BY <1>1, <2>4, Zenon
    <2> HIDE DEF vEnd
    <2>6. aEnd \in Nat
        BY <1>1, <2>5, Zenon
    <2> HIDE DEF aEnd
    <2>7. meta \in Nat
        BY <1>1, <2>6, Zenon
    <2> HIDE DEF meta
    <2> QED
        BY <1>1, <2>1, <2>7, Zenon
<1>3. \A p \in Nat : AfterMarker(p) \in Nat /\ AfterMarker(p) # -1
    <2> TAKE p \in Nat
    <2> DEFINE d == (4 - ((p + 45) % 4)) % 4
    <2>1. d \in 0..3
        OBVIOUS
    <2>2. AfterMarker(p) = p + 45 + d + 16
        BY DEF AfterMarker
    <2> HIDE DEF d
    <2> QED
        BY <2>1, <2>2
<1>4. AfterMarker(Sections(file).metaEnd) \in Nat /\ AfterMarker(Sections(file).metaEnd) # -1
    BY <1>2, <1>3
<1>5. parseUSMHeader(file) # -1 => parseUSMHeader(file) \in Nat
    BY <1>4, Zenon DEF parseUSMHeader
<1>6. ASSUME ReadMetadata(file) # -1 PROVE parseUSMHeader(file) # -1
    <2>1. SectionsTaken(file) /\ Mark(file, 0) = "table"
        BY <1>6 DEF ReadMetadata
    <2>2. IsTable(Mark(file, 0))
        BY <2>1 DEF IsTable
    <2> QED
        BY <1>4, <2>1, <2>2, Zenon DEF parseUSMHeader
<1> QED
    BY <1>5, <1>6

\* The chunks that end the stream, and what is to be copied of each chunk.
Ends(chunks)    == {k \in DOMAIN chunks : chunks[k].content[1] = <<"mark", "#CONTENTS END">>}
Kept(chunks, k) == IF chunks[k].sig = "@SFV" /\ k \notin Ends(chunks) THEN chunks[k].content ELSE << >>
Usual(chunks)   ==
    /\ \A k \in DOMAIN chunks : chunks[k].header = 24 /\ chunks[k].footer = chunks[k].pad
    /\ \A k \in Ends(chunks), m \in DOMAIN chunks : chunks[m].sig = "@SFV" => m <= k
Keeps(g, chunks) ==
    /\ g \in [0..Len(chunks) -> Seq(Contents)] /\ g[0] = << >>
    /\ \A k \in 1..Len(chunks) : g[k] = g[k - 1] \o Kept(chunks, k)

\* Nothing is to be copied from the first end on.
LEMMA AfterEnd ==
    ASSUME NEW chunks \in Seq(ChunkOf), NEW g, Keeps(g, chunks), Usual(chunks),
           NEW k \in 0..Len(chunks), k + 1 \in Ends(chunks)
    PROVE  g[k] = g[Len(chunks)]
<1> DEFINE N == Len(chunks)
<1>1. N \in Nat /\ DOMAIN chunks = 1..N
    OBVIOUS
<1>2. \A m \in 1..N : m > k => Kept(chunks, m) = << >>
    <2> SUFFICES ASSUME NEW m \in 1..N, m > k, chunks[m].sig = "@SFV" /\ m \notin Ends(chunks)
                 PROVE  FALSE
        BY DEF Kept
    <2>1. m <= k + 1
        BY <1>1 DEF Usual
    <2>2. m = k + 1
        BY <2>1
    <2> QED
        BY <2>2
<1>3. /\ g \in [0..N -> Seq(Contents)]
      /\ \A m \in 1..N : g[m] = g[m - 1] \o Kept(chunks, m)
    BY Zenon DEF Keeps
<1> HIDE DEF N
<1> DEFINE T == {d \in Nat : k + d <= N => g[k + d] = g[k]}
<1>4. 0 \in T
    OBVIOUS
<1>5. ASSUME NEW d \in Nat, d \in T PROVE d + 1 \in T
    <2> SUFFICES ASSUME k + (d + 1) <= N PROVE g[k + (d + 1)] = g[k]
        OBVIOUS
    <2> DEFINE m == k + (d + 1)
    <2>1. m \in 1..N /\ m > k /\ m - 1 = k + d /\ k + d \in 0..N /\ k + d <= N
        BY <1>1
    <2> HIDE DEF m
    <2>2. g[k + d] = g[k]
        BY <1>5, <2>1
    <2>3. g[m] = g[m - 1] \o << >>
        BY <1>2, <1>3, <2>1, Zenon
    <2>4. g[m - 1] \in Seq(Contents)
        BY <1>3, <2>1, Zenon
    <2>5. \A s \in Seq(Contents) : s \o << >> = s
        OBVIOUS
    <2>6. g[m] = g[m - 1]
        BY <2>3, <2>4, <2>5, Zenon
    <2> QED
        BY <2>1, <2>2, <2>6, Zenon DEF m
<1> HIDE DEF T
<1>6. Nat \subseteq T
    BY <1>4, <1>5, Induction
<1>7. N - k \in T /\ k + (N - k) = N
    BY <1>1, <1>6 DEF N
<1>8. g[N] = g[k]
    BY <1>7 DEF T
<1> QED
    BY <1>8, Zenon DEF N

\* A chunk whose content starts with the end marker ends the copy, and no other.
LEMMA EndMark ==
    ASSUME NEW c \in ChunkOf, NEW m,
           m = IF c.content[1][1] = "mark" THEN c.content[1][2] ELSE "none"
    PROVE  m = "#CONTENTS END" <=> c.content[1] = <<"mark", "#CONTENTS END">>
<1> DEFINE x == c.content[1]
<1>1. x \in Contents
    <2>1. c.content \in Seq(Contents) /\ c.content # << >>
        BY DEF ChunkOf
    <2> QED
        BY <2>1
<1> HIDE DEF x
<1>2. x[1] = "mark" => x = <<"mark", x[2]>>
    BY <1>1 DEF Contents
<1>3. <<"mark", "#CONTENTS END">>[1] = "mark" /\ <<"mark", "#CONTENTS END">>[2] = "#CONTENTS END"
    OBVIOUS
<1>4. "none" # "#CONTENTS END"
    OBVIOUS
<1>5. m = IF x[1] = "mark" THEN x[2] ELSE "none"
    BY Zenon DEF x
<1>6. m = "#CONTENTS END" <=> x = <<"mark", "#CONTENTS END">>
    BY <1>2, <1>3, <1>4, <1>5, Zenon
<1> QED
    BY <1>6, Zenon DEF x

\* How far a copy is: it runs, and no chunk so far was an end, or it has stopped.
CopyAt(s, chunks, pos, g, k) ==
    \/ /\ k <= Len(chunks) /\ s.how = "run" /\ s.at = pos[k] /\ s.video = g[k]
    \/ s.how # "run" /\ s.video = g[Len(chunks)]

\* A turn over the next chunk.
LEMMA NextTurn ==
    ASSUME NEW u, UsmOf(u), NEW file \in Seq(Cells), NEW pos, FileLies(file, u, pos),
           Usual(u.chunks), NEW g, Keeps(g, u.chunks),
           NEW s \in CopyState, NEW k \in Nat, CopyAt(s, u.chunks, pos, g, k)
    PROVE  CopyAt(CopyChunk(file, s), u.chunks, pos, g, k + 1)
<1> DEFINE chunks == u.chunks
<1> DEFINE N == Len(chunks)
<1> DEFINE r == CopyChunk(file, s)
<1>1. chunks \in Seq(ChunkOf) /\ N \in Nat /\ DOMAIN chunks = 1..N
    BY DEF UsmOf
<1>2. \A i \in 1..N : chunks[i] \in ChunkOf /\ chunks[i].header = 24 /\ chunks[i].footer = chunks[i].pad
    BY <1>1 DEF Usual
<1>3. /\ pos \in [0..N -> Nat] /\ pos[N] = Len(file)
      /\ \A i \in 1..N : pos[i] = pos[i - 1] + Room(chunks[i]) /\ Stands(file, chunks[i], pos[i - 1])
    BY Zenon DEF FileLies
<1>4. /\ g \in [0..N -> Seq(Contents)] /\ \A i \in 1..N : g[i] = g[i - 1] \o Kept(chunks, i)
    BY Zenon DEF Keeps
<1>5. s = [at |-> s.at, video |-> s.video, how |-> s.how]
    BY DEF CopyState
<1>6. CASE s.how # "run"
    <2>1. r = s
        BY <1>6, Zenon DEF CopyChunk
    <2> QED
        BY <1>6, <2>1, Zenon DEF CopyAt
<1>7. ASSUME s.how = "run", k <= N, s.at = pos[k], s.video = g[k], k = N
      PROVE  CopyAt(r, chunks, pos, g, k + 1)
    <2>1. s.at + 4 > Len(file)
        BY <1>3, <1>7
    <2>2. r = [s EXCEPT !.how = "eof"]
        BY <1>7, <2>1, Zenon DEF CopyChunk
    <2>3. r.how = "eof" /\ r.video = g[N]
        BY <1>5, <1>7, <2>2
    <2>4. "eof" # "run"
        OBVIOUS
    <2> QED
        BY <2>3, <2>4, Zenon DEF CopyAt
<1>8. ASSUME s.how = "run", k <= N, s.at = pos[k], s.video = g[k], k # N
      PROVE  CopyAt(r, chunks, pos, g, k + 1)
    <2> DEFINE c == chunks[k + 1]
    <2>1. k + 1 \in 1..N /\ (k + 1) - 1 = k /\ k \in 0..N /\ k + 1 <= N
        BY <1>1, <1>8
    <2>2. c \in ChunkOf /\ c.header = 24 /\ c.footer = c.pad
        BY <1>2, <2>1
    <2>3. pos[k] \in Nat /\ pos[k + 1] = pos[k] + Room(c) /\ Stands(file, c, pos[k])
        BY <1>3, <2>1
    <2>4. g[k + 1] = g[k] \o Kept(chunks, k + 1)
        BY <1>4, <2>1, Zenon
    <2>5. k + 1 \in Ends(chunks) <=> c.content[1] = <<"mark", "#CONTENTS END">>
        BY <1>1, <2>1, Zenon DEF Ends
    <2>6. Kept(chunks, k + 1) = IF c.sig = "@SFV" /\ k + 1 \notin Ends(chunks) THEN c.content ELSE << >>
        BY Zenon DEF Kept
    <2> HIDE DEF c
    <2>7. s.at + 4 <= Len(file)
        <3> DEFINE d == Room(c)
        <3>1. d \in Nat /\ d >= 8 /\ pos[k] + d <= Len(file) /\ Len(file) \in Nat
            BY <2>2, <2>3 DEF ChunkOf, Room, Stands
        <3> HIDE DEF d
        <3> QED
            BY <1>8, <2>3, <3>1
    <2>8. /\ Sig(file, s.at) = c.sig /\ NextChunk(file, s.at) = pos[k + 1]
          /\ Mark(file, s.at) = IF c.content[1][1] = "mark" THEN c.content[1][2] ELSE "none"
          /\ ContentLength(file, s.at) = Len(c.content)
          /\ processChunk(file, s.at) = IF c.sig = "@SFV" THEN c.content ELSE << >>
        BY <1>8, <2>2, <2>3, ChunkRead
    <2>9. Mark(file, s.at) = "#CONTENTS END" <=> k + 1 \in Ends(chunks)
        BY <2>2, <2>5, <2>8, EndMark
    <2>10. ~(s.at + 4 > Len(file))
        <3>1. s.at \in Nat /\ Len(file) \in Nat
            BY <1>8, <2>3
        <3> QED
            BY <2>7, <3>1
    <2>11. CASE k + 1 \in Ends(chunks)
        <3>1. r = [s EXCEPT !.how = "end"]
            BY <1>8, <2>9, <2>10, <2>11, Zenon DEF CopyChunk
        <3>2. r.how = "end" /\ r.video = g[k] /\ "end" # "run"
            BY <1>5, <1>8, <3>1
        <3>3. g[k] = g[N]
            BY <1>1, <2>1, <2>11, AfterEnd, Zenon
        <3> QED
            BY <3>2, <3>3, Zenon DEF CopyAt
    <2>12. CASE k + 1 \notin Ends(chunks)
        <3>1. ~(ContentLength(file, s.at) < 0)
            <4>1. c.content \in Seq(Contents)
                BY <2>2 DEF ChunkOf
            <4>2. Len(c.content) \in Nat
                BY <4>1
            <4>3. \A i \in Nat : ~(i < 0)
                OBVIOUS
            <4> QED
                BY <2>8, <4>2, <4>3, Zenon
        <3>2. r = [at |-> NextChunk(file, s.at), how |-> "run",
                   video |-> s.video \o processChunk(file, s.at)]
            BY <1>8, <2>9, <2>10, <2>12, <3>1, Zenon DEF CopyChunk
        <3>3. processChunk(file, s.at) = Kept(chunks, k + 1)
            BY <2>6, <2>8, <2>12, Zenon
        <3>4. r.at = pos[k + 1] /\ r.how = "run" /\ r.video = s.video \o processChunk(file, s.at)
            <4> DEFINE a == NextChunk(file, s.at)
                       v == s.video \o processChunk(file, s.at)
            <4>1. r = [at |-> a, how |-> "run", video |-> v]
                BY <3>2, Zenon
            <4> HIDE DEF r, a, v
            <4>2. r.at = a /\ r.how = "run" /\ r.video = v
                BY <4>1
            <4> QED
                BY <2>8, <4>2, Zenon DEF a, v
        <3>5. r.video = g[k + 1]
            BY <1>8, <2>4, <3>3, <3>4, Zenon
        <3> QED
            BY <2>1, <3>4, <3>5, Zenon DEF CopyAt
    <2> QED
        BY <2>11, <2>12
<1> QED
    BY <1>6, <1>7, <1>8, Zenon DEF CopyAt

\* Of a file that is not cut short, with usual chunks, the whole video is copied.
LEMMA VideoCopied ==
    ASSUME NEW u, UsmOf(u), NEW file \in Seq(Cells), NEW pos, FileLies(file, u, pos),
           Usual(u.chunks), NEW g, Keeps(g, u.chunks)
    PROVE  extractUSMChunks(file, 64 * HeadCount(u)).video = g[Len(u.chunks)]
<1> DEFINE start == 64 * HeadCount(u)
<1> DEFINE chunks == u.chunks
<1> DEFINE N == Len(chunks)
<1> DEFINE M == Turns(file)
<1>1. start \in Nat
    BY DEF HeadCount
<1>2. N \in Nat /\ Len(file) \in Nat
    BY DEF UsmOf
<1>3. pos[0] = start /\ 8 * N <= Len(file)
    BY Zenon DEF FileLies
<1>4. g[0] = << >>
    BY DEF Keeps
<1>5. M \in Nat /\ M > N
    <2> DEFINE l == Len(file)
    <2>1. M = l \div 8 + 2 /\ 8 * N <= l /\ l \in Nat
        BY <1>2, <1>3 DEF Turns
    <2> HIDE DEF l, M, N
    <2> QED
        BY <1>2, <2>1
<1> HIDE DEF start, chunks, N
<1>6. PICK f : Copies(f, file, start) /\ extractUSMChunks(file, start) = f[M]
    BY <1>1, CopyRuns, Zenon
<1> HIDE DEF M
<1>7. /\ f \in [0..M -> CopyState] /\ f[0] = CopyStart(start)
      /\ \A k \in 1..M : f[k] = CopyChunk(file, f[k - 1])
    BY <1>6, Zenon DEF Copies, M
<1> DEFINE T == {k \in Nat : k <= M => CopyAt(f[k], chunks, pos, g, k)}
<1>8. 0 \in T
    <2>1. f[0].how = "run" /\ f[0].at = start /\ f[0].video = << >>
        BY <1>7 DEF CopyStart
    <2>2. 0 <= Len(chunks)
        BY <1>2 DEF N
    <2>3. CopyAt(f[0], chunks, pos, g, 0)
        BY <1>3, <1>4, <2>1, <2>2, Zenon DEF CopyAt
    <2> QED
        BY <2>3
<1>9. ASSUME NEW k \in Nat, k \in T PROVE k + 1 \in T
    <2> SUFFICES ASSUME k + 1 <= M PROVE CopyAt(f[k + 1], chunks, pos, g, k + 1)
        OBVIOUS
    <2>1. k <= M /\ k + 1 \in 1..M /\ (k + 1) - 1 = k /\ k \in 0..M
        BY <1>5
    <2>2. CopyAt(f[k], chunks, pos, g, k)
        BY <1>9, <2>1
    <2>3. f[k] \in CopyState /\ f[k + 1] = CopyChunk(file, f[k])
        BY <1>7, <2>1
    <2> QED
        BY <2>2, <2>3, NextTurn, Zenon DEF chunks
<1> HIDE DEF T
<1>10. M \in T
    BY <1>5, <1>8, <1>9, Induction
<1>11. CopyAt(f[M], chunks, pos, g, M)
    <2>1. M <= M
        BY <1>5
    <2> QED
        BY <1>10, <2>1, Zenon DEF T
<1>12. ~(M <= N)
    BY <1>2, <1>5
<1>13. f[M].video = g[N]
    BY <1>11, <1>12, Zenon DEF CopyAt, N
<1> QED
    BY <1>6, <1>13, Zenon DEF start, N, chunks

\* For every USM file: one that the metadata reader takes is extracted too, and of one that
\* is not cut short, with usual chunks and its end markers behind the video, every byte of
\* video is copied once, in order and without padding (extractUSMChunks).
THEOREM VideosComeOut == Spec => []VideoIsWhole
<1>1. AnswerInv => VideoIsWhole
    <2> SUFFICES ASSUME AnswerInv, Decoded("usm") PROVE VideoIsWhole
        BY DEF VideoIsWhole
    <2> DEFINE u == job.u
    <2> DEFINE chunks == u.chunks
    <2> DEFINE file == UsmFile(u)
    <2> DEFINE seqs == [k \in DOMAIN chunks |-> Kept(chunks, k)]
    <2>1. UsmOf(u)
        <3>1. job \in Jobs /\ job.kind = "usm"
            BY DEF AnswerInv, Decoded
        <3> QED
            BY <3>1, UsmAssumption DEF UsmOf
    <2>2. out = [meta |-> ReadMetadata(file), usm |-> ExtractUSM(file)]
        BY DEF AnswerInv
    <2> HIDE DEF u, file
    <2>3. out.meta = ReadMetadata(file) /\ out.usm = ExtractUSM(file)
        BY <2>2
    <2>4. file \in Seq(Cells) /\ (u.cut = 0 => \E pos : FileLies(file, u, pos))
        BY <2>1, FileLaid, Zenon DEF file
    <2>5. ExtractUSM(file) = IF parseUSMHeader(file) = -1 THEN [video |-> << >>, how |-> "error", at |-> 0]
                             ELSE extractUSMChunks(file, parseUSMHeader(file))
        BY Zenon DEF ExtractUSM
    <2>6. ASSUME out.meta # -1 PROVE out.usm.how # "error"
        <3>1. parseUSMHeader(file) # -1 /\ parseUSMHeader(file) \in Nat
            BY <2>3, <2>4, <2>6, StartType, Zenon
        <3>2. extractUSMChunks(file, parseUSMHeader(file)) \in CopyState
            BY <2>4, <3>1, CopyEnds, Zenon
        <3>3. \A s \in CopyState : s.how # "error"
            BY DEF CopyState
        <3> QED
            BY <2>3, <2>5, <3>1, <3>2, <3>3, Zenon
    <2>7. ASSUME out.usm.how # "error", u.cut = 0, Usual(chunks)
          PROVE  out.usm.video = FlattenSeq(seqs)
        <3>1. PICK pos : FileLies(file, u, pos)
            BY <2>4, <2>7
        <3>2. parseUSMHeader(file) # -1
            <4>1. [video |-> << >>, how |-> "error", at |-> 0].how = "error"
                OBVIOUS
            <4> QED
                BY <2>3, <2>5, <2>7, <4>1, Zenon
        <3>3. parseUSMHeader(file) = 64 * HeadCount(u)
            <4>1. \A k \in 1..HeadCount(u) : Stands(file, UsmHead(u)[k], 64 * (k - 1))
                BY <3>1, Zenon DEF FileLies
            <4>2. StartsAfter(file, u)
                BY <2>1, <2>4, <4>1, StartIs, Zenon
            <4> QED
                BY <3>2, <4>2, Zenon DEF StartsAfter
        <3>4. chunks \in Seq(ChunkOf)
            BY <2>1 DEF UsmOf
        <3>5. \A k \in 1..Len(chunks) : Kept(chunks, k) \in Seq(Contents)
            <4>1. \A k \in 1..Len(chunks) : chunks[k].content \in Seq(Contents)
                BY <3>4, SMTT(30) DEF ChunkOf
            <4>2. << >> \in Seq(Contents)
                OBVIOUS
            <4> QED
                BY <4>1, <4>2, Zenon DEF Kept
        <3>6. DOMAIN chunks = 1..Len(chunks) /\ Len(chunks) \in Nat
            BY <3>4
        <3> HIDE DEF chunks
        <3>7. seqs \in Seq(Seq(Contents)) /\ Len(seqs) = Len(chunks)
            <4>1. seqs \in [1..Len(chunks) -> Seq(Contents)]
                BY <3>5, <3>6, Zenon
            <4> HIDE DEF seqs
            <4> QED
                BY <3>6, <4>1
        <3>8. \A k \in 1..Len(chunks) : seqs[k] = Kept(chunks, k)
            BY <3>6, Zenon
        <3> HIDE DEF seqs
        <3>9. PICK g \in [0..Len(seqs) -> Seq(Contents)] :
                  /\ g[0] = << >> /\ FlattenSeq(seqs) = g[Len(seqs)]
                  /\ \A i \in 1..Len(seqs) : g[i] = g[i - 1] \o seqs[i]
            BY <3>7, Flattened, Zenon
        <3>10. Keeps(g, chunks) /\ FlattenSeq(seqs) = g[Len(chunks)]
            BY <3>7, <3>8, <3>9, Zenon DEF Keeps
        <3>11. extractUSMChunks(file, 64 * HeadCount(u)).video = g[Len(u.chunks)]
            BY <2>1, <2>4, <2>7, <3>1, <3>10, VideoCopied, Zenon DEF chunks
        <3> QED
            BY <2>3, <2>5, <3>2, <3>3, <3>10, <3>11, Zenon DEF chunks
    <2> HIDE DEF seqs
    <2> QED
        BY <2>6, <2>7, Zenon DEF VideoIsWhole, Usual, Ends, Kept, seqs, u
<1> QED
    BY <1>1, AnswersHold, PTL

-----------------------------------------------------------------------------
(* ACB files: their archives.                                               *)

\* An aligned offset is not before the offset.
LEMMA AlignType ==
    ASSUME NEW m \in Nat \ {0}, NEW x \in Nat
    PROVE  align(m, x) \in Nat /\ align(m, x) >= x
<1> DEFINE q == (x + m - 1) \div m
<1> DEFINE r == (x + m - 1) % m
<1>1. q \in Nat /\ r \in 0..m - 1 /\ x + m - 1 = q * m + r
    <2> DEFINE y == x + m - 1
    <2>1. y \in Nat
        OBVIOUS
    <2> HIDE DEF y
    <2>2. y \div m \in Nat /\ y % m \in 0..m - 1 /\ y = (y \div m) * m + (y % m)
        BY <2>1
    <2> QED
        BY <2>2 DEF y
<1>2. align(m, x) = q * m
    BY DEF align
<1> HIDE DEF q, r
<1>3. q * m \in Nat
    BY <1>1
<1> DEFINE p == q * m
<1>4. p \in Nat /\ x + m - 1 = p + r
    BY <1>1, <1>3
<1> HIDE DEF p
<1>5. p >= x
    BY <1>1, <1>4
<1> QED
    BY <1>2, <1>4, <1>5, Zenon DEF p

\* Where the files of an archive start, and that one starts where the one before ended,
\* or later.
StartsSo(a, at) ==
    /\ at \in [1..Len(a.sizes) + 1 -> Nat]
    /\ at[1] = align(a.alignment, a.head)
    /\ \A k \in 1..Len(a.sizes) :
          /\ at[k + 1] = align(a.alignment, at[k] + a.sizes[k])
          /\ at[k] + a.sizes[k] <= at[k + 1]

\* For every archive.
LEMMA StartsAre ==
    ASSUME NEW a \in Archives
    PROVE  StartsSo(a, Starts(a))
<1> DEFINE N == Len(a.sizes)
<1> DEFINE z == align(a.alignment, a.head)
<1> DEFINE G == [k \in 1..N |-> [x \in Nat |-> align(a.alignment, x + a.sizes[k])]]
<1>1. /\ N \in Nat /\ a.head \in Nat /\ a.alignment \in Nat \ {0}
      /\ \A k \in 1..N : a.sizes[k] \in Nat
    BY DEF Archives
<1>2. z \in Nat
    BY <1>1, AlignType
<1>3. \A k \in 1..N, x \in Nat : x + a.sizes[k] \in Nat
    BY <1>1
<1>4. \A k \in 1..N, x \in Nat : align(a.alignment, x + a.sizes[k]) \in Nat
    BY <1>1, <1>3, AlignType, Zenon
<1>5. G \in Steps(N, Nat)
    BY <1>4, Zenon DEF Steps
<1>6. \A k \in 1..N, x \in Nat : G[k][x] = align(a.alignment, x + a.sizes[k])
    OBVIOUS
<1> DEFINE v == CHOOSE w : w = [k \in 1..N + 1 |->
                    IF k = 1 THEN z ELSE align(a.alignment, w[k - 1] + a.sizes[k - 1])]
<1>7. Starts(a) = v
    BY Zenon DEF Starts
<1> HIDE DEF N, z, G
<1>8. PICK f : Iterates(f, z, G, N, Nat)
    BY <1>1, <1>2, <1>5, Recursion, Zenon
<1>9. f \in [0..N -> Nat] /\ f[0] = z /\ \A k \in 1..N : f[k] = align(a.alignment, f[k - 1] + a.sizes[k])
    <2>1. f \in [0..N -> Nat] /\ f[0] = z /\ \A k \in 1..N : f[k] = G[k][f[k - 1]]
        BY <1>8, Zenon DEF Iterates
    <2>2. \A k \in 1..N : f[k - 1] \in Nat
        BY <1>1, <2>1
    <2> QED
        BY <1>6, <2>1, <2>2, Zenon
<1> DEFINE h == [k \in 1..N + 1 |-> f[k - 1]]
<1>10. h = [k \in 1..N + 1 |-> IF k = 1 THEN z ELSE align(a.alignment, h[k - 1] + a.sizes[k - 1])]
    <2>1. ASSUME NEW k \in 1..N + 1
          PROVE  h[k] = IF k = 1 THEN z ELSE align(a.alignment, h[k - 1] + a.sizes[k - 1])
        <3>1. CASE k = 1
            <4>1. k - 1 = 0
                BY <3>1
            <4> QED
                BY <1>9, <3>1, <4>1, Zenon
        <3>2. CASE k # 1
            <4>1. k - 1 \in 1..N /\ k - 1 \in 1..N + 1 /\ (k - 1) - 1 \in 0..N
                BY <1>1, <3>2
            <4>2. h[k] = f[k - 1] /\ h[k - 1] = f[(k - 1) - 1]
                BY <4>1, Zenon
            <4>3. f[k - 1] = align(a.alignment, f[(k - 1) - 1] + a.sizes[k - 1])
                BY <1>9, <4>1, Zenon
            <4> HIDE DEF h
            <4> QED
                BY <3>2, <4>2, <4>3, Zenon
        <3> QED
            BY <3>1, <3>2
    <2> QED
        BY <2>1, Zenon
<1>11. v = [k \in 1..N + 1 |-> IF k = 1 THEN z ELSE align(a.alignment, v[k - 1] + a.sizes[k - 1])]
    BY <1>10, Zenon
<1> HIDE DEF v, h
<1>12. v[1] = z /\ \A k \in 1..N : v[k + 1] = align(a.alignment, v[k] + a.sizes[k])
    <2>1. 1 \in 1..N + 1 /\ \A k \in 1..N : k + 1 \in 1..N + 1 /\ k + 1 # 1 /\ (k + 1) - 1 = k
        BY <1>1
    <2> QED
        BY <1>11, <2>1, Zenon
<1>13. \A k \in 1..N + 1 : v[k] \in Nat
    <2> DEFINE S == {k \in Nat : k <= N => v[k + 1] \in Nat}
    <2>1. 0 \in S
        BY <1>2, <1>12
    <2>2. ASSUME NEW k \in Nat, k \in S PROVE k + 1 \in S
        <3> SUFFICES ASSUME k + 1 <= N PROVE v[(k + 1) + 1] \in Nat
            OBVIOUS
        <3>1. k + 1 \in 1..N /\ k <= N
            BY <1>1
        <3>2. v[k + 1] \in Nat
            BY <2>2, <3>1
        <3> QED
            BY <1>4, <1>12, <3>1, <3>2, Zenon
    <2> HIDE DEF S
    <2>3. Nat \subseteq S
        BY <2>1, <2>2, Induction
    <2> SUFFICES ASSUME NEW k \in 1..N + 1 PROVE v[k] \in Nat
        OBVIOUS
    <2>4. k - 1 \in Nat /\ k - 1 <= N /\ (k - 1) + 1 = k
        BY <1>1
    <2>5. k - 1 \in S
        BY <2>3, <2>4
    <2>6. v[(k - 1) + 1] \in Nat
        BY <2>4, <2>5 DEF S
    <2> QED
        BY <2>4, <2>6
<1>14. v \in [1..N + 1 -> Nat]
    BY <1>11, <1>13, Zenon
<1>15. \A k \in 1..N : v[k] + a.sizes[k] <= v[k + 1]
    <2> TAKE k \in 1..N
    <2>1. v[k] \in Nat /\ v[k + 1] \in Nat /\ v[k] + a.sizes[k] \in Nat
        BY <1>1, <1>13
    <2>2. align(a.alignment, v[k] + a.sizes[k]) >= v[k] + a.sizes[k]
        BY <1>1, <2>1, AlignType
    <2> QED
        BY <1>12, <2>1, <2>2
<1> QED
    BY <1>7, <1>12, <1>14, <1>15, Zenon DEF StartsSo, N, z

\* Of a file: where it is, that it is the archive's part of that size, and that it is found.
LEMMA DataFound ==
    ASSUME NEW a \in Archives, NEW i \in DOMAIN a.ids
    PROVE  FileDataForCueID(Archive(a), a.ids[i]) = {<<Starts(a)[i], a.sizes[i]>>}
<1> DEFINE N == Len(a.sizes)
<1> DEFINE at == Starts(a)
<1> DEFINE b == Archive(a)
<1> DEFINE offset(k) == IF k = 1 THEN a.head ELSE at[k - 1] + a.sizes[k - 1]
<1>1. /\ N \in Nat /\ Len(a.ids) = N /\ DOMAIN a.ids = 1..N /\ a.head \in Nat
      /\ a.alignment \in Nat \ {0} /\ \A k \in 1..N : a.sizes[k] \in Nat
      /\ \A j, k \in DOMAIN a.ids : a.ids[j] = a.ids[k] => j = k
    <2> DEFINE ids == a.ids
    <2> DEFINE sizes == a.sizes
    <2>1. ids \in Seq(Nat) /\ sizes \in Seq(Nat) /\ a.head \in Nat /\ a.alignment \in Nat \ {0}
        BY DEF Archives
    <2>2. Len(ids) = Len(sizes) /\ \A j, k \in DOMAIN ids : ids[j] = ids[k] => j = k
        <3>1. Len(ids) = Len(sizes)
            BY DEF Archives
        <3>2. \A j, k \in DOMAIN a.ids : a.ids[j] = a.ids[k] => j = k
            BY DEF Archives
        <3> QED
            BY <3>1, <3>2, Zenon
    <2> HIDE DEF ids, sizes
    <2>3. /\ Len(sizes) \in Nat /\ DOMAIN ids = 1..Len(sizes)
          /\ \A k \in 1..Len(sizes) : sizes[k] \in Nat
        BY <2>1, <2>2
    <2> QED
        BY <2>1, <2>2, <2>3, Zenon DEF ids, sizes
<1>2. /\ at \in [1..N + 1 -> Nat] /\ at[1] = align(a.alignment, a.head)
      /\ \A k \in 1..N : /\ at[k + 1] = align(a.alignment, at[k] + a.sizes[k])
                         /\ at[k] + a.sizes[k] <= at[k + 1]
    BY StartsAre, Zenon DEF StartsSo
<1>3. /\ b.alignment = a.alignment /\ b.ids = a.ids /\ b.length = at[N] + a.sizes[N]
      /\ b.offsets = [k \in 1..N + 1 |-> offset(k)]
    BY DEF Archive
<1> HIDE DEF b, at, N
<1>4. i \in 1..N /\ i \in 1..N + 1 /\ i + 1 \in 1..N + 1 /\ i + 1 # 1 /\ (i + 1) - 1 = i /\ N \in 1..N
    BY <1>1
<1>5. b.offsets[i] = offset(i) /\ b.offsets[i + 1] = offset(i + 1)
    BY <1>3, <1>4, Zenon
<1>6. align(a.alignment, offset(i)) = at[i]
    <2>1. CASE i = 1
        BY <1>2, <2>1
    <2>2. CASE i # 1
        <3>1. i - 1 \in 1..N /\ (i - 1) + 1 = i
            BY <1>1, <1>4, <2>2
        <3>2. at[(i - 1) + 1] = align(a.alignment, at[i - 1] + a.sizes[i - 1])
            BY <1>2, <3>1, Zenon
        <3> QED
            BY <2>2, <3>1, <3>2, Zenon
    <2> QED
        BY <2>1, <2>2
<1>7. offset(i + 1) = at[i] + a.sizes[i]
    BY <1>4, Zenon
<1> HIDE DEF offset
<1>8. at[i] \in Nat /\ a.sizes[i] \in Nat
    BY <1>1, <1>2, <1>4
<1> DEFINE f == AfsFile(b, i)
<1>9. f = [id |-> a.ids[i], offset |-> at[i], size |-> a.sizes[i]]
    <2>1. \A x, y \in Nat : (x + y) - x = y
        OBVIOUS
    <2>2. offset(i + 1) - align(a.alignment, offset(i)) = a.sizes[i]
        BY <1>6, <1>7, <1>8, <2>1, Zenon
    <2> QED
        BY <1>3, <1>5, <1>6, <2>2, Zenon DEF AfsFile
<1> HIDE DEF f
<1>10. at[i] + a.sizes[i] <= b.length
    <2> DEFINE S == {d \in Nat : i + d <= N => at[i] + a.sizes[i] <= at[i + d] + a.sizes[i + d]}
    <2>1. 0 \in S
        <3> DEFINE n == at[i] + a.sizes[i]
        <3>1. n \in Nat /\ i + 0 = i
            BY <1>4, <1>8
        <3> HIDE DEF n
        <3>2. n <= n
            BY <3>1
        <3>3. at[i] + a.sizes[i] <= at[i + 0] + a.sizes[i + 0]
            BY <3>1, <3>2, Zenon DEF n
        <3> QED
            BY <3>3
    <2>2. ASSUME NEW d \in Nat, d \in S PROVE d + 1 \in S
        <3> SUFFICES ASSUME i + (d + 1) <= N
                     PROVE  at[i] + a.sizes[i] <= at[i + (d + 1)] + a.sizes[i + (d + 1)]
            OBVIOUS
        <3> DEFINE k == i + d
        <3>1. k \in 1..N /\ k + 1 \in 1..N /\ k <= N /\ i + (d + 1) = k + 1
            BY <1>1, <1>4
        <3>2. at[i] + a.sizes[i] <= at[k] + a.sizes[k]
            BY <2>2, <3>1
        <3> HIDE DEF k
        <3>3. at[k] + a.sizes[k] <= at[k + 1]
            BY <1>2, <3>1, Zenon
        <3>4. {at[i], a.sizes[i], at[k], a.sizes[k], at[k + 1], a.sizes[k + 1]} \subseteq Nat
            <4>1. k \in 1..N + 1 /\ k + 1 \in 1..N + 1
                BY <1>1, <3>1
            <4>2. at[k] \in Nat /\ at[k + 1] \in Nat
                BY <1>2, <4>1, Zenon
            <4>3. a.sizes[k] \in Nat /\ a.sizes[k + 1] \in Nat
                BY <1>1, <3>1, Zenon
            <4> QED
                BY <1>8, <4>2, <4>3
        <3>5. at[i] + a.sizes[i] <= at[k + 1] + a.sizes[k + 1]
            BY <3>2, <3>3, <3>4
        <3> QED
            BY <3>1, <3>5, Zenon
    <2> HIDE DEF S
    <2>3. Nat \subseteq S
        BY <2>1, <2>2, Induction
    <2>4. N - i \in S /\ i + (N - i) = N
        BY <1>1, <1>4, <2>3
    <2>5. at[i] + a.sizes[i] <= at[i + (N - i)] + a.sizes[i + (N - i)]
        BY <1>1, <2>4 DEF S
    <2> QED
        BY <1>3, <2>4, <2>5, Zenon
<1>11. FileData(b, f) = {<<at[i], a.sizes[i]>>}
    <2>1. f.offset = at[i] /\ f.size = a.sizes[i]
        BY <1>9
    <2>2. a.sizes[i] >= 0
        BY <1>8
    <2> QED
        BY <1>10, <2>1, <2>2, Zenon DEF FileData
<1> DEFINE same == {k \in DOMAIN b.ids : b.ids[k] = a.ids[i]}
<1>12. same = {i}
    BY <1>1, <1>3
<1>13. (CHOOSE k \in {i} : \A j \in {i} : k <= j) = i
    <2>1. i <= i
        BY <1>4
    <2> QED
        BY <2>1
<1>14. FileDataForCueID(b, a.ids[i]) =
          IF same # {} THEN FileData(b, AfsFile(b, CHOOSE k \in same : \A j \in same : k <= j))
          ELSE IF b.ids # << >> /\ b.ids[1] = 0 THEN FileData(b, AfsFile(b, 1)) ELSE {}
    BY Zenon DEF FileDataForCueID
<1> HIDE DEF same
<1>15. same # {}
    BY <1>12
<1>16. FileDataForCueID(b, a.ids[i]) = FileData(b, f)
    BY <1>12, <1>13, <1>14, <1>15, Zenon DEF f
<1> QED
    BY <1>11, <1>16, Zenon DEF b, at

\* What is kept of a list when nothing is left out of it.
LEMMA AllKept ==
    ASSUME NEW D, NEW s \in Seq(D)
    PROVE  FlattenSeq([k \in DOMAIN s |-> <<s[k]>>]) = s
<1> DEFINE N == Len(s)
<1> DEFINE e == [k \in DOMAIN s |-> <<s[k]>>]
<1>1. N \in Nat /\ DOMAIN s = 1..N /\ \A k \in 1..N : s[k] \in D
    OBVIOUS
<1> HIDE DEF N
<1>2. \A k \in 1..N : e[k] = <<s[k]>> /\ <<s[k]>> \in Seq(D)
    BY <1>1
<1>3. e \in Seq(Seq(D)) /\ Len(e) = N
    <2>1. e \in [1..N -> Seq(D)]
        BY <1>1, <1>2
    <2> HIDE DEF e
    <2> QED
        BY <1>1, <2>1
<1> HIDE DEF e
<1>4. PICK f \in [0..N -> Seq(D)] :
          /\ f[0] = << >> /\ FlattenSeq(e) = f[N]
          /\ \A i \in 1..N : f[i] = f[i - 1] \o e[i]
    BY <1>3, Flattened, Zenon
<1> DEFINE S == {k \in Nat : k <= N => Len(f[k]) = k /\ \A j \in 1..k : f[k][j] = s[j]}
<1>5. 0 \in S
    BY <1>4
<1>6. ASSUME NEW k \in Nat, k \in S PROVE k + 1 \in S
    <2> SUFFICES ASSUME k + 1 <= N
                 PROVE  Len(f[k + 1]) = k + 1 /\ \A j \in 1..k + 1 : f[k + 1][j] = s[j]
        OBVIOUS
    <2>1. k <= N /\ k + 1 \in 1..N /\ k \in 0..N /\ (k + 1) - 1 = k
        BY <1>1
    <2>2. Len(f[k]) = k /\ \A j \in 1..k : f[k][j] = s[j]
        BY <1>6, <2>1
    <2> DEFINE g == f[k]
    <2> DEFINE x == s[k + 1]
    <2>3. g \in Seq(D) /\ x \in D /\ f[k + 1] = g \o <<x>>
        BY <1>1, <1>2, <1>4, <2>1
    <2>4. Len(g) = k /\ \A j \in 1..k : g[j] = s[j]
        BY <2>2
    <2> HIDE DEF g
    <2>5. Len(g \o <<x>>) = k + 1 /\ (g \o <<x>>)[k + 1] = x /\ \A j \in 1..k : (g \o <<x>>)[j] = g[j]
        <3> DEFINE t == <<x>>
        <3>1. t \in Seq(D) /\ Len(t) = 1 /\ t[1] = x
            BY <2>3
        <3>2. Behind(D, g \o t, g, k, t, 1)
            BY <2>3, <2>4, <3>1, Appended, Zenon
        <3> HIDE DEF t
        <3>3. 1 \in 1..1
            OBVIOUS
        <3> QED
            BY <2>4, <3>1, <3>2, <3>3, Zenon DEF Behind, t
    <2>6. \A j \in 1..k + 1 : j \in 1..k \/ j = k + 1
        OBVIOUS
    <2> QED
        BY <2>3, <2>4, <2>5, <2>6, Zenon
<1> HIDE DEF S
<1>7. N \in S /\ N <= N /\ N \in 0..N
    <2>1. Nat \subseteq S
        BY <1>5, <1>6, Induction
    <2> QED
        BY <1>1, <2>1
<1>8. f[N] \in Seq(D) /\ Len(f[N]) = N /\ \A j \in 1..N : f[N][j] = s[j]
    BY <1>4, <1>7 DEF S
<1>9. f[N] = s
    BY <1>1, <1>8 DEF N
<1> QED
    BY <1>4, <1>9, Zenon DEF e

\* The file with its archives is the tables' with others.
LEMMA AcbFields ==
    ASSUME NEW b \in AcbFiles
    PROVE  LET c == AcbOf(b)
           IN  /\ c.cues = b.cues /\ c.names = b.names /\ c.seqs = b.seqs /\ c.tracks = b.tracks
               /\ c.events = b.events /\ c.synths = b.synths /\ c.waves = b.waves
               /\ c.embedded = Archive(b.embedded)
               /\ c.external = [k \in DOMAIN b.external |-> Archive(b.external[k])]
    BY DEF AcbFiles, AcbOf

\* What the code reads of a wave is what was put there.
LEMMA WaveRead ==
    ASSUME NEW b \in AcbFiles, \A k \in DOMAIN b.external : b.external[k].there,
           NEW wave \in [stream : BOOLEAN, id : Nat, port : Nat, enc : Nat],
           b.embedded.there \/ wave.stream, NEW d \in Original(b, wave)
    PROVE  getTrackData(AcbOf(b), wave) = {d}
<1> DEFINE c == AcbOf(b)
<1> DEFINE ext == c.external
<1>1. /\ b.embedded \in Archives /\ b.external \in Seq(Archives)
      /\ \A k \in DOMAIN b.external : b.external[k] \in Archives
    BY DEF AcbFiles
<1>2. /\ c.embedded = Archive(b.embedded)
      /\ ext = [k \in DOMAIN b.external |-> Archive(b.external[k])]
    BY AcbFields, Zenon
<1> HIDE DEF c, ext
<1>3. ASSUME NEW a \in Archives
      PROVE  Archive(a).there = a.there /\ Archive(a).file = a.file
    BY DEF Archive
<1>4. DOMAIN ext = DOMAIN b.external /\ \A k \in DOMAIN ext : ext[k] = Archive(b.external[k])
    BY <1>2
<1>5. \A k \in DOMAIN ext : ext[k].there
    BY <1>1, <1>3, <1>4, Zenon
<1>6. externalAwbs(c) = ext
    <2> DEFINE D == {ext[k] : k \in DOMAIN ext}
    <2>1. DOMAIN ext = 1..Len(b.external) /\ Len(b.external) \in Nat
        BY <1>1, <1>4
    <2>2. ext = [k \in 1..Len(b.external) |-> ext[k]]
        BY <1>2, <2>1, Zenon
    <2>3. \A k \in 1..Len(b.external) : ext[k] \in D
        BY <2>1
    <2> HIDE DEF D
    <2>4. ext \in [1..Len(b.external) -> D]
        BY <2>2, <2>3, Zenon
    <2>5. ext \in Seq(D)
        BY <2>1, <2>4
    <2>6. FlattenSeq([k \in DOMAIN ext |-> <<ext[k]>>]) = ext
        BY <2>5, AllKept, Zenon
    <2>7. [k \in DOMAIN ext |-> IF ext[k].there THEN <<ext[k]>> ELSE << >>]
          = [k \in DOMAIN ext |-> <<ext[k]>>]
        BY <1>5, Zenon
    <2> QED
        BY <2>6, <2>7, Zenon DEF externalAwbs, ext
<1>7. ASSUME NEW a \in Archives, NEW i \in DOMAIN a.ids, a.ids[i] = wave.id,
             d = <<a.file, <<Starts(a)[i], a.sizes[i]>>>>
      PROVE  {<<Archive(a).file, e>> : e \in FileDataForCueID(Archive(a), wave.id)} = {d}
    <2>1. FileDataForCueID(Archive(a), wave.id) = {<<Starts(a)[i], a.sizes[i]>>}
        BY <1>7, DataFound, Zenon
    <2>2. Archive(a).file = a.file
        BY <1>3, Zenon
    <2> QED
        BY <1>7, <2>1, <2>2, Zenon
<1>8. CASE wave.stream
    <2>1. PICK a \in {b.external[k] : k \in DOMAIN b.external \cap {wave.port + 1}} :
              \E i \in {k \in DOMAIN a.ids : a.ids[k] = wave.id} :
                  d = <<a.file, <<Starts(a)[i], a.sizes[i]>>>>
        <3> DEFINE A == IF wave.stream THEN {b.external[k] : k \in DOMAIN b.external \cap {wave.port + 1}}
                        ELSE {b.embedded}
        <3>1. \E a \in A : \E i \in {k \in DOMAIN a.ids : a.ids[k] = wave.id} :
                  d = <<a.file, <<Starts(a)[i], a.sizes[i]>>>>
            <4>1. d \in UNION {{<<a.file, <<Starts(a)[i], a.sizes[i]>>>> :
                                   i \in {k \in DOMAIN a.ids : a.ids[k] = wave.id}} : a \in A}
                BY Zenon DEF Original
            <4> HIDE DEF A
            <4> QED
                BY <4>1, Zenon
        <3>2. A = {b.external[k] : k \in DOMAIN b.external \cap {wave.port + 1}}
            BY <1>8, Zenon
        <3> HIDE DEF A
        <3> QED
            BY <3>1, <3>2, Zenon
    <2>2. wave.port + 1 \in DOMAIN b.external /\ a = b.external[wave.port + 1]
        BY <2>1
    <2>3. PICK i \in DOMAIN a.ids : a.ids[i] = wave.id /\ d = <<a.file, <<Starts(a)[i], a.sizes[i]>>>>
        BY <2>1
    <2>4. a \in Archives /\ ext[wave.port + 1] = Archive(a) /\ wave.port + 1 \in DOMAIN ext
        BY <1>1, <1>4, <2>2, Zenon
    <2>5. Indexes(externalAwbs(c), wave.port)
        BY <1>6, <2>4, Zenon DEF Indexes
    <2>6. {<<Archive(a).file, e>> : e \in FileDataForCueID(Archive(a), wave.id)} = {d}
        BY <1>7, <2>3, <2>4, Zenon
    <2> QED
        BY <1>6, <1>8, <2>4, <2>5, <2>6, Zenon DEF getTrackData, c
<1>9. CASE ~wave.stream
    <2>1. PICK a \in {b.embedded} :
              \E i \in {k \in DOMAIN a.ids : a.ids[k] = wave.id} :
                  d = <<a.file, <<Starts(a)[i], a.sizes[i]>>>>
        <3> DEFINE A == IF wave.stream THEN {b.external[k] : k \in DOMAIN b.external \cap {wave.port + 1}}
                        ELSE {b.embedded}
        <3>1. \E a \in A : \E i \in {k \in DOMAIN a.ids : a.ids[k] = wave.id} :
                  d = <<a.file, <<Starts(a)[i], a.sizes[i]>>>>
            <4>1. d \in UNION {{<<a.file, <<Starts(a)[i], a.sizes[i]>>>> :
                                   i \in {k \in DOMAIN a.ids : a.ids[k] = wave.id}} : a \in A}
                BY Zenon DEF Original
            <4> HIDE DEF A
            <4> QED
                BY <4>1, Zenon
        <3>2. A = {b.embedded}
            BY <1>9, Zenon
        <3> HIDE DEF A
        <3> QED
            BY <3>1, <3>2, Zenon
    <2>2. a = b.embedded
        BY <2>1
    <2>3. PICK i \in DOMAIN a.ids : a.ids[i] = wave.id /\ d = <<a.file, <<Starts(a)[i], a.sizes[i]>>>>
        BY <2>1
    <2>4. a \in Archives /\ c.embedded = Archive(a) /\ Archive(a).there
        BY <1>1, <1>2, <1>3, <1>9, <2>2, Zenon
    <2>5. {<<Archive(a).file, e>> : e \in FileDataForCueID(Archive(a), wave.id)} = {d}
        BY <1>7, <2>3, <2>4, Zenon
    <2> QED
        BY <1>9, <2>4, <2>5, Zenon DEF getTrackData, c
<1> QED
    BY <1>8, <1>9

-----------------------------------------------------------------------------
(* From the tables to the tracks.                                           *)

\* What the cues play.
WaveSet == [stream : BOOLEAN, id : Nat, port : Nat, enc : Nat]
PlaySet == [ref : Nat, wave : WaveSet]

\* Lists put one behind the other are a list.
LEMMA FlattenType ==
    ASSUME NEW D, NEW n \in Nat, NEW e, e = [k \in 1..n |-> e[k]], \A k \in 1..n : e[k] \in Seq(D)
    PROVE  FlattenSeq(e) \in Seq(D)
<1>1. e \in [1..n -> Seq(D)]
    BY Zenon
<1>2. e \in Seq(Seq(D))
    BY <1>1
<1> QED
    BY <1>2, Laid, Zenon

\* The archives do not matter for what is played and how it is called.
LEMMA SamePlays ==
    ASSUME NEW b \in AcbFiles
    PROVE  /\ Plays(AcbOf(b)) = Plays(b)
           /\ \A ref : CueName(AcbOf(b), ref) = CueName(b, ref)
           /\ \A ref : CuePanics(AcbOf(b), ref) <=> CuePanics(b, ref)
<1> DEFINE c == AcbOf(b)
<1>1. /\ c.cues = b.cues /\ c.names = b.names /\ c.seqs = b.seqs /\ c.tracks = b.tracks
      /\ c.events = b.events /\ c.synths = b.synths /\ c.waves = b.waves
    BY AcbFields, Zenon
<1> HIDE DEF c
<1>2. \A t : TrackRowPlays(c, t) = TrackRowPlays(b, t)
    <2> TAKE t
    <2>1. c.tracks = b.tracks /\ c.events = b.events
        BY <1>1, Zenon
    <2>2. TrackRowPlays(c, t) = TrackRowPlays([tracks |-> c.tracks, events |-> c.events], t)
        BY DEF TrackRowPlays, Indexes
    <2>3. TrackRowPlays(b, t) = TrackRowPlays([tracks |-> b.tracks, events |-> b.events], t)
        BY DEF TrackRowPlays, Indexes
    <2> QED
        BY <2>1, <2>2, <2>3, Zenon
<1>3. \A s : PlaysAWave(c, s) <=> PlaysAWave(b, s)
    BY <1>1, Zenon DEF PlaysAWave, Indexes
<1>4. \A ref, t : TrackPlays(c, ref, t) = TrackPlays(b, ref, t)
    <2> TAKE ref, t
    <2> DEFINE synths == TrackRowPlays(b, t)
    <2> DEFINE e(x) == [k \in DOMAIN synths |->
            IF PlaysAWave(x, synths[k])
            THEN <<[ref |-> ref, wave |-> x.waves[x.synths[synths[k] + 1].wave + 1]]>>
            ELSE << >>]
    <2>1. e(c) = e(b)
        <3> HIDE DEF synths
        <3>1. \A k \in DOMAIN synths :
                  (IF PlaysAWave(c, synths[k])
                   THEN <<[ref |-> ref, wave |-> c.waves[c.synths[synths[k] + 1].wave + 1]]>> ELSE << >>)
                  = (IF PlaysAWave(b, synths[k])
                     THEN <<[ref |-> ref, wave |-> b.waves[b.synths[synths[k] + 1].wave + 1]]>> ELSE << >>)
            BY <1>1, <1>3, Zenon
        <3> QED
            BY <3>1, Zenon
    <2>2. TrackPlays(b, ref, t) = FlattenSeq(e(b))
        BY Zenon DEF TrackPlays
    <2>3. TrackPlays(c, ref, t) = FlattenSeq(e(c))
        <3> DEFINE own == TrackRowPlays(c, t)
        <3> DEFINE g(s) == [k \in DOMAIN s |->
                IF PlaysAWave(c, s[k])
                THEN <<[ref |-> ref, wave |-> c.waves[c.synths[s[k] + 1].wave + 1]]>>
                ELSE << >>]
        <3>1. TrackPlays(c, ref, t) = FlattenSeq(g(own)) /\ e(c) = g(synths)
            BY Zenon DEF TrackPlays
        <3>2. own = synths
            BY <1>2, Zenon
        <3> HIDE DEF own, synths, g
        <3> QED
            BY <3>1, <3>2, Zenon
    <2> QED
        BY <2>1, <2>2, <2>3, Zenon
<1>5. \A ref : CueTracks(c, ref) = CueTracks(b, ref)
    BY <1>1, Zenon DEF CueTracks, Indexes
<1>6. \A ref : CuePlays(c, ref) = CuePlays(b, ref)
    <2> TAKE ref
    <2> DEFINE own == CueTracks(c, ref)
    <2> DEFINE rows == CueTracks(b, ref)
    <2> DEFINE g(s) == [k \in DOMAIN s |-> TrackPlays(c, ref, s[k])]
    <2>1. CuePlays(c, ref) = FlattenSeq(g(own))
          /\ CuePlays(b, ref) = FlattenSeq([k \in DOMAIN rows |-> TrackPlays(b, ref, rows[k])])
        BY Zenon DEF CuePlays
    <2>2. own = rows
        BY <1>5, Zenon
    <2> HIDE DEF own, rows
    <2>3. g(rows) = [k \in DOMAIN rows |-> TrackPlays(b, ref, rows[k])]
        BY <1>4, Zenon
    <2> HIDE DEF g
    <2> QED
        BY <2>1, <2>2, <2>3, Zenon
<1>7. Plays(c) = Plays(b)
    <2>1. [k \in DOMAIN c.cues |-> CuePlays(c, c.cues[k].ref)]
          = [k \in DOMAIN b.cues |-> CuePlays(b, b.cues[k].ref)]
        BY <1>1, <1>6, Zenon
    <2> QED
        BY <2>1, Zenon DEF Plays
<1>8. \A ref : CueName(c, ref) = CueName(b, ref)
    <2> TAKE ref
    <2>1. {k \in DOMAIN c.names : c.names[k].cue = ref} = {k \in DOMAIN b.names : b.names[k].cue = ref}
        BY <1>1, Zenon
    <2> QED
        BY <1>1, <2>1, Zenon DEF CueName
<1>9. \A ref : CuePanics(c, ref) <=> CuePanics(b, ref)
    BY <1>1, Zenon DEF CuePanics, Indexes
<1> QED
    BY <1>7, <1>8, <1>9, Zenon DEF c

\* The synths that an event plays.
LEMMA PlayedType ==
    ASSUME NEW commands \in Seq(Commands)
    PROVE  Played(commands) \in Seq(Nat)
<1> DEFINE N == Len(commands)
<1> DEFINE ended(k) == \E j \in 1..k : commands[j].op \in {"end", "cut"}
<1> DEFINE e == [k \in 1..N |-> IF commands[k].op = "play" /\ ~ended(k) THEN <<commands[k].synth>> ELSE << >>]
<1>1. N \in Nat /\ DOMAIN commands = 1..N /\ \A k \in 1..N : commands[k] \in Commands
    OBVIOUS
<1> HIDE DEF N
<1>2. Played(commands) = FlattenSeq(e)
    BY <1>1, Zenon DEF Played
<1>3. \A x \in Commands : x.op = "play" => x.synth \in Nat
    BY DEF Commands
<1>4. \A n \in Nat : <<n>> \in Seq(Nat)
    OBVIOUS
<1>5. << >> \in Seq(Nat)
    OBVIOUS
<1> HIDE DEF ended
<1>6. \A k \in 1..N : e[k] \in Seq(Nat)
    BY <1>1, <1>3, <1>4, <1>5, Zenon
<1>7. e = [k \in 1..N |-> e[k]]
    BY Zenon
<1> HIDE DEF e
<1> QED
    BY <1>1, <1>2, <1>6, <1>7, FlattenType, Zenon

\* What the cues of a file play, when none of them panics.
LEMMA PlaysType ==
    ASSUME NEW b \in AcbFiles, \A k \in DOMAIN b.cues : ~CuePanics(b, b.cues[k].ref)
    PROVE  Plays(b) \in Seq(PlaySet)
<1>1. /\ b.cues \in Seq([type : Nat, ref : Nat]) /\ b.seqs \in Seq([num : Nat, rows : Seq(Nat)])
      /\ b.tracks \in Seq(Nat) /\ b.events \in Seq(Seq(Commands))
      /\ b.waves \in Seq(WaveSet)
    BY DEF AcbFiles, WaveSet
<1>2. << >> \in Seq(Nat) /\ << >> \in Seq(PlaySet)
    OBVIOUS
<1>3. ASSUME NEW t PROVE TrackRowPlays(b, t) \in Seq(Nat)
    <2>1. ASSUME Indexes(b.tracks, t), Indexes(b.events, b.tracks[t + 1])
          PROVE  Played(b.events[b.tracks[t + 1] + 1]) \in Seq(Nat)
        <3>1. b.tracks[t + 1] + 1 \in DOMAIN b.events
            BY <2>1, Zenon DEF Indexes
        <3>2. b.events[b.tracks[t + 1] + 1] \in Seq(Commands)
            BY <1>1, <3>1
        <3> QED
            BY <3>2, PlayedType, Zenon
    <2> DEFINE none == \/ ~Indexes(b.tracks, t) \/ b.tracks[t + 1] = 65535
                       \/ ~Indexes(b.events, b.tracks[t + 1])
    <2> DEFINE some == Played(b.events[b.tracks[t + 1] + 1])
    <2>2. TrackRowPlays(b, t) = IF none THEN << >> ELSE some
        BY DEF TrackRowPlays
    <2>3. ~none => some \in Seq(Nat)
        <3>1. ~none => Indexes(b.tracks, t) /\ Indexes(b.events, b.tracks[t + 1])
            OBVIOUS
        <3> HIDE DEF none
        <3> QED
            BY <2>1, <3>1, Zenon
    <2> HIDE DEF none, some
    <2> QED
        BY <1>2, <2>2, <2>3
<1>4. ASSUME NEW s, PlaysAWave(b, s) PROVE b.waves[b.synths[s + 1].wave + 1] \in WaveSet
    <2>1. b.synths[s + 1].wave + 1 \in DOMAIN b.waves
        BY <1>4, Zenon DEF PlaysAWave, Indexes
    <2> QED
        BY <1>1, <2>1
<1>5. ASSUME NEW ref \in Nat, NEW t PROVE TrackPlays(b, ref, t) \in Seq(PlaySet)
    <2> DEFINE synths == TrackRowPlays(b, t)
    <2> DEFINE n == Len(synths)
    <2> DEFINE x(k) == IF PlaysAWave(b, synths[k])
                       THEN <<[ref |-> ref, wave |-> b.waves[b.synths[synths[k] + 1].wave + 1]]>>
                       ELSE << >>
    <2> DEFINE e == [k \in 1..n |-> x(k)]
    <2>1. synths \in Seq(Nat)
        BY <1>3, Zenon
    <2>2. TrackPlays(b, ref, t) = FlattenSeq([k \in DOMAIN synths |-> x(k)])
        BY Zenon DEF TrackPlays
    <2> HIDE DEF synths
    <2>3. n \in Nat /\ DOMAIN synths = 1..n
        BY <2>1
    <2>4. TrackPlays(b, ref, t) = FlattenSeq(e)
        BY <2>2, <2>3, Zenon
    <2>5. \A k \in 1..n : x(k) \in Seq(PlaySet)
        <3>1. \A w \in WaveSet : <<[ref |-> ref, wave |-> w]>> \in Seq(PlaySet)
            BY DEF PlaySet
        <3> QED
            BY <1>2, <1>4, <3>1, Zenon
    <2> HIDE DEF x, n
    <2>6. e = [k \in 1..n |-> e[k]] /\ \A k \in 1..n : e[k] \in Seq(PlaySet)
        BY <2>5, Zenon
    <2> HIDE DEF e
    <2> QED
        BY <2>3, <2>4, <2>6, FlattenType, Zenon
<1>6. ASSUME NEW ref \in Nat, ~CuePanics(b, ref)
      PROVE  \E n \in Nat : DOMAIN CueTracks(b, ref) = 1..n
    <2>1. CASE Indexes(b.seqs, ref)
        <3> DEFINE q == b.seqs[ref + 1]
        <3>1. ref + 1 \in DOMAIN b.seqs
            BY <2>1, Zenon DEF Indexes
        <3>2. q \in [num : Nat, rows : Seq(Nat)]
            <4> DEFINE D == [num : Nat, rows : Seq(Nat)]
            <4> DEFINE seqs == b.seqs
            <4>1. \A k \in DOMAIN seqs : seqs[k] \in D
                <5>1. seqs \in Seq(D)
                    BY <1>1, Zenon
                <5> HIDE DEF seqs, D
                <5> QED
                    BY <5>1
            <4> QED
                BY <3>1, <4>1, Zenon
        <3>3. ~(q.num > Len(q.rows))
            BY <1>6, <2>1, Zenon DEF CuePanics
        <3>4. CueTracks(b, ref) = SubSeq(q.rows, 1, q.num)
            BY <2>1, Zenon DEF CueTracks
        <3> HIDE DEF q
        <3>5. q.num \in Nat /\ q.rows \in Seq(Nat) /\ q.num <= Len(q.rows)
            BY <3>2, <3>3
        <3>6. SubSeq(q.rows, 1, q.num) = [i \in 1..q.num |-> q.rows[i]]
            BY <3>5
        <3> QED
            BY <3>4, <3>5, <3>6
    <2>2. CASE ~Indexes(b.seqs, ref)
        <3>1. CueTracks(b, ref) = [k \in DOMAIN b.tracks |-> k - 1]
            BY <2>2, Zenon DEF CueTracks
        <3>2. DOMAIN b.tracks = 1..Len(b.tracks) /\ Len(b.tracks) \in Nat
            BY <1>1
        <3> QED
            BY <3>1, <3>2
    <2> QED
        BY <2>1, <2>2
<1>7. ASSUME NEW ref \in Nat, ~CuePanics(b, ref) PROVE CuePlays(b, ref) \in Seq(PlaySet)
    <2> DEFINE e == [k \in DOMAIN CueTracks(b, ref) |-> TrackPlays(b, ref, CueTracks(b, ref)[k])]
    <2>1. PICK n \in Nat : DOMAIN CueTracks(b, ref) = 1..n
        BY <1>6, <1>7
    <2>2. CuePlays(b, ref) = FlattenSeq(e)
        BY Zenon DEF CuePlays
    <2>3. e = [k \in 1..n |-> e[k]] /\ \A k \in 1..n : e[k] \in Seq(PlaySet)
        BY <1>5, <2>1, Zenon
    <2> HIDE DEF e
    <2> QED
        BY <2>2, <2>3, FlattenType, Zenon
<1> DEFINE e == [k \in DOMAIN b.cues |-> CuePlays(b, b.cues[k].ref)]
<1> DEFINE n == Len(b.cues)
<1>8. n \in Nat /\ DOMAIN b.cues = 1..n /\ \A k \in 1..n : b.cues[k].ref \in Nat
    <2> DEFINE cues == b.cues
    <2> DEFINE Cues == [type : Nat, ref : Nat]
    <2>1. cues \in Seq(Cues)
        BY <1>1, Zenon
    <2>2. \A x \in Cues : x.ref \in Nat
        OBVIOUS
    <2> HIDE DEF cues, Cues
    <2>3. Len(cues) \in Nat /\ DOMAIN cues = 1..Len(cues) /\ \A k \in 1..Len(cues) : cues[k] \in Cues
        BY <2>1
    <2> QED
        BY <2>2, <2>3, Zenon DEF cues
<1> HIDE DEF n
<1>9. e = [k \in 1..n |-> e[k]] /\ \A k \in 1..n : e[k] \in Seq(PlaySet)
    BY <1>7, <1>8, Zenon
<1>10. Plays(b) = FlattenSeq(e)
    BY Zenon DEF Plays
<1> HIDE DEF e
<1> QED
    BY <1>8, <1>9, <1>10, FlattenType, Zenon

-----------------------------------------------------------------------------
(* The names of the tracks.                                                 *)

NameSet == (STRING \cup {"UNKNOWN"}) \X Seq(Nat)

\* The greatest of some numbers is one of them.
LEMMA MaxIn ==
    ASSUME NEW n \in Nat, NEW S \in SUBSET (1..n), S # {}
    PROVE  Max(S) \in S /\ \A y \in S : Max(S) >= y
<1> DEFINE T == {n - x : x \in S}
<1>1. T \in SUBSET Nat /\ T # {}
    <2>1. \A x \in 1..n : n - x \in Nat
        OBVIOUS
    <2>2. S \subseteq 1..n
        OBVIOUS
    <2>3. \A x \in S : n - x \in Nat
        BY <2>1, <2>2
    <2>4. T \subseteq Nat
        BY <2>3, Zenon
    <2>5. T # {}
        BY Zenon
    <2> QED
        BY <2>4, <2>5
<1> HIDE DEF T
<1>2. PICK t \in T : \A y \in T : t <= y
    BY <1>1, NatMin
<1>3. PICK x \in S : t = n - x
    BY <1>2 DEF T
<1>4. ASSUME NEW y \in S PROVE x >= y
    <2>1. n - y \in T /\ x \in 1..n /\ y \in 1..n
        BY DEF T
    <2>2. n - x <= n - y
        BY <1>2, <1>3, <2>1
    <2> QED
        BY <2>1, <2>2
<1>5. \E z \in S : \A y \in S : z >= y
    BY <1>4
<1> DEFINE w == CHOOSE z \in S : \A y \in S : z >= y
<1>6. w \in S /\ \A y \in S : w >= y
    BY <1>5, Zenon
<1> QED
    BY <1>6, Zenon DEF Max

\* What a cue can be called.
LEMMA CueNameType ==
    ASSUME NEW b \in AcbFiles, NEW ref \in Nat
    PROVE  CueName(b, ref) \in NameSet
<1> DEFINE names == b.names
<1> DEFINE Rows == [cue : Nat, name : STRING \X Seq(Nat)]
<1> DEFINE same == {k \in DOMAIN names : names[k].cue = ref}
<1> DEFINE made == <<"UNKNOWN", <<ref>>>>
<1> DEFINE own == names[Max(same)].name
<1>1. names \in Seq(Rows)
    BY DEF AcbFiles
<1>2. \A r \in Rows : r.name \in NameSet
    BY DEF NameSet
<1> HIDE DEF names, Rows
<1>3. DOMAIN names = 1..Len(names) /\ Len(names) \in Nat /\ \A k \in DOMAIN names : names[k] \in Rows
    BY <1>1
<1>4. made \in NameSet
    BY DEF NameSet
<1>5. ASSUME same # {} PROVE own \in NameSet
    <2>1. same \in SUBSET (1..Len(names))
        BY <1>3
    <2> HIDE DEF same
    <2>2. Max(same) \in same
        BY <1>3, <1>5, <2>1, MaxIn, Zenon
    <2>3. Max(same) \in DOMAIN names
        BY <2>2 DEF same
    <2> QED
        BY <1>2, <1>3, <2>3, Zenon
<1>6. CueName(b, ref) = IF same = {} \/ own = <<"", << >>>> THEN made ELSE own
    BY DEF CueName, names
<1> HIDE DEF same, own, made
<1> QED
    BY <1>4, <1>5, <1>6

\* The names of the tracks, each that of its cue, or with the wave's id behind it when a
\* track before has that.
NameOf(b, plays, names, k) ==
    LET n == CueName(b, plays[k].ref) IN
    IF \E j \in 1..k - 1 : names[j] = n THEN Numbered(n, plays[k].wave.id) ELSE n
Named(b, plays, names) ==
    /\ names \in [1..Len(plays) -> NameSet]
    /\ \A k \in 1..Len(plays) : names[k] = NameOf(b, plays, names, k)

\* The name that the next track gets.
NextName(b, p, earlier) == generateUniqueName(CueName(b, p.ref), p.wave.id, earlier)

\* It is a name.
LEMMA NextNameType ==
    ASSUME NEW b \in AcbFiles, NEW p \in PlaySet, NEW earlier
    PROVE  NextName(b, p, earlier) \in NameSet
<1> DEFINE n == CueName(b, p.ref)
<1>1. p.ref \in Nat /\ p.wave.id \in Nat
    BY DEF PlaySet, WaveSet
<1>2. n \in NameSet
    BY <1>1, CueNameType, Zenon
<1> HIDE DEF n
<1>3. Numbered(n, p.wave.id) \in NameSet
    <2> DEFINE t == n[1]
    <2> DEFINE l == n[2]
    <2> DEFINE i == p.wave.id
    <2>1. t \in STRING \cup {"UNKNOWN"} /\ l \in Seq(Nat)
        BY <1>2 DEF NameSet
    <2> HIDE DEF t, l, i
    <2>2. i \in Nat
        BY <1>1, Zenon DEF i
    <2>3. Append(l, i) \in Seq(Nat)
        BY <2>1, <2>2
    <2>4. Numbered(n, i) = <<t, Append(l, i)>>
        BY Zenon DEF Numbered, t, l
    <2>5. Numbered(n, i) \in NameSet
        <3> DEFINE A == STRING \cup {"UNKNOWN"}
        <3> DEFINE r == Append(l, i)
        <3>1. t \in A /\ r \in Seq(Nat) /\ Numbered(n, i) = <<t, r>> /\ NameSet = A \X Seq(Nat)
            BY <2>1, <2>3, <2>4, Zenon DEF NameSet
        <3> HIDE DEF A, r
        <3> QED
            BY <3>1
    <2> QED
        BY <2>5, Zenon DEF i
<1> QED
    BY <1>2, <1>3, Zenon DEF NextName, generateUniqueName, n

\* How the names come about.
Names(f, b, plays) ==
    /\ f \in [0..Len(plays) -> Seq(NameSet)] /\ f[0] = << >>
    /\ \A k \in 1..Len(plays) : f[k] = Append(f[k - 1], NextName(b, plays[k], f[k - 1]))

\* For all the plays of a file.
LEMMA NamesRun ==
    ASSUME NEW b \in AcbFiles, Plays(b) \in Seq(PlaySet)
    PROVE  \E f : Names(f, b, Plays(b)) /\ TrackNames(AcbOf(b)) = f[Len(Plays(b))]
<1> DEFINE c == AcbOf(b)
<1> DEFINE plays == Plays(c)
<1> DEFINE N == Len(plays)
<1> DEFINE S == Seq(NameSet)
<1> DEFINE next(k, s) == Append(s, NextName(c, plays[k], s))
<1> DEFINE z == << >>
<1> DEFINE G == [k \in 1..N |-> [s \in S |-> next(k, s)]]
<1> DEFINE v == CHOOSE h : h = [k \in 0..N |-> IF k = 0 THEN z ELSE next(k, h[k - 1])]
<1>1. TrackNames(c) = v[N]
    BY Zenon DEF TrackNames, NextName
<1>0. Plays(c) = Plays(b) /\ \A ref : CueName(c, ref) = CueName(b, ref)
    BY SamePlays, Zenon
<1> HIDE DEF c, plays
<1>00. plays = Plays(b) /\ \A p, s : NextName(c, p, s) = NextName(b, p, s)
    BY <1>0, Zenon DEF plays, NextName
<1>2. N \in Nat /\ \A k \in 1..N : plays[k] \in PlaySet
    BY <1>00
<1>3. \A k \in 1..N : \A s \in S : next(k, s) \in S
    <2>1. \A s \in S, n \in NameSet : Append(s, n) \in S
        OBVIOUS
    <2>2. \A k \in 1..N, s \in S : NextName(c, plays[k], s) \in NameSet
        BY <1>00, <1>2, NextNameType, Zenon
    <2> HIDE DEF S
    <2> QED
        BY <2>1, <2>2, Zenon
<1>4. z \in S
    OBVIOUS
<1> HIDE DEF N, S, z, next
<1>5. G \in Steps(N, S)
    BY <1>3, Zenon DEF Steps
<1>6. \A k \in 1..N, s \in S : G[k][s] = next(k, s)
    OBVIOUS
<1>7. 0 \in 0..N /\ N \in 0..N /\ \A k \in 1..N : k # 0 /\ k \in 0..N /\ k - 1 \in 0..N
    BY <1>2
<1> HIDE DEF G
<1>8. PICK f : Iterates(f, z, G, N, S)
    BY <1>2, <1>4, <1>5, Recursion, Zenon
<1>9. f \in [0..N -> S] /\ f[0] = z /\ \A k \in 1..N : f[k] = next(k, f[k - 1])
    <2>1. f \in [0..N -> S] /\ f[0] = z /\ \A k \in 1..N : f[k] = G[k][f[k - 1]]
        BY <1>8, Zenon DEF Iterates
    <2>2. \A k \in 1..N : f[k - 1] \in S
        BY <1>7, <2>1, Zenon
    <2> QED
        BY <1>6, <2>1, <2>2, Zenon
<1>10. f = [k \in 0..N |-> IF k = 0 THEN z ELSE next(k, f[k - 1])]
    <2>1. \A k \in 0..N : f[k] = IF k = 0 THEN z ELSE next(k, f[k - 1])
        <3> TAKE k \in 0..N
        <3>1. k = 0 \/ k \in 1..N
            BY <1>2
        <3> QED
            BY <1>7, <1>9, <3>1, Zenon
    <2> QED
        BY <1>9, <2>1, Zenon
<1>11. v = [k \in 0..N |-> IF k = 0 THEN z ELSE next(k, v[k - 1])]
    BY <1>10, Zenon
<1> HIDE DEF v
<1>12. v[0] = z /\ \A k \in 1..N : v[k] = next(k, v[k - 1])
    BY <1>7, <1>11, Zenon
<1>13. \A k \in 0..N : v[k] \in S
    <2> DEFINE T == {k \in Nat : k <= N => v[k] \in S}
    <2>1. 0 \in T
        BY <1>4, <1>12
    <2>2. ASSUME NEW k \in Nat, k \in T PROVE k + 1 \in T
        <3> SUFFICES ASSUME k + 1 <= N PROVE v[k + 1] \in S
            OBVIOUS
        <3>1. k <= N /\ k + 1 \in 1..N /\ (k + 1) - 1 = k
            BY <1>2
        <3>2. v[k] \in S
            BY <2>2, <3>1
        <3>3. v[k + 1] = next(k + 1, v[k])
            BY <1>12, <3>1
        <3> QED
            BY <1>3, <3>1, <3>2, <3>3, Zenon
    <2> HIDE DEF T
    <2>3. Nat \subseteq T
        BY <2>1, <2>2, Induction
    <2> QED
        BY <1>2, <2>3 DEF T
<1>14. v \in [0..N -> S]
    BY <1>11, <1>13, Zenon
<1>15. Names(v, b, plays)
    <2>1. \A k, s : next(k, s) = Append(s, NextName(b, plays[k], s))
        BY <1>00, Zenon DEF next
    <2> QED
        BY <1>12, <1>14, <2>1, Zenon DEF Names, N, S, z
<1> QED
    BY <1>1, <1>00, <1>15, Zenon DEF N, c

\* The names are so.
LEMMA NamesAre ==
    ASSUME NEW b \in AcbFiles, Plays(b) \in Seq(PlaySet)
    PROVE  Named(b, Plays(b), TrackNames(AcbOf(b)))
<1> DEFINE plays == Plays(b)
<1> DEFINE N == Len(plays)
<1>1. PICK f : Names(f, b, plays) /\ TrackNames(AcbOf(b)) = f[N]
    BY NamesRun, Zenon
<1> HIDE DEF plays
<1>2. N \in Nat
    BY DEF plays
<1>3. /\ f \in [0..N -> Seq(NameSet)] /\ f[0] = << >>
      /\ \A k \in 1..N : f[k] = Append(f[k - 1], NextName(b, plays[k], f[k - 1]))
    BY <1>1, Zenon DEF Names
<1> HIDE DEF N
<1> DEFINE T == {k \in Nat : k <= N =>
                    Len(f[k]) = k /\ \A j \in 1..k : f[k][j] = NextName(b, plays[j], f[j - 1])}
<1>4. 0 \in T
    BY <1>3
<1>5. ASSUME NEW k \in Nat, k \in T PROVE k + 1 \in T
    <2> SUFFICES ASSUME k + 1 <= N
                 PROVE  /\ Len(f[k + 1]) = k + 1
                        /\ \A j \in 1..k + 1 : f[k + 1][j] = NextName(b, plays[j], f[j - 1])
        OBVIOUS
    <2>1. k <= N /\ k + 1 \in 1..N /\ k \in 0..N /\ (k + 1) - 1 = k
        BY <1>2
    <2>2. Len(f[k]) = k /\ \A j \in 1..k : f[k][j] = NextName(b, plays[j], f[j - 1])
        BY <1>5, <2>1
    <2> DEFINE g == f[k]
    <2> DEFINE x == NextName(b, plays[k + 1], f[k])
    <2>3. g \in Seq(NameSet) /\ f[k + 1] = Append(g, x) /\ Len(g) = k
        BY <1>3, <2>1, <2>2, Zenon
    <2> HIDE DEF g, x
    <2>4. Len(Append(g, x)) = k + 1 /\ Append(g, x)[k + 1] = x /\ \A j \in 1..k : Append(g, x)[j] = g[j]
        BY <2>3
    <2>5. \A j \in 1..k + 1 : j \in 1..k \/ j = k + 1
        OBVIOUS
    <2>6. \A j \in 1..k : g[j] = NextName(b, plays[j], f[j - 1])
        BY <2>2, Zenon DEF g
    <2>7. x = NextName(b, plays[k + 1], f[(k + 1) - 1])
        BY <2>1, Zenon DEF x
    <2> QED
        BY <2>3, <2>4, <2>5, <2>6, <2>7, Zenon
<1> HIDE DEF T
<1>6. \A k \in 0..N : Len(f[k]) = k /\ \A j \in 1..k : f[k][j] = NextName(b, plays[j], f[j - 1])
    <2>1. Nat \subseteq T
        BY <1>4, <1>5, Induction
    <2> QED
        BY <1>2, <2>1 DEF T
<1> DEFINE names == f[N]
<1>7. names \in [1..N -> NameSet]
    <2>1. names \in Seq(NameSet) /\ Len(names) = N
        BY <1>2, <1>3, <1>6
    <2> HIDE DEF names
    <2> QED
        BY <2>1
<1>8. ASSUME NEW k \in 1..N PROVE names[k] = NameOf(b, plays, names, k)
    <2> DEFINE e == f[k - 1]
    <2>1. k - 1 \in 0..N /\ N \in 0..N /\ 1..k - 1 \subseteq 1..N
        BY <1>2
    <2>2. Len(e) = k - 1 /\ e \in Seq(NameSet)
        BY <1>3, <1>6, <2>1, Zenon
    <2>3. \A j \in 1..k - 1 : e[j] = NextName(b, plays[j], f[j - 1])
        BY <1>6, <2>1, Zenon
    <2>4. \A j \in 1..N : names[j] = NextName(b, plays[j], f[j - 1])
        BY <1>6, <2>1, Zenon
    <2>5. names[k] = NextName(b, plays[k], e)
        BY <2>4, Zenon
    <2> HIDE DEF e, names
    <2>6. DOMAIN e = 1..k - 1
        BY <2>2
    <2>7. \A j \in 1..k - 1 : e[j] = names[j]
        BY <2>1, <2>3, <2>4, Zenon
    <2> DEFINE n == CueName(b, plays[k].ref)
    <2>8. Taken(n, e) <=> \E j \in 1..k - 1 : names[j] = n
        BY <2>6, <2>7, Zenon DEF Taken
    <2>9. NextName(b, plays[k], e) = IF Taken(n, e) THEN Numbered(n, plays[k].wave.id) ELSE n
        BY Zenon DEF NextName, generateUniqueName
    <2>10. NameOf(b, plays, names, k) = IF \E j \in 1..k - 1 : names[j] = n THEN Numbered(n, plays[k].wave.id) ELSE n
        BY Zenon DEF NameOf
    <2> HIDE DEF n
    <2> QED
        BY <2>5, <2>8, <2>9, <2>10
<1> HIDE DEF names
<1>9. Named(b, plays, names)
    BY <1>7, <1>8, Zenon DEF Named, N
<1> QED
    BY <1>1, <1>9, Zenon DEF names, plays

\* A number put behind two names leaves them apart, and is seen in each.
Apart(n, i, m, j) == Numbered(n, i) = Numbered(m, j) => n = m /\ i = j

\* Whatever they are.
LEMMA NumberedApart ==
    ASSUME NEW n \in NameSet, NEW m \in NameSet, NEW i \in Nat, NEW j \in Nat
    PROVE  Apart(n, i, m, j)
<1> SUFFICES ASSUME Numbered(n, i) = Numbered(m, j) PROVE n = m /\ i = j
    BY DEF Apart
<1> DEFINE x == n[2]
<1> DEFINE y == m[2]
<1>1. n = <<n[1], x>> /\ m = <<m[1], y>> /\ x \in Seq(Nat) /\ y \in Seq(Nat)
    BY DEF NameSet
<1>2. n[1] = m[1] /\ Append(x, i) = Append(y, j)
    BY DEF Numbered
<1> HIDE DEF x, y
<1>3. Len(x) = Len(y)
    <2>1. Len(Append(x, i)) = Len(x) + 1 /\ Len(Append(y, j)) = Len(y) + 1 /\ Len(x) \in Nat /\ Len(y) \in Nat
        BY <1>1
    <2> QED
        BY <1>2, <2>1
<1>4. i = j
    <2>1. Append(x, i)[Len(x) + 1] = i /\ Append(y, j)[Len(y) + 1] = j
        BY <1>1
    <2> QED
        BY <1>2, <1>3, <2>1
<1>5. \A k \in 1..Len(x) : x[k] = y[k]
    <2>1. \A k \in 1..Len(x) : Append(x, i)[k] = x[k]
        BY <1>1
    <2>2. \A k \in 1..Len(y) : Append(y, j)[k] = y[k]
        BY <1>1
    <2> QED
        BY <1>2, <1>3, <2>1, <2>2
<1>6. x = y
    <2> DEFINE l == Len(x)
    <2>1. l \in Nat /\ l = Len(y)
        BY <1>1, <1>3
    <2>2. x = [k \in 1..Len(x) |-> x[k]] /\ y = [k \in 1..Len(y) |-> y[k]]
        BY <1>1
    <2>3. x = [k \in 1..l |-> x[k]] /\ y = [k \in 1..l |-> y[k]]
        BY <2>1, <2>2, Zenon
    <2>4. \A k \in 1..l : x[k] = y[k]
        BY <1>5, Zenon
    <2> HIDE DEF l
    <2> QED
        BY <2>3, <2>4, Zenon
<1> QED
    BY <1>1, <1>2, <1>4, <1>6, Zenon

\* Two tracks of one name clash.
LEMMA OneName ==
    ASSUME NEW b \in AcbFiles, NEW plays \in Seq(PlaySet), NEW names, Named(b, plays, names),
           NEW k \in DOMAIN plays, NEW m \in DOMAIN plays, k < m, names[k] = names[m]
    PROVE  NamesClash(b, plays[k], plays[m]) /\ NamesClash(b, plays[m], plays[k])
<1> DEFINE p == plays[k]
<1> DEFINE q == plays[m]
<1> DEFINE a == CueName(b, p.ref)
<1> DEFINE c == CueName(b, q.ref)
<1>1. p \in PlaySet /\ q \in PlaySet /\ DOMAIN plays = 1..Len(plays) /\ Len(plays) \in Nat
    OBVIOUS
<1>2. p.ref \in Nat /\ q.ref \in Nat /\ p.wave.id \in Nat /\ q.wave.id \in Nat
    BY <1>1 DEF PlaySet, WaveSet
<1>3. a \in NameSet /\ c \in NameSet
    BY <1>2, CueNameType, Zenon
<1>4. names[k] = a \/ names[k] = Numbered(a, p.wave.id)
    BY <1>1, Zenon DEF Named, NameOf
<1>5. names[m] = Numbered(c, q.wave.id) \/ (names[m] = c /\ \A j \in 1..m - 1 : names[j] # c)
    BY <1>1, Zenon DEF Named, NameOf
<1>6. names[k] # c \/ names[m] # c
    <2>1. k \in 1..m - 1
        BY <1>1
    <2>2. c = Numbered(c, q.wave.id) => FALSE
        <3> DEFINE x == c[2]
        <3>1. x \in Seq(Nat) /\ Numbered(c, q.wave.id)[2] = Append(x, q.wave.id)
            BY <1>3 DEF NameSet, Numbered
        <3> HIDE DEF x
        <3>2. Append(x, q.wave.id) # x
            <4>1. Len(Append(x, q.wave.id)) = Len(x) + 1 /\ Len(x) \in Nat
                BY <3>1
            <4> QED
                BY <4>1
        <3> QED
            BY <3>1, <3>2 DEF x
    <2> QED
        BY <1>5, <2>1, <2>2, Zenon
<1> HIDE DEF a, c
<1>7. names[m] = Numbered(c, q.wave.id)
    BY <1>5, <1>6, Zenon
<1>8. CASE names[k] = a
    <2>1. a = Numbered(c, q.wave.id)
        BY <1>7, <1>8, Zenon
    <2> QED
        BY <2>1, Zenon DEF NamesClash, a, c
<1>9. CASE names[k] = Numbered(a, p.wave.id)
    <2>1. Numbered(a, p.wave.id) = Numbered(c, q.wave.id)
        BY <1>7, <1>9, Zenon
    <2>2. Apart(a, p.wave.id, c, q.wave.id)
        BY <1>2, <1>3, NumberedApart, Zenon
    <2>3. a = c /\ p.wave.id = q.wave.id
        BY <2>1, <2>2, Zenon DEF Apart
    <2> QED
        BY <2>3, Zenon DEF NamesClash, a, c
<1> QED
    BY <1>4, <1>8, <1>9, Zenon

-----------------------------------------------------------------------------
(* The files.                                                               *)

\* A wave's data is in one of the files, or another track has a name like this one's.
WaveKept(b, files, k, d) ==
    \/ \E f \in files : f[2] = d
    \/ \E m \in DOMAIN Plays(b) : m # k /\ NamesClash(b, Plays(b)[k], Plays(b)[m])

\* For every track of every file.
LEMMA WavesKept ==
    ASSUME NEW b \in AcbFiles, \A k \in DOMAIN b.external : b.external[k].there,
           \A k \in DOMAIN b.cues : ~CuePanics(b, b.cues[k].ref),
           NEW k \in DOMAIN Plays(b), b.embedded.there \/ Plays(b)[k].wave.stream,
           NEW d \in Original(b, Plays(b)[k].wave)
    PROVE  WaveKept(b, FilesOf(AcbOf(b)), k, d)
<1> DEFINE c == AcbOf(b)
<1> DEFINE plays == Plays(b)
<1> DEFINE names == TrackNames(c)
<1> DEFINE data == [i \in DOMAIN plays |-> getTrackData(c, plays[i].wave)]
<1> DEFINE file(i) == <<names[i], plays[i].wave.enc>>
<1> DEFINE wrote == {i \in DOMAIN plays : data[i] # {}}
<1> DEFINE last == {i \in wrote : \A m \in wrote : file(m) = file(i) => m <= i}
<1> DEFINE same == {i \in wrote : file(i) = file(k)}
<1>1. plays \in Seq(PlaySet)
    BY PlaysType, Zenon
<1>2. Plays(c) = plays
    BY SamePlays, Zenon
<1>3. FilesOf(c) = {<<file(i), CHOOSE x \in data[i] : TRUE>> : i \in last}
    <2> DEFINE own == Plays(c)
    <2> DEFINE of(s) ==
            LET got      == [i \in DOMAIN s |-> getTrackData(c, s[i].wave)]
                named(i) == <<names[i], s[i].wave.enc>>
                put      == {i \in DOMAIN s : got[i] # {}}
                final    == {i \in put : \A m \in put : named(m) = named(i) => m <= i}
            IN  {<<named(i), CHOOSE x \in got[i] : TRUE>> : i \in final}
    <2>1. FilesOf(c) = of(own)
        BY Zenon DEF FilesOf
    <2>2. of(plays) = {<<file(i), CHOOSE x \in data[i] : TRUE>> : i \in last}
        BY Zenon
    <2> HIDE DEF of, own, last, file, data
    <2>3. own = plays
        BY <1>2, Zenon DEF own
    <2> QED
        BY <2>1, <2>2, <2>3, Zenon
<1>4. Named(b, plays, names)
    BY <1>1, NamesAre, Zenon
<1>5. getTrackData(c, plays[k].wave) = {d}
    <2>1. plays[k] \in PlaySet
        BY <1>1
    <2> HIDE DEF plays
    <2>2. plays[k].wave \in WaveSet
        BY <2>1 DEF PlaySet
    <2> QED
        BY <2>2, WaveRead, Zenon DEF WaveSet, plays
<1> HIDE DEF c, plays, names
<1>6. k \in DOMAIN plays
    BY DEF plays
<1>7. data[k] = {d}
    BY <1>5, <1>6, Zenon
<1>8. DOMAIN plays = 1..Len(plays) /\ Len(plays) \in Nat
    BY <1>1
<1> HIDE DEF data
<1>9. k \in same /\ same \in SUBSET (1..Len(plays)) /\ k \in Nat
    <2>1. k \in wrote
        BY <1>6, <1>7
    <2> QED
        BY <1>8, <2>1
<1> DEFINE m == Max(same)
<1>10. m \in same /\ \A y \in same : m >= y
    <2> HIDE DEF same
    <2> QED
        BY <1>8, <1>9, MaxIn, Zenon
<1> HIDE DEF m
<1>11. m \in wrote /\ file(m) = file(k) /\ m \in 1..Len(plays)
    BY <1>8, <1>10
<1>12. \A i \in wrote : file(i) = file(m) => i <= m
    <2>1. \A i \in wrote : file(i) = file(m) => i \in same /\ i \in Nat
        BY <1>8, <1>11
    <2>2. \A i \in wrote : file(i) = file(m) => m >= i
        BY <1>10, <2>1, Zenon
    <2> HIDE DEF same, file, wrote
    <2> QED
        BY <1>11, <2>1, <2>2
<1> HIDE DEF wrote
<1>13. m \in last
    BY <1>11, <1>12, Zenon
<1>14. CASE m = k
    <2> DEFINE f == <<file(m), CHOOSE x \in data[m] : TRUE>>
    <2>1. f \in FilesOf(c)
        BY <1>3, <1>13, Zenon
    <2>2. (CHOOSE x \in {d} : TRUE) = d
        OBVIOUS
    <2>3. f[2] = d
        BY <1>7, <1>14, <2>2
    <2> QED
        BY <2>1, <2>3, Zenon DEF WaveKept, c
<1>15. CASE m # k
    <2>1. k < m
        BY <1>9, <1>10, <1>11, <1>15
    <2>2. names[k] = names[m]
        BY <1>11
    <2>3. m \in DOMAIN plays
        BY <1>8, <1>11
    <2>4. NamesClash(b, plays[k], plays[m])
        BY <1>1, <1>4, <1>6, <2>1, <2>2, <2>3, OneName, Zenon
    <2> QED
        BY <1>15, <2>3, <2>4, Zenon DEF WaveKept, plays
<1> QED
    BY <1>14, <1>15, Zenon

\* For every ACB file whose extraction ends well, with its external archives there: every
\* wave that a cue plays and an archive has is in a file in the end, unless another track's
\* name and wave id are like its own (ExtractACB, NewAFSArchive, generateUniqueName).
THEOREM TracksAreKept == Spec => []TracksKept
<1>1. AnswerInv => TracksKept
    <2> SUFFICES ASSUME AnswerInv, Decoded("acb"), out.how = "ok",
                        \A k \in DOMAIN job.acb.external : job.acb.external[k].there
                 PROVE  \A k \in DOMAIN Plays(job.acb) :
                            LET play == Plays(job.acb)[k] IN
                            job.acb.embedded.there \/ play.wave.stream =>
                            \A d \in Original(job.acb, play.wave) : WaveKept(job.acb, out.files, k, d)
        BY Zenon DEF TracksKept, WaveKept
    <2> DEFINE b == job.acb
    <2> DEFINE c == AcbOf(b)
    <2>1. b \in AcbFiles
        <3>1. job \in Jobs /\ job.kind = "acb"
            BY DEF AnswerInv, Decoded
        <3> QED
            BY <3>1, TracksAssumption
    <2>2. out = ExtractACB(c)
        BY DEF AnswerInv
    <2> HIDE DEF b, c
    <2> DEFINE unknown == \E k \in DOMAIN c.cues :
                              /\ c.cues[k].type \notin {3, 8}
                              /\ \A m \in 1..k - 1 : ~CuePanics(c, c.cues[m].ref)
    <2> DEFINE panics == \E k \in DOMAIN c.cues : CuePanics(c, c.cues[k].ref)
    <2>3. out = IF unknown THEN [how |-> "error", files |-> {}]
                ELSE IF panics THEN [how |-> "panic", files |-> {}]
                ELSE [how |-> "ok", files |-> FilesOf(c)]
        BY <2>2 DEF ExtractACB
    <2> HIDE DEF unknown
    <2>4. ~panics /\ out.files = FilesOf(c)
        <3> HIDE DEF panics
        <3> QED
            BY <2>3
    <2>5. \A k \in DOMAIN b.cues : ~CuePanics(b, b.cues[k].ref)
        <3>1. c.cues = b.cues
            BY <2>1, AcbFields, Zenon DEF c
        <3>2. \A ref : CuePanics(c, ref) <=> CuePanics(b, ref)
            BY <2>1, SamePlays, Zenon DEF c
        <3> QED
            BY <2>4, <3>1, <3>2, Zenon
    <2>6. \A k \in DOMAIN b.external : b.external[k].there
        BY DEF b
    <2>7. ASSUME NEW k \in DOMAIN Plays(b), b.embedded.there \/ Plays(b)[k].wave.stream,
                 NEW d \in Original(b, Plays(b)[k].wave)
          PROVE  WaveKept(b, out.files, k, d)
        <3>1. WaveKept(b, FilesOf(AcbOf(b)), k, d)
            BY <2>1, <2>5, <2>6, <2>7, WavesKept, Zenon
        <3> QED
            BY <2>4, <3>1, Zenon DEF c
    <2> QED
        BY <2>7, Zenon DEF b
<1> QED
    BY <1>1, AnswersHold, PTL

-----------------------------------------------------------------------------
(* Numbers, strings and data in a file.                                     *)

\* s stands in w at position p.
At(w, s, p) == p + Len(s) <= Len(w) /\ \A i \in 1..Len(s) : w[p + i] = s[i]

\* What stands in a file is read there.
LEMMA ByteRead ==
    ASSUME NEW data \in Seq(Byte), NEW s \in Seq(Byte), NEW p \in Nat, At(data, s, p), NEW j \in 1..Len(s)
    PROVE  ByteAt(data, p + j - 1) = s[j] /\ p + j \in DOMAIN data /\ data[p + j] = s[j]
<1>1. Len(s) \in Nat /\ Len(data) \in Nat /\ p + Len(s) <= Len(data) /\ DOMAIN data = 1..Len(data)
    BY DEF At
<1>2. p + j \in 1..Len(data) /\ (p + j - 1) + 1 = p + j
    BY <1>1
<1>3. data[p + j] = s[j]
    BY DEF At
<1> QED
    BY <1>1, <1>2, <1>3, Zenon DEF ByteAt

\* The bytes that spell a number.
LEMMA SpellingIs ==
    ASSUME NEW n \in Int, NEW k \in Nat
    PROVE  /\ Spelling(n, k) \in Seq(Byte) /\ Len(Spelling(n, k)) = k
           /\ \A j \in 1..k : Spelling(n, k)[j] = Shifted(n, k - j) % 256
<1>1. ASSUME NEW j \in 1..k PROVE Shifted(n, k - j) % 256 \in Byte
    <2>1. k - j \in Nat
        OBVIOUS
    <2>2. Shifted(n, k - j) \in Int
        BY <2>1, ShiftedIs, Zenon DEF Loses
    <2> QED
        BY <2>2, LastDigit, Zenon DEF Byte
<1> DEFINE s == [j \in 1..k |-> Shifted(n, k - j) % 256]
<1>2. s \in [1..k -> Byte]
    BY <1>1, Zenon
<1>3. s = Spelling(n, k) /\ \A j \in 1..k : s[j] = Shifted(n, k - j) % 256
    BY DEF Spelling
<1> HIDE DEF s
<1>4. s \in Seq(Byte) /\ Len(s) = k
    BY <1>2
<1> QED
    BY <1>3, <1>4, Zenon

\* They spell it, when what stands above them is what is left of it.
LEMMA DigitsSpell ==
    ASSUME NEW data \in Seq(Byte), NEW p \in Nat, NEW n \in Int, NEW k \in Nat,
           At(data, Spelling(n, k), p)
    PROVE  SpelledAfter(data, p, k, Shifted(n, k)) = n
<1> DEFINE b(j) == ByteAt(data, p + j - 1)
<1> DEFINE above == Shifted(n, k)
<1> DEFINE v == CHOOSE w : w = [j \in 0..k |-> IF j = 0 THEN above ELSE w[j - 1] * 256 + b(j)]
<1> DEFINE g == [j \in 0..k |-> Shifted(n, k - j)]
<1>1. SpelledAfter(data, p, k, Shifted(n, k)) = v[k]
    BY DEF SpelledAfter
<1>2. /\ k \in 0..k /\ 0 \in 0..k /\ k - 0 = k /\ k - k = 0
      /\ \A j \in 1..k : /\ j \in 0..k /\ j # 0 /\ j - 1 \in 0..k /\ k - j \in Nat
                         /\ k - (j - 1) = (k - j) + 1
      /\ \A j \in 0..k : j # 0 => j \in 1..k
    OBVIOUS
<1>3. g[0] = above /\ g[k] = n
    BY <1>2, ShiftedIs, Zenon DEF Loses
<1>4. ASSUME NEW j \in 1..k PROVE g[j] = g[j - 1] * 256 + b(j)
    <2>1. Spelling(n, k) \in Seq(Byte) /\ Len(Spelling(n, k)) = k /\ Spelling(n, k)[j] = Shifted(n, k - j) % 256
        BY SpellingIs, ZenonT(40)
    <2>2. b(j) = Shifted(n, k - j) % 256
        <3>1. j \in 1..Len(Spelling(n, k))
            BY <2>1, Zenon
        <3> QED
            BY <2>1, <3>1, ByteRead, Zenon
    <2>3. g[j] = Shifted(n, k - j) /\ g[j - 1] = Shifted(n, (k - j) + 1)
        BY <1>2, Zenon
    <2>4. Shifted(n, k - j) \in Int /\ Shifted(n, (k - j) + 1) = Shifted(n, k - j) \div 256
        <3>1. Loses(n, k - j)
            BY <1>2, ShiftedIs, Zenon
        <3> QED
            BY <3>1, Zenon DEF Loses
    <2> DEFINE x == Shifted(n, k - j)
    <2> HIDE DEF g, b, x
    <2>5. x \in Int /\ g[j] = x /\ g[j - 1] = x \div 256 /\ b(j) = x % 256
        BY <2>2, <2>3, <2>4, Zenon DEF x
    <2>6. (x \div 256) * 256 + (x % 256) = x
        BY <2>5, LastDigit
    <2> QED
        BY <2>5, <2>6, Zenon
<1>5. g = [j \in 0..k |-> g[j]]
    OBVIOUS
<1> HIDE DEF b, g, above
<1>6. g = [j \in 0..k |-> IF j = 0 THEN above ELSE g[j - 1] * 256 + b(j)]
    <2>1. \A j \in 0..k : g[j] = IF j = 0 THEN above ELSE g[j - 1] * 256 + b(j)
        BY <1>2, <1>3, <1>4, Zenon
    <2> QED
        BY <1>5, <2>1, Zenon
<1>7. v = [j \in 0..k |-> IF j = 0 THEN above ELSE v[j - 1] * 256 + b(j)]
    BY <1>6
<1> HIDE DEF v
<1>8. v[0] = above /\ \A j \in 1..k : v[j] = v[j - 1] * 256 + b(j)
    BY <1>2, <1>7, ZenonT(40)
<1>9. Alike(v, g, k)
    BY <1>3, <1>4, <1>8, ZenonT(40) DEF Alike
<1>10. Same(v, g, k)
    BY <1>9, SameSteps, Zenon
<1> QED
    BY <1>1, <1>2, <1>3, <1>10, Zenon DEF Same

\* A number that fits comes back.
LEMMA NumberRead ==
    ASSUME NEW data \in Seq(Byte), NEW p \in Nat, NEW n \in Int, NEW k \in Nat, k > 0,
           At(data, Spelling(n, k), p), Fits(n, k)
    PROVE  Spelled(data, p, k) = n /\ Has(data, p, k)
<1>1. k - 1 \in Nat /\ (k - 1) + 1 = k
    OBVIOUS
<1>2. Shifted(n, k) = Shifted(n, k - 1) \div 256
    <2>1. Loses(n, k - 1)
        BY <1>1, ShiftedIs, Zenon
    <2> QED
        BY <1>1, <2>1, Zenon DEF Loses
<1>3. \A q \in 0..255 : q \div 256 = 0
    OBVIOUS
<1>4. Shifted(n, k) = 0
    BY <1>2, <1>3, Zenon DEF Fits
<1>5. Spelled(data, p, k) = n
    BY <1>4, DigitsSpell, Zenon DEF Spelled
<1>6. Len(Spelling(n, k)) = k
    BY SpellingIs, Zenon
<1>7. Has(data, p, k)
    BY <1>6 DEF Has, At
<1> QED
    BY <1>5, <1>7

\* And one with a sign.
LEMMA SignedRead ==
    ASSUME NEW data \in Seq(Byte), NEW p \in Nat, NEW n \in Int, NEW k \in Nat, k > 0,
           At(data, Spelling(n, k), p), Shifted(n, k - 1) \in -128..127
    PROVE  SpelledSigned(data, p, k) = n /\ Has(data, p, k)
<1> DEFINE q == Shifted(n, k - 1)
<1>1. k - 1 \in Nat /\ (k - 1) + 1 = k /\ 1 \in 1..k /\ p + 1 - 1 = p
    OBVIOUS
<1>2. Shifted(n, k) = q \div 256
    <2>1. Loses(n, k - 1)
        BY <1>1, ShiftedIs, Zenon
    <2> QED
        BY <1>1, <2>1, Zenon DEF Loses
<1>3. Spelling(n, k) \in Seq(Byte) /\ Len(Spelling(n, k)) = k /\ Spelling(n, k)[1] = q % 256
    <2>1. Spelling(n, k) \in Seq(Byte) /\ Len(Spelling(n, k)) = k
        BY SpellingIs, Zenon
    <2>2. \A j \in 1..k : Spelling(n, k)[j] = Shifted(n, k - j) % 256
        BY SpellingIs, ZenonT(40)
    <2> QED
        BY <1>1, <2>1, <2>2, Zenon
<1>4. ByteAt(data, p) = q % 256
    <2>1. 1 \in 1..Len(Spelling(n, k))
        BY <1>1, <1>3, Zenon
    <2>2. ByteAt(data, p + 1 - 1) = Spelling(n, k)[1]
        BY <1>3, <2>1, ByteRead, ZenonT(40)
    <2> QED
        BY <1>1, <1>3, <2>2, Zenon
<1>5. q \in -128..127
    OBVIOUS
<1> HIDE DEF q
<1>6. (IF q % 256 >= 128 THEN -1 ELSE 0) = q \div 256
    BY <1>5
<1>7. (IF ByteAt(data, p) >= 128 THEN -1 ELSE 0) = Shifted(n, k)
    BY <1>2, <1>4, <1>6
<1>8. SpelledSigned(data, p, k) = n
    BY <1>7, DigitsSpell, Zenon DEF SpelledSigned
<1>9. Has(data, p, k)
    BY <1>3 DEF Has, At
<1> QED
    BY <1>8, <1>9

\* What fits is a number that its bytes hold, and less fits as well.
LEMMA FitsLess ==
    ASSUME NEW k \in Nat, k > 0, NEW n \in Nat, NEW m \in Nat, m <= n, Fits(n, k)
    PROVE  Fits(m, k)
<1> DEFINE S == {j \in Nat : 0 <= Shifted(m, j) /\ Shifted(m, j) <= Shifted(n, j)}
<1>1. n \in Int /\ m \in Int /\ 0 \in Nat
    OBVIOUS
<1>2. 0 \in S
    <2>1. Shifted(m, 0) = m /\ Shifted(n, 0) = n
        BY <1>1, ShiftedIs, Zenon DEF Loses
    <2> QED
        BY <2>1
<1>3. ASSUME NEW j \in Nat, j \in S PROVE j + 1 \in S
    <2> DEFINE x == Shifted(m, j)
    <2> DEFINE y == Shifted(n, j)
    <2>1. Loses(m, j) /\ Loses(n, j)
        BY <1>1, ShiftedIs, Zenon
    <2>2. /\ x \in Int /\ y \in Int /\ 0 <= x /\ x <= y
          /\ Shifted(m, j + 1) = x \div 256 /\ Shifted(n, j + 1) = y \div 256
        BY <1>3, <2>1, Zenon DEF Loses
    <2> HIDE DEF x, y
    <2>3. 0 <= x \div 256 /\ x \div 256 <= y \div 256
        BY <2>2
    <2> QED
        BY <2>2, <2>3
<1> HIDE DEF S
<1>4. k - 1 \in Nat /\ k - 1 \in S
    BY <1>2, <1>3, Induction
<1> DEFINE x == Shifted(m, k - 1)
<1> DEFINE y == Shifted(n, k - 1)
<1>5. x \in Int /\ 0 <= x /\ x <= y /\ y \in 0..255
    BY <1>1, <1>4, ShiftedIs, Zenon DEF S, Fits, Loses
<1> HIDE DEF x, y
<1>6. x \in 0..255
    BY <1>5
<1> QED
    BY <1>6 DEF x, Fits

\* A string is of what is not a zero, and it is read up to one.
Letter == 1..255

\* Up to its zero.
LEMMA StringRead ==
    ASSUME NEW data \in Seq(Byte), NEW s \in Seq(Letter), NEW p \in Nat, At(data, s \o << 0 >>, p)
    PROVE  StringAt(data, p) = s /\ Zeros(data, p) # {}
<1> DEFINE w == s \o << 0 >>
<1> DEFINE n == Len(s)
<1>1. n \in Nat /\ \A i \in 1..n : s[i] \in 1..255
    <2>1. n \in Nat /\ \A i \in 1..n : s[i] \in Letter
        OBVIOUS
    <2> QED
        BY <2>1 DEF Letter
<1>2. s \in Seq(Byte) /\ << 0 >> \in Seq(Byte)
    <2>1. Letter \subseteq Byte /\ 0 \in Byte
        BY DEF Byte, Letter
    <2> QED
        BY <2>1, SeqMonotonic
<1>3. w \in Seq(Byte) /\ Len(w) = n + 1 /\ w[n + 1] = 0 /\ \A i \in 1..n : w[i] = s[i]
    BY <1>2
<1>4. p + (n + 1) <= Len(data) /\ Len(data) \in Nat /\ \A i \in 1..n + 1 : data[p + i] = w[i]
    BY <1>3 DEF At
<1> HIDE DEF w, n
<1>5. data[p + n + 1] = 0
    <2>1. n + 1 \in 1..n + 1 /\ p + n + 1 = p + (n + 1)
        BY <1>1
    <2> QED
        BY <1>3, <1>4, <2>1
<1>6. \A i \in 1..n : data[p + i] = s[i]
    BY <1>1, <1>3, <1>4
<1>7. n \in Zeros(data, p)
    BY <1>1, <1>4, <1>5 DEF Zeros
<1>8. \A k \in Zeros(data, p) : n <= k
    <2> SUFFICES ASSUME NEW k \in Zeros(data, p), k < n PROVE FALSE
        BY <1>1, <1>4 DEF Zeros
    <2>1. k \in Nat /\ k + 1 \in 1..n /\ p + (k + 1) = p + k + 1
        BY <1>1, <1>4 DEF Zeros
    <2>2. data[p + k + 1] = 0
        BY DEF Zeros
    <2>3. data[p + k + 1] \in 1..255
        BY <1>1, <1>6, <2>1, ZenonT(40)
    <2> QED
        BY <2>2, <2>3
<1>9. \A k \in Zeros(data, p) : k \in Nat
    BY <1>4 DEF Zeros
<1>10. (CHOOSE k \in Zeros(data, p) : \A m \in Zeros(data, p) : k <= m) = n
    <2> DEFINE c == CHOOSE k \in Zeros(data, p) : \A m \in Zeros(data, p) : k <= m
    <2>1. c \in Zeros(data, p) /\ \A m \in Zeros(data, p) : c <= m
        BY <1>7, <1>8
    <2> HIDE DEF c
    <2>2. c = n
        BY <1>1, <1>7, <1>8, <1>9, <2>1
    <2> QED
        BY <2>2 DEF c
<1>11. StringAt(data, p) = SubSeq(data, p + 1, p + n)
    BY <1>7, <1>10 DEF StringAt, Slice
<1>12. SubSeq(data, p + 1, p + n) = s
    <2> DEFINE u == SubSeq(data, p + 1, p + n)
    <2>1. u \in Seq(Byte) /\ Len(u) = n /\ \A i \in 1..n : u[i] = data[p + i]
        BY <1>1, <1>4
    <2> HIDE DEF u
    <2>2. u = s
        BY <1>1, <1>2, <1>6, <2>1 DEF n
    <2> QED
        BY <2>2 DEF u
<1> QED
    BY <1>7, <1>11, <1>12

\* Data is read to its end.
LEMMA DataRead ==
    ASSUME NEW data \in Seq(Byte), NEW s \in Seq(Byte), NEW p \in Nat, At(data, s, p)
    PROVE  Slice(data, p, Len(s)) = s /\ Has(data, p, Len(s))
<1> DEFINE n == Len(s)
<1>1. n \in Nat /\ p + n <= Len(data) /\ Len(data) \in Nat /\ \A i \in 1..n : data[p + i] = s[i]
    BY DEF At
<1> DEFINE u == SubSeq(data, p + 1, p + n)
<1>2. u \in Seq(Byte) /\ Len(u) = n /\ \A i \in 1..n : u[i] = data[p + i]
    BY <1>1
<1>3. u = Slice(data, p, Len(s))
    BY DEF Slice
<1> HIDE DEF u
<1>4. u = s
    BY <1>1, <1>2
<1>5. Has(data, p, Len(s))
    BY <1>1 DEF Has
<1> QED
    BY <1>3, <1>4, <1>5

-----------------------------------------------------------------------------
(* What stands in what.                                                     *)

\* What stands in a part stands in the whole.
LEMMA AtWithin ==
    ASSUME NEW D, NEW w \in Seq(D), NEW s \in Seq(D), NEW x \in Seq(D), NEW p \in Nat, NEW q \in Nat,
           At(w, s, p), At(s, x, q)
    PROVE  At(w, x, p + q)
<1> DEFINE l == Len(w)
<1> DEFINE m == Len(s)
<1> DEFINE n == Len(x)
<1>1. /\ l \in Nat /\ m \in Nat /\ n \in Nat /\ p + m <= l /\ q + n <= m
      /\ \A i \in 1..m : w[p + i] = s[i]
      /\ \A i \in 1..n : s[q + i] = x[i]
    BY DEF At
<1> HIDE DEF l, m, n
<1>2. (p + q) + n <= l
    BY <1>1
<1>3. \A i \in 1..n : q + i \in 1..m /\ (p + q) + i = p + (q + i)
    BY <1>1
<1>4. \A i \in 1..n : w[(p + q) + i] = x[i]
    BY <1>1, <1>3, Zenon
<1> QED
    BY <1>2, <1>4, Zenon DEF At, l, n

\* Of two sequences put one behind the other, both stand in the whole.
LEMMA AtEnds ==
    ASSUME NEW D, NEW s \in Seq(D), NEW t \in Seq(D)
    PROVE  s \o t \in Seq(D) /\ Len(s \o t) = Len(s) + Len(t) /\ At(s \o t, s, 0) /\ At(s \o t, t, Len(s))
    BY DEF At

\* Of many as well.
LEMMA AtPart ==
    ASSUME NEW D, NEW seqs \in Seq(Seq(D)), NEW pos, NEW all \in Seq(D), Lies(all, seqs, pos)
    PROVE  /\ \A k \in 0..Len(seqs) : pos[k] \in Nat /\ pos[k] <= Len(all)
           /\ \A k \in 1..Len(seqs) : At(all, seqs[k], pos[k - 1])
<1> DEFINE N == Len(seqs)
<1>1. N \in Nat /\ \A k \in 1..N : seqs[k] \in Seq(D) /\ Len(seqs[k]) \in Nat
    OBVIOUS
<1>2. /\ pos \in [0..N -> Nat] /\ pos[N] = Len(all)
      /\ \A k \in 1..N : /\ pos[k] = pos[k - 1] + Len(seqs[k])
                         /\ \A i \in 1..Len(seqs[k]) : all[pos[k - 1] + i] = seqs[k][i]
    BY Zenon DEF Lies
<1> HIDE DEF N
<1> DEFINE S == {d \in Nat : \A k \in 0..N : k + d = N => pos[k] <= pos[N]}
<1>3. 0 \in S
    BY <1>1, <1>2
<1>4. ASSUME NEW d \in Nat, d \in S PROVE d + 1 \in S
    <2> SUFFICES ASSUME NEW k \in 0..N, k + (d + 1) = N PROVE pos[k] <= pos[N]
        OBVIOUS
    <2>1. k + 1 \in 1..N /\ k + 1 \in 0..N /\ (k + 1) + d = N /\ (k + 1) - 1 = k /\ N \in 0..N
        BY <1>1
    <2>2. pos[k + 1] <= pos[N] /\ pos[k + 1] = pos[k] + Len(seqs[k + 1]) /\ Len(seqs[k + 1]) \in Nat
        BY <1>1, <1>2, <1>4, <2>1, Zenon
    <2>3. pos[k] \in Nat /\ pos[k + 1] \in Nat /\ pos[N] \in Nat
        BY <1>2, <2>1
    <2> QED
        BY <2>2, <2>3
<1> HIDE DEF S
<1>5. Nat \subseteq S
    BY <1>3, <1>4, Induction
<1>6. \A k \in 0..N : pos[k] \in Nat /\ pos[k] <= Len(all)
    <2> TAKE k \in 0..N
    <2>1. N - k \in S /\ k + (N - k) = N
        BY <1>1, <1>5
    <2>2. pos[k] <= pos[N]
        BY <2>1 DEF S
    <2> QED
        BY <1>2, <2>2
<1>7. \A k \in 1..N : At(all, seqs[k], pos[k - 1])
    <2> TAKE k \in 1..N
    <2>1. k \in 0..N
        BY <1>1
    <2>2. pos[k - 1] + Len(seqs[k]) <= Len(all)
        BY <1>2, <1>6, <2>1, Zenon
    <2> QED
        BY <1>2, <2>2, Zenon DEF At
<1> QED
    BY <1>6, <1>7 DEF N

\* And each stands where Place says.
LEMMA PlaceIs ==
    ASSUME NEW D, NEW seqs \in Seq(Seq(D)), NEW pos, NEW all, Lies(all, seqs, pos), NEW k \in 1..Len(seqs)
    PROVE  Place(seqs, k) = pos[k - 1]
<1> DEFINE m == k - 1
<1> DEFINE part == SubSeq(seqs, 1, m)
<1>1. /\ m \in Nat /\ part \in Seq(Seq(D)) /\ Len(part) = m /\ \A i \in 1..m : part[i] = seqs[i]
      /\ \A i \in 1..m : i \in 1..Len(seqs)
    OBVIOUS
<1> HIDE DEF part
<1>2. PICK q : Lies(FlattenSeq(part), part, q)
    BY <1>1, Laid, Zenon
<1>3. q[0] = 0 /\ q[m] = Len(FlattenSeq(part)) /\ \A i \in 1..m : q[i] = q[i - 1] + Len(seqs[i])
    BY <1>1, <1>2, Zenon DEF Lies
<1>4. pos[0] = 0 /\ \A i \in 1..m : pos[i] = pos[i - 1] + Len(seqs[i])
    BY <1>1, Zenon DEF Lies
<1>5. Alike(q, pos, m)
    BY <1>3, <1>4, Zenon DEF Alike
<1>6. m \in 0..m
    BY <1>1
<1>7. q[m] = pos[m]
    BY <1>1, <1>5, <1>6, SameSteps, ZenonT(40) DEF Same
<1> QED
    BY <1>3, <1>7, Zenon DEF Place, part

-----------------------------------------------------------------------------
(* The parts of a table.                                                    *)

Types == 0..6 \cup {8, 10, 11}

\* What a column of a table may be.
IsColumn(t, c) ==
    /\ c.flag \in {16, 48, 80, 112} /\ c.typ \in Types /\ c.name \in 1..Len(t.strings)
    /\ c.vals \in Seq(Int) /\ Len(c.vals) >= 1 /\ Len(c.vals) >= t.rows
    /\ \A r \in 1..Len(c.vals) : c.vals[r] \in Int /\ Held(t, c.typ, c.vals[r])

\* What is in a table.
LEMMA TableType ==
    ASSUME NEW t \in Tables
    PROVE  /\ t.rows \in Nat /\ t.title \in 1..Len(t.strings)
           /\ t.strings \in Seq(Seq(Letter)) /\ t.blobs \in Seq(Seq(Byte))
           /\ t.cols \in Seq(TableColumns) /\ Len(t.cols) >= 1
           /\ \A i \in 1..Len(t.cols) : IsColumn(t, t.cols[i])
<1>1. /\ t.rows \in Nat /\ t.title \in DOMAIN t.strings
      /\ t.strings \in Seq(Seq(Letter)) /\ t.blobs \in Seq(Seq(Byte))
      /\ t.cols \in Seq(TableColumns) /\ t.cols # << >>
      /\ \A i \in DOMAIN t.cols :
              /\ t.cols[i].name \in DOMAIN t.strings
              /\ t.cols[i].vals # << >> /\ t.rows <= Len(t.cols[i].vals)
              /\ \A r \in DOMAIN t.cols[i].vals : Held(t, t.cols[i].typ, t.cols[i].vals[r])
    <2>1. t \in [cols : Seq(TableColumns), rows : Nat, title : Nat,
                 strings : Seq(Seq(Letter)), blobs : Seq(Seq(Byte))]
        BY Zenon DEF Tables, Letter, Byte
    <2>2. /\ t.cols # << >> /\ t.title \in DOMAIN t.strings
          /\ \A i \in DOMAIN t.cols :
              /\ t.cols[i].name \in DOMAIN t.strings
              /\ t.cols[i].vals # << >> /\ t.rows <= Len(t.cols[i].vals)
              /\ \A r \in DOMAIN t.cols[i].vals : Held(t, t.cols[i].typ, t.cols[i].vals[r])
        <3>1. TableFits(t)
            BY Zenon DEF Tables
        <3>2. t.cols # << >> /\ t.title \in DOMAIN t.strings
            BY <3>1 DEF TableFits
        <3>3. ASSUME NEW i \in DOMAIN t.cols
              PROVE  /\ t.cols[i].name \in DOMAIN t.strings
                     /\ t.cols[i].vals # << >> /\ t.rows <= Len(t.cols[i].vals)
                     /\ \A r \in DOMAIN t.cols[i].vals : Held(t, t.cols[i].typ, t.cols[i].vals[r])
            BY <3>1 DEF TableFits
        <3> QED
            BY <3>2, <3>3, Zenon
    <2>3. /\ t.rows \in Nat /\ t.strings \in Seq(Seq(Letter)) /\ t.blobs \in Seq(Seq(Byte))
          /\ t.cols \in Seq(TableColumns)
        BY <2>1, Zenon
    <2> QED
        BY <2>2, <2>3, Zenon
<1>2. /\ DOMAIN t.strings = 1..Len(t.strings) /\ DOMAIN t.cols = 1..Len(t.cols)
      /\ \A i \in 1..Len(t.cols) : t.cols[i] \in TableColumns
      /\ Len(t.cols) >= 1
    BY <1>1
<1>3. ASSUME NEW i \in 1..Len(t.cols) PROVE IsColumn(t, t.cols[i])
    <2> DEFINE c == t.cols[i]
    <2>1. /\ c \in TableColumns /\ c.name \in 1..Len(t.strings) /\ c.vals # << >> /\ t.rows <= Len(c.vals)
          /\ \A r \in DOMAIN c.vals : Held(t, c.typ, c.vals[r])
        BY <1>1, <1>2, Zenon
    <2> HIDE DEF c
    <2>2. c.flag \in {16, 48, 80, 112} /\ c.typ \in Types /\ c.vals \in Seq(Int)
        BY <2>1, Zenon DEF TableColumns, Types
    <2> DEFINE v == c.vals
    <2>3. v \in Seq(Int) /\ v # << >> /\ t.rows <= Len(v)
        BY <2>1, <2>2
    <2> HIDE DEF v
    <2>4. DOMAIN v = 1..Len(v) /\ Len(v) >= 1 /\ Len(v) >= t.rows /\ \A r \in 1..Len(v) : v[r] \in Int
        BY <1>1, <2>3
    <2> QED
        BY <2>1, <2>2, <2>4, ZenonT(40) DEF IsColumn, v, c
<1> QED
    BY <1>1, <1>2, <1>3

\* Parts stand where Place says in what they make up.
Placed(seqs, all) ==
    \A k \in 1..Len(seqs) : /\ Place(seqs, k) \in Nat /\ Place(seqs, k) <= Len(all)
                            /\ At(all, seqs[k], Place(seqs, k))

\* So they do for any parts.
LEMMA PartsPlaced ==
    ASSUME NEW seqs \in Seq(Seq(Byte))
    PROVE  FlattenSeq(seqs) \in Seq(Byte) /\ Placed(seqs, FlattenSeq(seqs))
<1> DEFINE all == FlattenSeq(seqs)
<1>1. all \in Seq(Byte) /\ \E pos : Lies(all, seqs, pos)
    BY Laid, Zenon
<1> HIDE DEF all
<1>2. PICK pos : Lies(all, seqs, pos)
    BY <1>1
<1>3. /\ \A k \in 0..Len(seqs) : pos[k] \in Nat /\ pos[k] <= Len(all)
      /\ \A k \in 1..Len(seqs) : At(all, seqs[k], pos[k - 1])
    BY <1>1, <1>2, AtPart, Zenon
<1>4. \A k \in 1..Len(seqs) : Place(seqs, k) = pos[k - 1] /\ k - 1 \in 0..Len(seqs)
    <2> TAKE k \in 1..Len(seqs)
    <2>1. Place(seqs, k) = pos[k - 1]
        BY <1>2, PlaceIs, Zenon
    <2> QED
        BY <2>1
<1>5. Placed(seqs, all)
    BY <1>3, <1>4, Zenon DEF Placed
<1> QED
    BY <1>1, <1>5 DEF all

\* The strings and the data of a table.
StringsOf(t) == FlattenSeq(Terminated(t))
BlobsOf(t)   == FlattenSeq(t.blobs)

\* Each string stands in them with its zero.
LEMMA StringsPlaced ==
    ASSUME NEW t \in Tables
    PROVE  /\ StringsOf(t) \in Seq(Byte)
           /\ \A k \in 1..Len(t.strings) :
                 /\ t.strings[k] \in Seq(Letter) /\ t.strings[k] \o << 0 >> \in Seq(Byte)
                 /\ Place(Terminated(t), k) \in Nat /\ Place(Terminated(t), k) <= Len(StringsOf(t))
                 /\ At(StringsOf(t), t.strings[k] \o << 0 >>, Place(Terminated(t), k))
<1> DEFINE N == Len(t.strings)
<1> DEFINE z == Terminated(t)
<1>1. t.strings \in Seq(Seq(Letter))
    BY TableType
<1>2. N \in Nat /\ DOMAIN t.strings = 1..N /\ \A k \in 1..N : t.strings[k] \in Seq(Letter)
    BY <1>1
<1>3. \A s \in Seq(Letter) : s \o << 0 >> \in Seq(Byte)
    <2>1. Letter \subseteq Byte /\ 0 \in Byte
        BY DEF Byte, Letter
    <2>2. \A s \in Seq(Letter) : s \in Seq(Byte)
        BY <2>1, SeqMonotonic
    <2>3. << 0 >> \in Seq(Byte)
        BY <2>1
    <2>4. \A s, u \in Seq(Byte) : s \o u \in Seq(Byte)
        OBVIOUS
    <2> QED
        BY <2>2, <2>3, <2>4, Zenon
<1>4. z = [k \in 1..N |-> t.strings[k] \o << 0 >>]
    BY <1>2 DEF Terminated
<1> HIDE DEF z
<1>5. \A k \in 1..N : z[k] = t.strings[k] \o << 0 >> /\ z[k] \in Seq(Byte)
    BY <1>2, <1>3, <1>4
<1> HIDE DEF N
<1>6. z \in [1..N -> Seq(Byte)]
    <2>1. z = [k \in 1..N |-> z[k]]
        BY <1>4
    <2> QED
        BY <1>5, <2>1, Zenon
<1>7. z \in Seq(Seq(Byte)) /\ Len(z) = N
    BY <1>2, <1>6
<1>8. FlattenSeq(z) \in Seq(Byte) /\ Placed(z, FlattenSeq(z))
    BY <1>7, PartsPlaced, Zenon
<1>9. StringsOf(t) = FlattenSeq(z)
    BY DEF StringsOf, z
<1>10. \A k \in 1..N : /\ Place(z, k) \in Nat /\ Place(z, k) <= Len(StringsOf(t))
                       /\ At(StringsOf(t), t.strings[k] \o << 0 >>, Place(z, k))
    BY <1>5, <1>7, <1>8, <1>9, Zenon DEF Placed
<1> QED
    BY <1>2, <1>3, <1>8, <1>9, <1>10, Zenon DEF N, z

\* And each piece of data.
LEMMA BlobsPlaced ==
    ASSUME NEW t \in Tables
    PROVE  /\ BlobsOf(t) \in Seq(Byte)
           /\ \A k \in 1..Len(t.blobs) :
                 /\ t.blobs[k] \in Seq(Byte) /\ Len(t.blobs[k]) \in Nat
                 /\ Place(t.blobs, k) \in Nat /\ Place(t.blobs, k) <= Len(BlobsOf(t))
                 /\ At(BlobsOf(t), t.blobs[k], Place(t.blobs, k))
<1>1. t.blobs \in Seq(Seq(Byte))
    BY TableType
<1>2. FlattenSeq(t.blobs) \in Seq(Byte) /\ Placed(t.blobs, FlattenSeq(t.blobs))
    BY <1>1, PartsPlaced, Zenon
<1>3. \A k \in 1..Len(t.blobs) : t.blobs[k] \in Seq(Byte) /\ Len(t.blobs[k]) \in Nat
    BY <1>1
<1> QED
    BY <1>2, <1>3, Zenon DEF BlobsOf, Placed

\* A value takes the room that its type does.
LEMMA EncodedIs ==
    ASSUME NEW t \in Tables, NEW typ \in Types, NEW v \in Int, Held(t, typ, v)
    PROVE  /\ Encoded(t, typ, v) \in Seq(Byte) /\ Len(Encoded(t, typ, v)) = columnValueSize(typ)
           /\ columnValueSize(typ) \in Nat /\ columnValueSize(typ) > 0
<1>1. columnValueSize(typ) \in Nat /\ columnValueSize(typ) > 0
    BY DEF columnValueSize, Types
<1>2. CASE typ = 10
    <2>1. v \in 1..Len(t.strings)
        <3>1. v \in DOMAIN t.strings /\ t.strings \in Seq(Seq(Letter))
            BY <1>2, TableType DEF Held
        <3> QED
            BY <3>1
    <2>2. Place(Terminated(t), v) \in Int
        <3>1. Place(Terminated(t), v) \in Nat
            BY <2>1, StringsPlaced, Zenon
        <3> QED
            BY <3>1
    <2>3. Encoded(t, typ, v) = Spelling(Place(Terminated(t), v), 4) /\ columnValueSize(typ) = 4 /\ 4 \in Nat
        BY <1>2 DEF Encoded, columnValueSize
    <2>4. Spelling(Place(Terminated(t), v), 4) \in Seq(Byte) /\ Len(Spelling(Place(Terminated(t), v), 4)) = 4
        BY <2>2, <2>3, SpellingIs, ZenonT(40)
    <2> QED
        BY <1>1, <2>3, <2>4
<1>3. CASE typ = 11
    <2>1. v \in 1..Len(t.blobs)
        <3>1. v \in DOMAIN t.blobs /\ t.blobs \in Seq(Seq(Byte))
            BY <1>3, TableType DEF Held
        <3> QED
            BY <3>1
    <2>2. Place(t.blobs, v) \in Nat /\ Len(t.blobs[v]) \in Nat
        BY <2>1, BlobsPlaced, Zenon
    <2> DEFINE a == Spelling(Place(t.blobs, v), 4)
    <2> DEFINE b == Spelling(Len(t.blobs[v]), 4)
    <2>3. Encoded(t, typ, v) = a \o b /\ columnValueSize(typ) = 8 /\ 4 \in Nat
        BY <1>3 DEF Encoded, columnValueSize
    <2>4. \A n \in Nat : n \in Int
        OBVIOUS
    <2>5. a \in Seq(Byte) /\ Len(a) = 4 /\ b \in Seq(Byte) /\ Len(b) = 4
        BY <2>2, <2>3, <2>4, SpellingIs, ZenonT(40)
    <2> HIDE DEF a, b
    <2>6. a \o b \in Seq(Byte) /\ Len(a \o b) = 8
        <3>1. a \o b \in Seq(Byte) /\ Len(a \o b) = Len(a) + Len(b)
            BY <2>5, AtEnds, Zenon
        <3>2. 4 + 4 = 8
            OBVIOUS
        <3> QED
            BY <2>5, <3>1, <3>2, Zenon
    <2> QED
        BY <1>1, <2>3, <2>6
<1>4. CASE typ # 10 /\ typ # 11
    <2>1. Encoded(t, typ, v) = Spelling(v, columnValueSize(typ))
        BY <1>4 DEF Encoded
    <2> QED
        BY <1>1, <2>1, SpellingIs, Zenon
<1> QED
    BY <1>2, <1>3, <1>4

\* Three sequences one behind the other.
LEMMA ThreeStand ==
    ASSUME NEW a \in Seq(Byte), NEW b \in Seq(Byte), NEW c \in Seq(Byte), Len(a) = 1, Len(b) = 4
    PROVE  /\ a \o b \o c \in Seq(Byte) /\ Len(a \o b \o c) = 5 + Len(c)
           /\ At(a \o b \o c, a, 0) /\ At(a \o b \o c, b, 1) /\ At(a \o b \o c, c, 5)
<1> DEFINE s == a \o b
<1>1. s \in Seq(Byte) /\ Len(s) = 5 /\ At(s, a, 0) /\ At(s, b, 1)
    <2>1. s \in Seq(Byte) /\ Len(s) = Len(a) + Len(b) /\ At(s, a, 0) /\ At(s, b, Len(a))
        BY AtEnds, Zenon
    <2>2. 1 + 4 = 5
        OBVIOUS
    <2> QED
        BY <2>1, <2>2, Zenon
<1> HIDE DEF s
<1>2. s \o c \in Seq(Byte) /\ Len(s \o c) = 5 + Len(c) /\ At(s \o c, s, 0) /\ At(s \o c, c, 5)
    BY <1>1, AtEnds
<1>3. 0 \in Nat /\ 1 \in Nat /\ 0 + 0 = 0 /\ 0 + 1 = 1
    OBVIOUS
<1> DEFINE w == s \o c
<1> HIDE DEF w
<1>4. w \in Seq(Byte) /\ At(w, s, 0)
    BY <1>2 DEF w
<1>5. At(w, a, 0 + 0) /\ At(w, b, 0 + 1)
    BY <1>1, <1>3, <1>4, AtWithin, Zenon
<1> QED
    BY <1>2, <1>3, <1>5 DEF w, s

\* What a column takes of the schema, and of a row.
Default(c)    == c.flag \in {48, 112}
SchemaRoom(c) == 5 + (IF Default(c) THEN columnValueSize(c.typ) ELSE 0)
RowRoom(c)    == IF c.flag = 80 THEN columnValueSize(c.typ) ELSE 0

\* A column in the schema: what it is, its name, and its value if it has one for all rows.
LEMMA SchemaIs ==
    ASSUME NEW t \in Tables, NEW c, IsColumn(t, c)
    PROVE  /\ SchemaOf(t, c) \in Seq(Byte) /\ Len(SchemaOf(t, c)) = SchemaRoom(c)
           /\ SchemaRoom(c) \in Nat /\ SchemaRoom(c) >= 5
           /\ At(SchemaOf(t, c), <<c.flag + c.typ>>, 0) /\ <<c.flag + c.typ>> \in Seq(Byte)
           /\ At(SchemaOf(t, c), Spelling(Place(Terminated(t), c.name), 4), 1)
           /\ Spelling(Place(Terminated(t), c.name), 4) \in Seq(Byte)
           /\ Default(c) => At(SchemaOf(t, c), Encoded(t, c.typ, c.vals[1]), 5)
<1> DEFINE a == <<c.flag + c.typ>>
<1> DEFINE b == Spelling(Place(Terminated(t), c.name), 4)
<1> DEFINE d == IF Default(c) THEN Encoded(t, c.typ, c.vals[1]) ELSE << >>
<1>1. a \in Seq(Byte) /\ Len(a) = 1
    <2>1. c.flag \in {16, 48, 80, 112} /\ c.typ \in Types
        BY Zenon DEF IsColumn
    <2>2. c.flag + c.typ \in 0..255
        BY <2>1 DEF Types
    <2> QED
        BY <2>2 DEF Byte
<1>2. b \in Seq(Byte) /\ Len(b) = 4
    <2>1. Place(Terminated(t), c.name) \in Nat
        BY StringsPlaced, ZenonT(40) DEF IsColumn
    <2>2. 4 \in Nat /\ \A n \in Nat : n \in Int
        OBVIOUS
    <2> QED
        BY <2>1, <2>2, SpellingIs, ZenonT(40)
<1>3. /\ d \in Seq(Byte) /\ Len(d) = IF Default(c) THEN columnValueSize(c.typ) ELSE 0
      /\ columnValueSize(c.typ) \in Nat
    <2>1. 1 \in 1..Len(c.vals) /\ c.typ \in Types
        BY DEF IsColumn
    <2>2. c.vals[1] \in Int /\ Held(t, c.typ, c.vals[1])
        BY <2>1, Zenon DEF IsColumn
    <2>3. /\ Encoded(t, c.typ, c.vals[1]) \in Seq(Byte) /\ columnValueSize(c.typ) \in Nat
          /\ Len(Encoded(t, c.typ, c.vals[1])) = columnValueSize(c.typ)
        BY <2>1, <2>2, EncodedIs, Zenon
    <2>4. << >> \in Seq(Byte) /\ Len(<< >>) = 0
        OBVIOUS
    <2>5. CASE Default(c)
        <3>1. d = Encoded(t, c.typ, c.vals[1])
            BY <2>5, Zenon
        <3> HIDE DEF d
        <3> QED
            BY <2>3, <2>5, <3>1, Zenon
    <2>6. CASE ~Default(c)
        <3>1. d = << >> /\ (IF Default(c) THEN columnValueSize(c.typ) ELSE 0) = 0
            BY <2>6, Zenon
        <3> HIDE DEF d
        <3>2. Len(d) = 0
            BY <2>4, <3>1, Zenon
        <3> QED
            BY <2>3, <2>4, <3>1, <3>2, Zenon
    <2> QED
        BY <2>5, <2>6
<1>4. SchemaOf(t, c) = a \o b \o d
    BY DEF SchemaOf, Default
<1>5. Default(c) => d = Encoded(t, c.typ, c.vals[1])
    OBVIOUS
<1> HIDE DEF a, b, d
<1> DEFINE w == a \o b \o d
<1>6. w \in Seq(Byte) /\ Len(w) = 5 + Len(d) /\ At(w, a, 0) /\ At(w, b, 1) /\ At(w, d, 5)
    BY <1>1, <1>2, <1>3, ThreeStand, Zenon
<1> HIDE DEF w
<1>7. Len(w) = SchemaRoom(c) /\ SchemaRoom(c) \in Nat /\ SchemaRoom(c) >= 5
    <2> DEFINE k == IF Default(c) THEN columnValueSize(c.typ) ELSE 0
    <2>1. k \in Nat /\ Len(d) = k
        BY <1>3
    <2>2. SchemaRoom(c) = 5 + k
        BY DEF SchemaRoom
    <2> HIDE DEF k
    <2> QED
        BY <1>6, <2>1, <2>2
<1> QED
    BY <1>1, <1>2, <1>4, <1>5, <1>6, <1>7, Zenon DEF w, a, b

\* A column in a row: its value there, if it has one.
LEMMA FieldIs ==
    ASSUME NEW t \in Tables, NEW c, IsColumn(t, c), NEW r \in Nat, r = 1 \/ r \in 1..t.rows
    PROVE  /\ FieldOf(t, c, r) \in Seq(Byte) /\ Len(FieldOf(t, c, r)) = RowRoom(c) /\ RowRoom(c) \in Nat
           /\ c.flag = 80 => FieldOf(t, c, r) = Encoded(t, c.typ, c.vals[r])
<1>1. r \in 1..Len(c.vals) /\ c.typ \in Types
    <2>1. Len(c.vals) \in Nat /\ Len(c.vals) >= 1 /\ Len(c.vals) >= t.rows /\ t.rows \in Nat
        BY TableType DEF IsColumn
    <2> QED
        BY <2>1 DEF IsColumn
<1>2. c.vals[r] \in Int /\ Held(t, c.typ, c.vals[r])
    BY <1>1, Zenon DEF IsColumn
<1>3. /\ Encoded(t, c.typ, c.vals[r]) \in Seq(Byte) /\ columnValueSize(c.typ) \in Nat
      /\ Len(Encoded(t, c.typ, c.vals[r])) = columnValueSize(c.typ)
    BY <1>1, <1>2, EncodedIs, Zenon
<1>4. << >> \in Seq(Byte) /\ Len(<< >>) = 0 /\ 0 \in Nat
    OBVIOUS
<1>5. CASE c.flag = 80
    <2>1. FieldOf(t, c, r) = Encoded(t, c.typ, c.vals[r]) /\ RowRoom(c) = columnValueSize(c.typ)
        BY <1>5, Zenon DEF FieldOf, RowRoom
    <2> QED
        BY <1>3, <2>1, Zenon
<1>6. CASE c.flag # 80
    <2>1. FieldOf(t, c, r) = << >> /\ RowRoom(c) = 0
        BY <1>6, Zenon DEF FieldOf, RowRoom
    <2> QED
        BY <1>4, <1>6, <2>1, Zenon
<1> QED
    BY <1>5, <1>6

-----------------------------------------------------------------------------
(* The bytes of a table.                                                    *)

\* Where the values of the columns stand: each takes its room.
Sums(N, room, q) == q \in [0..N -> Nat] /\ q[0] = 0 /\ \A i \in 1..N : q[i] = q[i - 1] + room[i]

\* Parts of those rooms, in what they make up.
RoomsLie(N, room, parts, q) ==
    /\ FlattenSeq(parts) \in Seq(Byte) /\ Sums(N, room, q) /\ q[N] = Len(FlattenSeq(parts))
    /\ \A i \in 1..N : parts[i] \in Seq(Byte) /\ At(FlattenSeq(parts), parts[i], q[i - 1])

\* They lie so.
LEMMA RoomsLaid ==
    ASSUME NEW N \in Nat, NEW room, NEW parts, parts = [i \in 1..N |-> parts[i]],
           \A i \in 1..N : parts[i] \in Seq(Byte) /\ Len(parts[i]) = room[i]
    PROVE  \E q : RoomsLie(N, room, parts, q)
<1>1. parts \in [1..N -> Seq(Byte)]
    BY Zenon
<1>2. parts \in Seq(Seq(Byte)) /\ Len(parts) = N
    BY <1>1
<1> DEFINE all == FlattenSeq(parts)
<1>3. all \in Seq(Byte) /\ \E pos : Lies(all, parts, pos)
    BY <1>2, Laid, Zenon
<1> HIDE DEF all
<1>4. PICK pos : Lies(all, parts, pos)
    BY <1>3
<1>5. /\ pos \in [0..N -> Nat] /\ pos[0] = 0 /\ pos[N] = Len(all)
      /\ \A i \in 1..N : pos[i] = pos[i - 1] + room[i]
    BY <1>2, <1>4, Zenon DEF Lies
<1>6. \A i \in 1..N : At(all, parts[i], pos[i - 1])
    BY <1>2, <1>3, <1>4, AtPart, Zenon
<1>7. Sums(N, room, pos)
    BY <1>5, Zenon DEF Sums
<1> QED
    BY <1>3, <1>5, <1>6, <1>7, Zenon DEF RoomsLie, all

\* Sums of the same are the same.
LEMMA SameSums ==
    ASSUME NEW N \in Nat, NEW room, NEW p, NEW q, Sums(N, room, p), Sums(N, room, q)
    PROVE  p = q
<1>1. /\ p \in [0..N -> Nat] /\ q \in [0..N -> Nat] /\ p[0] = 0 /\ q[0] = 0
      /\ \A i \in 1..N : p[i] = p[i - 1] + room[i]
      /\ \A i \in 1..N : q[i] = q[i - 1] + room[i]
    BY Zenon DEF Sums
<1>2. Alike(p, q, N)
    BY <1>1, Zenon DEF Alike
<1>3. Same(p, q, N)
    BY <1>2, SameSteps, Zenon
<1>4. \A i \in 0..N : p[i] = q[i]
    BY <1>3, Zenon DEF Same
<1> QED
    BY <1>1, <1>4

\* The rooms of the columns of a table.
SchemaRooms(t) == [i \in 1..Len(t.cols) |-> SchemaRoom(t.cols[i])]
RowRooms(t)    == [i \in 1..Len(t.cols) |-> RowRoom(t.cols[i])]

SchemaLies(t, s) ==
    /\ Schema(t) \in Seq(Byte) /\ Sums(Len(t.cols), SchemaRooms(t), s) /\ s[Len(t.cols)] = Len(Schema(t))
    /\ \A i \in 1..Len(t.cols) :
          SchemaOf(t, t.cols[i]) \in Seq(Byte) /\ At(Schema(t), SchemaOf(t, t.cols[i]), s[i - 1])

\* The columns in the schema.
LEMMA SchemaLaid == ASSUME NEW t \in Tables PROVE \E s : SchemaLies(t, s)
<1> DEFINE N == Len(t.cols)
<1> DEFINE parts == [i \in 1..N |-> SchemaOf(t, t.cols[i])]
<1> DEFINE room == SchemaRooms(t)
<1>1. t.cols \in Seq(TableColumns) /\ \A i \in 1..N : IsColumn(t, t.cols[i])
    BY TableType
<1>2. N \in Nat /\ DOMAIN t.cols = 1..N
    BY <1>1
<1>3. Schema(t) = FlattenSeq(parts)
    BY <1>2, Zenon DEF Schema
<1>4. \A i \in 1..N : parts[i] = SchemaOf(t, t.cols[i]) /\ room[i] = SchemaRoom(t.cols[i])
    BY DEF SchemaRooms
<1>5. parts = [i \in 1..N |-> parts[i]]
    OBVIOUS
<1> HIDE DEF parts, room, N
<1>6. \A i \in 1..N : parts[i] \in Seq(Byte) /\ Len(parts[i]) = room[i]
    BY <1>1, <1>4, SchemaIs, Zenon
<1>7. PICK s : RoomsLie(N, room, parts, s)
    BY <1>2, <1>5, <1>6, RoomsLaid, Zenon
<1>8. SchemaLies(t, s)
    BY <1>3, <1>4, <1>7, Zenon DEF RoomsLie, SchemaLies, N, room
<1> QED
    BY <1>8

RowLies(t, r, q) ==
    /\ Row(t, r) \in Seq(Byte) /\ Len(Row(t, r)) = q[Len(t.cols)]
    /\ \A i \in 1..Len(t.cols) :
          FieldOf(t, t.cols[i], r) \in Seq(Byte) /\ At(Row(t, r), FieldOf(t, t.cols[i], r), q[i - 1])

\* And in every row, at the same places.
LEMMA RowsLaid ==
    ASSUME NEW t \in Tables
    PROVE  \E q : /\ Sums(Len(t.cols), RowRooms(t), q)
                  /\ \A r \in Nat : r = 1 \/ r \in 1..t.rows => RowLies(t, r, q)
<1> DEFINE N == Len(t.cols)
<1> DEFINE room == RowRooms(t)
<1>1. t.cols \in Seq(TableColumns) /\ \A i \in 1..N : IsColumn(t, t.cols[i])
    BY TableType
<1>2. N \in Nat /\ DOMAIN t.cols = 1..N
    BY <1>1
<1>3. \A i \in 1..N : room[i] = RowRoom(t.cols[i])
    BY DEF RowRooms
<1> HIDE DEF room, N
<1>4. ASSUME NEW r \in Nat, r = 1 \/ r \in 1..t.rows
      PROVE  \E q : Sums(N, room, q) /\ RowLies(t, r, q)
    <2> DEFINE parts == [i \in 1..N |-> FieldOf(t, t.cols[i], r)]
    <2>1. Row(t, r) = FlattenSeq(parts)
        BY <1>2, Zenon DEF Row
    <2>2. parts = [i \in 1..N |-> parts[i]] /\ \A i \in 1..N : parts[i] = FieldOf(t, t.cols[i], r)
        OBVIOUS
    <2> HIDE DEF parts
    <2>3. \A i \in 1..N : parts[i] \in Seq(Byte) /\ Len(parts[i]) = room[i]
        <3> TAKE i \in 1..N
        <3>1. IsColumn(t, t.cols[i])
            BY <1>1, Zenon
        <3>2. FieldOf(t, t.cols[i], r) \in Seq(Byte) /\ Len(FieldOf(t, t.cols[i], r)) = RowRoom(t.cols[i])
            BY <1>4, <3>1, FieldIs, Zenon
        <3> QED
            BY <1>3, <2>2, <3>2, Zenon
    <2>4. PICK q : RoomsLie(N, room, parts, q)
        BY <1>2, <2>2, <2>3, RoomsLaid, Zenon
    <2>5. Sums(N, room, q) /\ RowLies(t, r, q)
        BY <2>1, <2>2, <2>4, Zenon DEF RoomsLie, RowLies, N
    <2> QED
        BY <2>5
<1>5. 1 \in Nat
    OBVIOUS
<1>6. PICK q : Sums(N, room, q) /\ RowLies(t, 1, q)
    BY <1>4, <1>5, Zenon
<1>7. ASSUME NEW r \in Nat, r = 1 \/ r \in 1..t.rows PROVE RowLies(t, r, q)
    <2>1. PICK p : Sums(N, room, p) /\ RowLies(t, r, p)
        BY <1>4, <1>7, Zenon
    <2>2. p = q
        BY <1>2, <1>6, <2>1, SameSums, Zenon
    <2> QED
        BY <2>1, <2>2, Zenon
<1> QED
    BY <1>6, <1>7, Zenon DEF N, room

\* The rows, which are of one length.
RowsOf(t) == FlattenSeq([r \in 1..t.rows |-> Row(t, r)])

\* Each stands behind those before it.
LEMMA RowsStand ==
    ASSUME NEW t \in Tables
    PROVE  /\ RowsOf(t) \in Seq(Byte) /\ Len(Row(t, 1)) \in Nat
           /\ \A r \in 1..t.rows : /\ Row(t, r) \in Seq(Byte) /\ (r - 1) * Len(Row(t, 1)) \in Nat
                                   /\ At(RowsOf(t), Row(t, r), (r - 1) * Len(Row(t, 1)))
<1> DEFINE N == t.rows
<1> DEFINE parts == [r \in 1..N |-> Row(t, r)]
<1> DEFINE l == Len(Row(t, 1))
<1> DEFINE room == [r \in 1..N |-> l]
<1>1. PICK q : /\ Sums(Len(t.cols), RowRooms(t), q)
               /\ \A r \in Nat : r = 1 \/ r \in 1..t.rows => RowLies(t, r, q)
    BY RowsLaid, Zenon
<1>2. N \in Nat
    BY TableType
<1>3. \A r \in Nat : r = 1 \/ r \in 1..N => Row(t, r) \in Seq(Byte) /\ Len(Row(t, r)) = q[Len(t.cols)]
    BY <1>1, Zenon DEF RowLies
<1>4. 1 \in Nat /\ \A r \in 1..N : r \in Nat
    OBVIOUS
<1>5. l \in Nat
    <2>1. Row(t, 1) \in Seq(Byte)
        BY <1>3, <1>4, Zenon
    <2> QED
        BY <2>1
<1>6. \A r \in 1..N : parts[r] = Row(t, r) /\ Row(t, r) \in Seq(Byte) /\ Len(Row(t, r)) = l
    BY <1>3, <1>4, Zenon
<1>7. parts = [r \in 1..N |-> parts[r]] /\ RowsOf(t) = FlattenSeq(parts) /\ \A r \in 1..N : room[r] = l
    BY DEF RowsOf
<1> HIDE DEF parts, room, l, N
<1>8. \A r \in 1..N : parts[r] \in Seq(Byte) /\ Len(parts[r]) = room[r]
    BY <1>6, <1>7, Zenon
<1>9. PICK p : RoomsLie(N, room, parts, p)
    BY <1>2, <1>7, <1>8, RoomsLaid, Zenon
<1>10. p[0] = 0 /\ \A r \in 1..N : p[r] = p[r - 1] + l
    BY <1>7, <1>9, Zenon DEF RoomsLie, Sums
<1> DEFINE S == {r \in Nat : r <= N => p[r] = r * l}
<1>11. Nat \subseteq S
    <2>1. 0 \in S
        BY <1>5, <1>10
    <2>2. ASSUME NEW r \in Nat, r \in S PROVE r + 1 \in S
        <3> SUFFICES ASSUME r + 1 <= N PROVE p[r + 1] = (r + 1) * l
            OBVIOUS
        <3>1. r + 1 \in 1..N /\ (r + 1) - 1 = r /\ p[r] = r * l
            BY <1>2, <2>2
        <3>2. p[r + 1] = r * l + l
            BY <1>10, <3>1, Zenon
        <3>3. r * l + l = (r + 1) * l
            BY <1>5
        <3> QED
            BY <3>2, <3>3, Zenon
    <2> HIDE DEF S
    <2> QED
        BY <2>1, <2>2, Induction
<1>12. ASSUME NEW r \in 1..N PROVE p[r - 1] = (r - 1) * l /\ (r - 1) * l \in Nat
    <2>1. r - 1 \in Nat /\ r - 1 <= N
        BY <1>2
    <2>2. p[r - 1] = (r - 1) * l
        BY <1>11, <2>1
    <2>3. \A a, b \in Nat : a * b \in Nat
        OBVIOUS
    <2> QED
        BY <1>5, <2>1, <2>2, <2>3, Zenon
<1>13. \A r \in 1..N : At(RowsOf(t), Row(t, r), (r - 1) * l)
    BY <1>6, <1>7, <1>9, <1>12, Zenon DEF RoomsLie
<1>14. RowsOf(t) \in Seq(Byte)
    BY <1>7, <1>9, Zenon DEF RoomsLie
<1> QED
    BY <1>5, <1>6, <1>12, <1>13, <1>14, Zenon DEF l, N

-----------------------------------------------------------------------------
(* The file of a table, and its header.                                     *)

\* Where its parts start, and where it ends.
RowAt(t)     == 32 + Len(Schema(t))
StringsAt(t) == RowAt(t) + Len(RowsOf(t))
BlobsAt(t)   == StringsAt(t) + Len(StringsOf(t))
EndsAt(t)    == BlobsAt(t) + Len(BlobsOf(t))

\* Where fourteen parts start of which ten have a known length.
Fourteen(pos, len) ==
    /\ pos[0] = 0 /\ \A k \in 1..14 : len[k] \in Nat /\ pos[k] = pos[k - 1] + len[k]
    /\ len[1] = 4 /\ len[2] = 4 /\ len[3] = 2 /\ len[4] = 2 /\ len[5] = 4
    /\ len[6] = 4 /\ len[7] = 4 /\ len[8] = 2 /\ len[9] = 2 /\ len[10] = 4

\* The first ten end at 32.
LEMMA FourteenSums ==
    ASSUME NEW pos, NEW len, Fourteen(pos, len)
    PROVE  /\ pos[1] = 4 /\ pos[2] = 8 /\ pos[3] = 10 /\ pos[4] = 12 /\ pos[5] = 16 /\ pos[6] = 20
           /\ pos[7] = 24 /\ pos[8] = 26 /\ pos[9] = 28 /\ pos[10] = 32
           /\ pos[11] = 32 + len[11] /\ pos[12] = 32 + len[11] + len[12]
           /\ pos[13] = 32 + len[11] + len[12] + len[13]
           /\ pos[14] = 32 + len[11] + len[12] + len[13] + len[14]
<1> USE DEF Fourteen
<1>1. pos[1] = 4 /\ pos[2] = 8
    OBVIOUS
<1>2. pos[3] = 10 /\ pos[4] = 12
    BY <1>1
<1>3. pos[5] = 16 /\ pos[6] = 20
    BY <1>2
<1>4. pos[7] = 24 /\ pos[8] = 26
    BY <1>3
<1>5. pos[9] = 28 /\ pos[10] = 32
    BY <1>4
<1>6. pos[11] = 32 + len[11]
    BY <1>5
<1>7. pos[12] = 32 + len[11] + len[12]
    BY <1>6
<1>8. pos[13] = 32 + len[11] + len[12] + len[13]
    BY <1>7
<1> QED
    BY <1>1, <1>2, <1>3, <1>4, <1>5, <1>6, <1>7, <1>8

\* Ten parts of a known length, and four behind them.
LEMMA FourteenStand ==
    ASSUME NEW a \in Seq(Seq(Byte)), Len(a) = 14,
           Len(a[1]) = 4, Len(a[2]) = 4, Len(a[3]) = 2, Len(a[4]) = 2, Len(a[5]) = 4,
           Len(a[6]) = 4, Len(a[7]) = 4, Len(a[8]) = 2, Len(a[9]) = 2, Len(a[10]) = 4
    PROVE  LET w == FlattenSeq(a)
               b == 32 + Len(a[11])
               c == b + Len(a[12])
               d == c + Len(a[13])
           IN  /\ w \in Seq(Byte) /\ Len(w) = d + Len(a[14])
               /\ At(w, a[1], 0) /\ At(w, a[2], 4) /\ At(w, a[4], 10) /\ At(w, a[5], 12)
               /\ At(w, a[6], 16) /\ At(w, a[7], 20) /\ At(w, a[8], 24) /\ At(w, a[9], 26)
               /\ At(w, a[10], 28) /\ At(w, a[11], 32)
               /\ At(w, a[12], b) /\ At(w, a[13], c) /\ At(w, a[14], d)
<1> DEFINE w == FlattenSeq(a)
<1> DEFINE b == 32 + Len(a[11])
<1> DEFINE c == b + Len(a[12])
<1> DEFINE d == c + Len(a[13])
<1>1. w \in Seq(Byte) /\ \E pos : Lies(w, a, pos)
    BY Laid, Zenon
<1> HIDE DEF w
<1>2. PICK pos : Lies(w, a, pos)
    BY <1>1
<1>3. pos[0] = 0 /\ pos[14] = Len(w) /\ \A k \in 1..14 : pos[k] = pos[k - 1] + Len(a[k])
    BY <1>2, Zenon DEF Lies
<1>4. \A k \in 1..14 : At(w, a[k], pos[k - 1]) /\ Len(a[k]) \in Nat
    <2>1. \A k \in 1..14 : At(w, a[k], pos[k - 1])
        BY <1>1, <1>2, AtPart, Zenon
    <2> QED
        BY <2>1
<1> DEFINE len == [k \in 1..14 |-> Len(a[k])]
<1>5. /\ \A k \in 1..14 : len[k] = Len(a[k]) /\ pos[k] = pos[k - 1] + len[k] /\ len[k] \in Nat
      /\ len[1] = 4 /\ len[2] = 4 /\ len[3] = 2 /\ len[4] = 2 /\ len[5] = 4
      /\ len[6] = 4 /\ len[7] = 4 /\ len[8] = 2 /\ len[9] = 2 /\ len[10] = 4
      /\ len[11] = Len(a[11]) /\ len[12] = Len(a[12]) /\ len[13] = Len(a[13]) /\ len[14] = Len(a[14])
    BY <1>3, <1>4
<1> HIDE DEF len
<1>6. /\ pos[1] = 4 /\ pos[2] = 8 /\ pos[3] = 10 /\ pos[4] = 12 /\ pos[5] = 16 /\ pos[6] = 20
      /\ pos[7] = 24 /\ pos[8] = 26 /\ pos[9] = 28 /\ pos[10] = 32
      /\ pos[11] = b /\ pos[12] = c /\ pos[13] = d /\ Len(w) = d + Len(a[14])
    <2>1. /\ pos[1] = 4 /\ pos[2] = 8 /\ pos[3] = 10 /\ pos[4] = 12 /\ pos[5] = 16 /\ pos[6] = 20
          /\ pos[7] = 24 /\ pos[8] = 26 /\ pos[9] = 28 /\ pos[10] = 32
          /\ pos[11] = 32 + len[11] /\ pos[12] = 32 + len[11] + len[12]
          /\ pos[13] = 32 + len[11] + len[12] + len[13]
          /\ pos[14] = 32 + len[11] + len[12] + len[13] + len[14]
        <3>1. Fourteen(pos, len)
            BY <1>3, <1>5, Zenon DEF Fourteen
        <3> QED
            BY <3>1, FourteenSums, Zenon
    <2>2. pos[11] = b /\ pos[12] = c /\ pos[13] = d /\ Len(w) = d + Len(a[14])
        BY <1>3, <1>5, <2>1, Zenon
    <2> QED
        BY <2>1, <2>2
<1>7. /\ At(w, a[1], pos[0]) /\ At(w, a[2], pos[1]) /\ At(w, a[4], pos[3]) /\ At(w, a[5], pos[4])
      /\ At(w, a[6], pos[5]) /\ At(w, a[7], pos[6]) /\ At(w, a[8], pos[7]) /\ At(w, a[9], pos[8])
      /\ At(w, a[10], pos[9]) /\ At(w, a[11], pos[10])
      /\ At(w, a[12], pos[11]) /\ At(w, a[13], pos[12]) /\ At(w, a[14], pos[13])
    BY <1>4
<1> HIDE DEF b, c, d
<1> QED
    BY <1>1, <1>3, <1>6, <1>7, Zenon DEF w, b, c, d

\* The parts of a table's file.
TableStands(t) ==
    LET file == TableFile(t) IN
    /\ file \in Seq(Byte) /\ Len(file) = EndsAt(t)
    /\ At(file, UtfMagic, 0) /\ At(file, Spelling(EndsAt(t) - 8, 4), 4)
    /\ At(file, Spelling(RowAt(t) - 8, 2), 10) /\ At(file, Spelling(StringsAt(t) - 8, 4), 12)
    /\ At(file, Spelling(BlobsAt(t) - 8, 4), 16)
    /\ At(file, Spelling(Place(Terminated(t), t.title), 4), 20)
    /\ At(file, Spelling(Len(t.cols), 2), 24) /\ At(file, Spelling(Len(Row(t, 1)), 2), 26)
    /\ At(file, Spelling(t.rows, 4), 28)
    /\ At(file, Schema(t), 32) /\ At(file, RowsOf(t), RowAt(t))
    /\ At(file, StringsOf(t), StringsAt(t)) /\ At(file, BlobsOf(t), BlobsAt(t))

\* And the numbers among them.
LEMMA TableRooms ==
    ASSUME NEW t \in Tables
    PROVE  /\ Schema(t) \in Seq(Byte) /\ RowsOf(t) \in Seq(Byte)
           /\ StringsOf(t) \in Seq(Byte) /\ BlobsOf(t) \in Seq(Byte)
           /\ Len(Schema(t)) \in Nat
           /\ RowAt(t) \in Nat /\ StringsAt(t) \in Nat /\ BlobsAt(t) \in Nat /\ EndsAt(t) \in Nat
           /\ 32 <= RowAt(t) /\ RowAt(t) <= StringsAt(t) /\ StringsAt(t) <= BlobsAt(t)
           /\ BlobsAt(t) <= EndsAt(t)
           /\ Len(t.cols) \in Nat /\ Len(Row(t, 1)) \in Nat /\ t.rows \in Nat
           /\ Place(Terminated(t), t.title) \in Nat
           /\ Place(Terminated(t), t.title) <= Len(StringsOf(t))
<1> DEFINE a == Schema(t)
<1> DEFINE b == RowsOf(t)
<1> DEFINE c == StringsOf(t)
<1> DEFINE d == BlobsOf(t)
<1>1. a \in Seq(Byte) /\ b \in Seq(Byte) /\ c \in Seq(Byte) /\ d \in Seq(Byte)
    <2>1. \E s : SchemaLies(t, s)
        BY SchemaLaid, Zenon
    <2>2. a \in Seq(Byte)
        BY <2>1, Zenon DEF SchemaLies
    <2> QED
        BY <2>2, RowsStand, StringsPlaced, BlobsPlaced, Zenon
<1>2. RowAt(t) = 32 + Len(a) /\ StringsAt(t) = RowAt(t) + Len(b) /\ BlobsAt(t) = StringsAt(t) + Len(c)
      /\ EndsAt(t) = BlobsAt(t) + Len(d)
    BY DEF RowAt, StringsAt, BlobsAt, EndsAt
<1>3. Len(t.cols) \in Nat /\ t.rows \in Nat
    BY TableType
<1>4. Len(Row(t, 1)) \in Nat
    BY RowsStand, Zenon
<1>5. Place(Terminated(t), t.title) \in Nat /\ Place(Terminated(t), t.title) <= Len(c)
    BY TableType, StringsPlaced, Zenon
<1> HIDE DEF a, b, c, d
<1>6. /\ Len(a) \in Nat /\ RowAt(t) \in Nat /\ StringsAt(t) \in Nat /\ BlobsAt(t) \in Nat /\ EndsAt(t) \in Nat
      /\ 32 <= RowAt(t) /\ RowAt(t) <= StringsAt(t) /\ StringsAt(t) <= BlobsAt(t)
      /\ BlobsAt(t) <= EndsAt(t)
    BY <1>1, <1>2
<1> QED
    BY <1>1, <1>3, <1>4, <1>5, <1>6, Zenon DEF a, b, c, d

\* They stand where the header says.
LEMMA TableLaid == ASSUME NEW t \in Tables PROVE TableStands(t)
<1> DEFINE a == TableParts(t)
<1> DEFINE n1 == EndsAt(t) - 8
<1> DEFINE n2 == RowAt(t) - 8
<1> DEFINE n3 == StringsAt(t) - 8
<1> DEFINE n4 == BlobsAt(t) - 8
<1> DEFINE n5 == Place(Terminated(t), t.title)
<1> DEFINE n6 == Len(t.cols)
<1> DEFINE n7 == Len(Row(t, 1))
<1> DEFINE n8 == t.rows
<1>1. /\ Len(Schema(t)) \in Nat /\ Len(RowsOf(t)) \in Nat /\ Len(StringsOf(t)) \in Nat /\ Len(BlobsOf(t)) \in Nat
    BY TableRooms
<1>2. a = <<UtfMagic, Spelling(n1, 4), <<0, 1>>, Spelling(n2, 2), Spelling(n3, 4), Spelling(n4, 4),
            Spelling(n5, 4), Spelling(n6, 2), Spelling(n7, 2), Spelling(n8, 4),
            Schema(t), RowsOf(t), StringsOf(t), BlobsOf(t)>>
    <2>1. /\ n2 = 24 + Len(Schema(t)) /\ n3 = n2 + Len(RowsOf(t)) /\ n4 = n3 + Len(StringsOf(t))
          /\ n1 = n4 + Len(BlobsOf(t))
        BY <1>1 DEF RowAt, StringsAt, BlobsAt, EndsAt
    <2> HIDE DEF n1, n2, n3, n4
    <2> QED
        BY <2>1, Zenon DEF TableParts, RowsOf, StringsOf, BlobsOf
<1>3. /\ n1 \in Int /\ n2 \in Int /\ n3 \in Int /\ n4 \in Int /\ n5 \in Int /\ n6 \in Int
      /\ n7 \in Int /\ n8 \in Int /\ 2 \in Nat /\ 4 \in Nat
    BY TableRooms
<1> HIDE DEF n1, n2, n3, n4, n5, n6, n7, n8
<1>4. \A n \in Int, k \in Nat : Spelling(n, k) \in Seq(Byte) /\ Len(Spelling(n, k)) = k
    BY SpellingIs, Zenon
<1>5. UtfMagic \in Seq(Byte) /\ Len(UtfMagic) = 4 /\ <<0, 1>> \in Seq(Byte) /\ Len(<<0, 1>>) = 2
    BY DEF UtfMagic, Byte
<1> DEFINE s1 == Spelling(n1, 4)
<1> DEFINE s2 == Spelling(n2, 2)
<1> DEFINE s3 == Spelling(n3, 4)
<1> DEFINE s4 == Spelling(n4, 4)
<1> DEFINE s5 == Spelling(n5, 4)
<1> DEFINE s6 == Spelling(n6, 2)
<1> DEFINE s7 == Spelling(n7, 2)
<1> DEFINE s8 == Spelling(n8, 4)
<1>6. /\ s1 \in Seq(Byte) /\ s2 \in Seq(Byte) /\ s3 \in Seq(Byte) /\ s4 \in Seq(Byte)
      /\ s5 \in Seq(Byte) /\ s6 \in Seq(Byte) /\ s7 \in Seq(Byte) /\ s8 \in Seq(Byte)
      /\ Len(s1) = 4 /\ Len(s2) = 2 /\ Len(s3) = 4 /\ Len(s4) = 4
      /\ Len(s5) = 4 /\ Len(s6) = 2 /\ Len(s7) = 2 /\ Len(s8) = 4
    BY <1>3, <1>4, Zenon
<1>7. a = <<UtfMagic, s1, <<0, 1>>, s2, s3, s4, s5, s6, s7, s8,
            Schema(t), RowsOf(t), StringsOf(t), BlobsOf(t)>>
    BY <1>2
<1>8. TableFile(t) = FlattenSeq(a)
    BY Zenon DEF TableFile
<1> DEFINE o == <<0, 1>>
<1> HIDE DEF a, s1, s2, s3, s4, s5, s6, s7, s8, o
<1>9. /\ a \in Seq(Seq(Byte)) /\ Len(a) = 14 /\ a[1] = UtfMagic /\ a[2] = s1 /\ a[3] = o /\ a[4] = s2
      /\ a[5] = s3 /\ a[6] = s4 /\ a[7] = s5 /\ a[8] = s6 /\ a[9] = s7 /\ a[10] = s8
      /\ a[11] = Schema(t) /\ a[12] = RowsOf(t) /\ a[13] = StringsOf(t) /\ a[14] = BlobsOf(t)
    <2>1. o \in Seq(Byte)
        BY <1>5 DEF o
    <2>2. a = <<UtfMagic, s1, o, s2, s3, s4, s5, s6, s7, s8,
                Schema(t), RowsOf(t), StringsOf(t), BlobsOf(t)>>
        BY <1>7 DEF o
    <2> DEFINE B == Seq(Byte)
    <2>3. /\ UtfMagic \in B /\ o \in B /\ Schema(t) \in B /\ RowsOf(t) \in B /\ StringsOf(t) \in B
          /\ BlobsOf(t) \in B /\ s1 \in B /\ s2 \in B /\ s3 \in B /\ s4 \in B /\ s5 \in B /\ s6 \in B
          /\ s7 \in B /\ s8 \in B
        BY <1>5, <1>6, <2>1, TableRooms, Zenon
    <2> HIDE DEF B
    <2>4. a \in Seq(B)
        BY <2>2, <2>3
    <2> QED
        BY <2>2, <2>4 DEF B
<1>10. Len(o) = 2
    BY <1>5 DEF o
<1> DEFINE w == FlattenSeq(a)
<1>11. /\ w \in Seq(Byte) /\ Len(w) = EndsAt(t)
       /\ At(w, UtfMagic, 0) /\ At(w, s1, 4) /\ At(w, s2, 10) /\ At(w, s3, 12)
       /\ At(w, s4, 16) /\ At(w, s5, 20) /\ At(w, s6, 24) /\ At(w, s7, 26)
       /\ At(w, s8, 28) /\ At(w, Schema(t), 32)
       /\ At(w, RowsOf(t), RowAt(t)) /\ At(w, StringsOf(t), StringsAt(t)) /\ At(w, BlobsOf(t), BlobsAt(t))
    <2>1. /\ Len(a[1]) = 4 /\ Len(a[2]) = 4 /\ Len(a[3]) = 2 /\ Len(a[4]) = 2 /\ Len(a[5]) = 4
          /\ Len(a[6]) = 4 /\ Len(a[7]) = 4 /\ Len(a[8]) = 2 /\ Len(a[9]) = 2 /\ Len(a[10]) = 4
        BY <1>5, <1>6, <1>9, <1>10, Zenon
    <2>2. LET b == 32 + Len(a[11])
              c == b + Len(a[12])
              d == c + Len(a[13])
          IN  /\ w \in Seq(Byte) /\ Len(w) = d + Len(a[14])
              /\ At(w, a[1], 0) /\ At(w, a[2], 4) /\ At(w, a[4], 10) /\ At(w, a[5], 12)
              /\ At(w, a[6], 16) /\ At(w, a[7], 20) /\ At(w, a[8], 24) /\ At(w, a[9], 26)
              /\ At(w, a[10], 28) /\ At(w, a[11], 32)
              /\ At(w, a[12], b) /\ At(w, a[13], c) /\ At(w, a[14], d)
        BY <1>9, <2>1, FourteenStand, Zenon
    <2> QED
        BY <1>9, <2>2, Zenon DEF RowAt, StringsAt, BlobsAt, EndsAt
<1> QED
    BY <1>8, <1>11, Zenon DEF TableStands, s1, s2, s3, s4, s5, s6, s7, s8, n1, n2, n3, n4, n5, n6, n7, n8


\* A number is read there.
ReadsAs(data, p, k, n) == Spelled(data, p, k) = n /\ Has(data, p, k)

\* One that fits.
LEMMA NumberReads ==
    ASSUME NEW data \in Seq(Byte), NEW p \in Nat, NEW n \in Int, NEW k \in Nat, k > 0,
           At(data, Spelling(n, k), p), Fits(n, k)
    PROVE  ReadsAs(data, p, k, n)
    BY NumberRead DEF ReadsAs

\* A string of the table is read where Place says, and so are the data.
TextAt(t, k) == StringsAt(t) + Place(Terminated(t), k)

StringIsRead(t, k) ==
    StringAt(TableFile(t), TextAt(t, k)) = t.strings[k] /\ Zeros(TableFile(t), TextAt(t, k)) # {}

\* It is, with the zero behind it.
LEMMA StringsRead == ASSUME NEW t \in Tables, NEW k \in 1..Len(t.strings) PROVE StringIsRead(t, k)
<1> DEFINE p == Place(Terminated(t), k)
<1> DEFINE s == t.strings[k]
<1> DEFINE file == TableFile(t)
<1>1. /\ StringsOf(t) \in Seq(Byte) /\ s \in Seq(Letter) /\ s \o << 0 >> \in Seq(Byte) /\ p \in Nat
      /\ At(StringsOf(t), s \o << 0 >>, p)
    BY StringsPlaced, Zenon
<1>2. file \in Seq(Byte) /\ At(file, StringsOf(t), StringsAt(t)) /\ StringsAt(t) \in Nat
    BY TableLaid, TableRooms, Zenon DEF TableStands
<1> HIDE DEF p, s, file
<1>3. At(file, s \o << 0 >>, StringsAt(t) + p)
    BY <1>1, <1>2, AtWithin, Zenon
<1>4. StringsAt(t) + p \in Nat
    BY <1>1, <1>2
<1>5. StringAt(file, StringsAt(t) + p) = s /\ Zeros(file, StringsAt(t) + p) # {}
    BY <1>1, <1>2, <1>3, <1>4, StringRead, Zenon
<1> QED
    BY <1>5, Zenon DEF StringIsRead, TextAt, p, s, file

BlobIsRead(t, k) ==
    /\ Slice(TableFile(t), BlobsAt(t) + Place(t.blobs, k), Len(t.blobs[k])) = t.blobs[k]
    /\ Has(TableFile(t), BlobsAt(t) + Place(t.blobs, k), Len(t.blobs[k]))

\* They are, as many bytes as they have.
LEMMA BlobsRead == ASSUME NEW t \in Tables, NEW k \in 1..Len(t.blobs) PROVE BlobIsRead(t, k)
<1> DEFINE p == Place(t.blobs, k)
<1> DEFINE s == t.blobs[k]
<1> DEFINE file == TableFile(t)
<1>1. /\ BlobsOf(t) \in Seq(Byte) /\ s \in Seq(Byte) /\ p \in Nat /\ At(BlobsOf(t), s, p)
    BY BlobsPlaced, Zenon
<1>2. file \in Seq(Byte) /\ At(file, BlobsOf(t), BlobsAt(t)) /\ BlobsAt(t) \in Nat
    BY TableLaid, TableRooms, Zenon DEF TableStands
<1> HIDE DEF p, s, file
<1>3. At(file, s, BlobsAt(t) + p)
    BY <1>1, <1>2, AtWithin, Zenon
<1>4. BlobsAt(t) + p \in Nat
    BY <1>1, <1>2
<1>5. Slice(file, BlobsAt(t) + p, Len(s)) = s /\ Has(file, BlobsAt(t) + p, Len(s))
    BY <1>1, <1>2, <1>3, <1>4, DataRead, Zenon
<1> QED
    BY <1>5, Zenon DEF BlobIsRead, p, s, file

\* What the file is not longer than fits its numbers.
LEMMA PlacesFit ==
    ASSUME NEW t \in Tables
    PROVE  /\ \A n \in Nat : n <= EndsAt(t) => Fits(n, 4)
           /\ Fits(RowAt(t) - 8, 2) /\ Len(Schema(t)) < utfMaxSchemaSize
           /\ Fits(Len(t.cols), 2) /\ Fits(Len(Row(t, 1)), 2) /\ Fits(t.rows, 4)
<1>1. TableFits(t)
    BY Zenon DEF Tables
<1>2. /\ Len(Schema(t)) < utfMaxSchemaSize /\ Fits(Len(TableFile(t)), 4)
      /\ Fits(Len(t.cols), 2) /\ Fits(Len(Row(t, 1)), 2) /\ Fits(t.rows, 4)
    BY <1>1 DEF TableFits
<1>3. Fits(EndsAt(t), 4) /\ EndsAt(t) \in Nat
    <2>1. Len(TableFile(t)) = EndsAt(t)
        BY TableLaid, Zenon DEF TableStands
    <2> QED
        BY <1>2, <2>1, TableRooms
<1>4. \A n \in Nat : n <= EndsAt(t) => Fits(n, 4)
    <2>1. 4 \in Nat /\ 4 > 0
        OBVIOUS
    <2> QED
        BY <1>3, <2>1, FitsLess, Zenon
<1>5. Fits(RowAt(t) - 8, 2)
    <2> DEFINE n == RowAt(t) - 8
    <2>1. n \in Int /\ 0 <= n /\ n <= 32792
        BY <1>2, TableRooms DEF RowAt, utfMaxSchemaSize
    <2> HIDE DEF n
    <2>2. Shifted(n, 1) = n \div 256
        BY <2>1, ShiftedFew
    <2>3. n \div 256 \in 0..255
        BY <2>1
    <2>4. 2 - 1 = 1
        OBVIOUS
    <2> QED
        BY <2>2, <2>3, <2>4, Zenon DEF Fits, n
<1> QED
    BY <1>2, <1>4, <1>5

\* What the header says, and that it is taken.
HeaderOf(t) ==
    [size |-> EndsAt(t), row |-> RowAt(t), strings |-> StringsAt(t), blobs |-> BlobsAt(t),
     name |-> Place(Terminated(t), t.title), fields |-> Len(t.cols), rowSize |-> Len(Row(t, 1)),
     rows |-> t.rows]

\* NewUTFTable reads it so, and goes on.
LEMMA HeaderRead == ASSUME NEW t \in Tables PROVE UtfHeader(TableFile(t)) = HeaderOf(t) /\ HeaderTaken(TableFile(t))
<1> DEFINE file == TableFile(t)
<1> DEFINE n1 == EndsAt(t) - 8
<1> DEFINE n2 == RowAt(t) - 8
<1> DEFINE n3 == StringsAt(t) - 8
<1> DEFINE n4 == BlobsAt(t) - 8
<1> DEFINE n5 == Place(Terminated(t), t.title)
<1> DEFINE n6 == Len(t.cols)
<1> DEFINE n7 == Len(Row(t, 1))
<1> DEFINE n8 == t.rows
<1>1. /\ file \in Seq(Byte) /\ Len(file) = EndsAt(t)
      /\ At(file, UtfMagic, 0) /\ At(file, Spelling(n1, 4), 4)
      /\ At(file, Spelling(n2, 2), 10) /\ At(file, Spelling(n3, 4), 12)
      /\ At(file, Spelling(n4, 4), 16) /\ At(file, Spelling(n5, 4), 20)
      /\ At(file, Spelling(n6, 2), 24) /\ At(file, Spelling(n7, 2), 26)
      /\ At(file, Spelling(n8, 4), 28)
    BY TableLaid, Zenon DEF TableStands
<1>2. /\ EndsAt(t) = n1 + 8 /\ RowAt(t) = n2 + 8 /\ StringsAt(t) = n3 + 8 /\ BlobsAt(t) = n4 + 8
      /\ n1 \in Nat /\ n2 \in Nat /\ n3 \in Nat /\ n4 \in Nat /\ n5 \in Nat /\ n6 \in Nat /\ n7 \in Nat /\ n8 \in Nat
      /\ n1 <= EndsAt(t) /\ n3 <= EndsAt(t) /\ n4 <= EndsAt(t)
    <2>1. n5 \in Nat /\ n6 \in Nat /\ n7 \in Nat /\ n8 \in Nat
        BY TableRooms, Zenon
    <2> DEFINE e == EndsAt(t)
    <2> DEFINE r == RowAt(t)
    <2> DEFINE s == StringsAt(t)
    <2> DEFINE b == BlobsAt(t)
    <2>2. e \in Nat /\ r \in Nat /\ s \in Nat /\ b \in Nat /\ 32 <= r /\ r <= s /\ s <= b /\ b <= e
        BY TableRooms, Zenon
    <2>3. n1 = e - 8 /\ n2 = r - 8 /\ n3 = s - 8 /\ n4 = b - 8
        OBVIOUS
    <2> HIDE DEF e, r, s, b, n1, n2, n3, n4
    <2>4. /\ e = n1 + 8 /\ r = n2 + 8 /\ s = n3 + 8 /\ b = n4 + 8
          /\ n1 \in Nat /\ n2 \in Nat /\ n3 \in Nat /\ n4 \in Nat /\ n1 <= e /\ n3 <= e /\ n4 <= e
        BY <2>2, <2>3
    <2> QED
        BY <2>1, <2>4, Zenon DEF e, r, s, b
<1>3. n5 <= EndsAt(t)
    <2>1. n5 <= Len(StringsOf(t)) /\ n5 \in Nat /\ StringsOf(t) \in Seq(Byte) /\ StringsAt(t) \in Nat
          /\ BlobsAt(t) <= EndsAt(t) /\ BlobsAt(t) \in Nat /\ EndsAt(t) \in Nat
        BY TableRooms, Zenon
    <2> HIDE DEF n5
    <2> QED
        BY <2>1 DEF BlobsAt
<1> HIDE DEF n1, n2, n3, n4, n5, n6, n7, n8, file
<1>4. /\ Fits(n1, 4) /\ Fits(n2, 2) /\ Fits(n3, 4) /\ Fits(n4, 4) /\ Fits(n5, 4) /\ Fits(n6, 2)
      /\ Fits(n7, 2) /\ Fits(n8, 4)
    <2>1. Fits(n1, 4) /\ Fits(n3, 4) /\ Fits(n4, 4) /\ Fits(n5, 4)
        BY <1>2, <1>3, PlacesFit
    <2>2. Fits(n2, 2) /\ Fits(n6, 2) /\ Fits(n7, 2) /\ Fits(n8, 4)
        <3>1. Fits(RowAt(t) - 8, 2) /\ Fits(Len(t.cols), 2)
            BY PlacesFit, Zenon
        <3>2. Fits(Len(Row(t, 1)), 2) /\ Fits(t.rows, 4)
            BY PlacesFit, Zenon
        <3> QED
            BY <3>1, <3>2 DEF n2, n6, n7, n8
    <2> QED
        BY <2>1, <2>2
<1>5. /\ n1 \in Int /\ n2 \in Int /\ n3 \in Int /\ n4 \in Int /\ n5 \in Int /\ n6 \in Int
      /\ n7 \in Int /\ n8 \in Int /\ 2 \in Nat /\ 4 \in Nat /\ 2 > 0 /\ 4 > 0
      /\ 10 \in Nat /\ 12 \in Nat /\ 16 \in Nat /\ 20 \in Nat /\ 24 \in Nat /\ 26 \in Nat /\ 28 \in Nat /\ 0 \in Nat
    BY <1>2
<1>6. /\ Spelled(file, 4, 4) = n1 /\ Spelled(file, 10, 2) = n2 /\ Spelled(file, 12, 4) = n3
      /\ Spelled(file, 16, 4) = n4 /\ Spelled(file, 20, 4) = n5 /\ Spelled(file, 24, 2) = n6
      /\ Spelled(file, 26, 2) = n7 /\ Spelled(file, 28, 4) = n8
    <2>1. ReadsAs(file, 4, 4, n1) /\ ReadsAs(file, 10, 2, n2) /\ ReadsAs(file, 12, 4, n3)
        BY <1>1, <1>4, <1>5, NumberReads, Zenon
    <2>2. ReadsAs(file, 16, 4, n4) /\ ReadsAs(file, 20, 4, n5) /\ ReadsAs(file, 24, 2, n6)
        BY <1>1, <1>4, <1>5, NumberReads, Zenon
    <2>3. ReadsAs(file, 26, 2, n7) /\ ReadsAs(file, 28, 4, n8)
        BY <1>1, <1>4, <1>5, NumberReads, Zenon
    <2> QED
        BY <2>1, <2>2, <2>3, Zenon DEF ReadsAs
<1>7. UtfHeader(file) = HeaderOf(t)
    BY <1>2, <1>6, Zenon DEF UtfHeader, HeaderOf, n5, n6, n7, n8
<1>8. HeaderTaken(file)
    <2> DEFINE h == HeaderOf(t)
    <2>1. /\ h.size = EndsAt(t) /\ h.row = RowAt(t) /\ h.strings = StringsAt(t) /\ h.blobs = BlobsAt(t)
          /\ h.name = n5 /\ h.fields = n6
        BY DEF HeaderOf, n5, n6
    <2> HIDE DEF h
    <2>2. Has(file, 0, 32)
        BY <1>1, TableRooms, SMTT(30) DEF Has
    <2>3. Slice(file, 0, 4) = UtfMagic
        <3>1. UtfMagic \in Seq(Byte) /\ Len(UtfMagic) = 4
            BY DEF UtfMagic, Byte
        <3>2. Slice(file, 0, Len(UtfMagic)) = UtfMagic
            BY <1>1, <1>5, <3>1, DataRead, Zenon
        <3> QED
            BY <3>1, <3>2, Zenon
    <2>4. h.fields # 0
        <3>1. Len(t.cols) >= 1 /\ Len(t.cols) \in Nat
            BY TableType
        <3> QED
            BY <2>1, <3>1 DEF n6
    <2>5. h.row - 32 >= 0 /\ h.row - 32 < utfMaxSchemaSize
        <3> DEFINE l == Len(Schema(t))
        <3>1. l \in Nat
            BY TableRooms, Zenon
        <3>2. l < utfMaxSchemaSize
            BY PlacesFit, Zenon
        <3>3. h.row = 32 + l
            BY <2>1, Zenon DEF RowAt
        <3>4. \A k \in Nat : (32 + k) - 32 = k /\ k >= 0
            OBVIOUS
        <3> HIDE DEF l
        <3> QED
            BY <3>1, <3>2, <3>3, <3>4, Zenon
    <2>6. {h.row, h.strings, h.blobs} \subseteq 0..h.size
        BY <2>1, TableRooms
    <2>7. Zeros(file, h.strings + h.name) # {}
        BY <2>1, TableType, StringsRead, Zenon DEF StringIsRead, TextAt, file, n5
    <2>8. UtfHeader(file) = h
        BY <1>7 DEF h
    <2> QED
        <3> DEFINE g == UtfHeader(file)
        <3>1. /\ g.fields # 0 /\ g.row - 32 >= 0 /\ g.row - 32 < utfMaxSchemaSize /\ {g.row, g.strings, g.blobs} \subseteq 0..g.size
              /\ Zeros(file, g.strings + g.name) # {}
            BY <2>4, <2>5, <2>6, <2>7, <2>8, Zenon
        <3> HIDE DEF g
        <3>2. HeaderTaken(file) <=>
                /\ Has(file, 0, 32) /\ Slice(file, 0, 4) = UtfMagic
                /\ g.fields # 0 /\ g.row - 32 >= 0 /\ g.row - 32 < utfMaxSchemaSize /\ {g.row, g.strings, g.blobs} \subseteq 0..g.size
                /\ Zeros(file, g.strings + g.name) # {}
            BY Zenon DEF HeaderTaken, g
        <3> QED
            BY <2>2, <2>3, <3>1, <3>2, Zenon
<1> QED
    BY <1>7, <1>8 DEF file


\* A value that stands in the table is read, and to its end.
Stored(t, typ, v) == CASE typ = 10 -> t.strings[v] [] typ = 11 -> t.blobs[v] [] OTHER -> v

ValueComes(t, typ, v, p) ==
    /\ ValueAt(TableFile(t), typ, p, StringsAt(t), BlobsAt(t)) = Stored(t, typ, v)
    /\ Readable(TableFile(t), typ, p, StringsAt(t), BlobsAt(t))

\* The places of strings and data, and their lengths, are in the file.
LEMMA PlacesWithin ==
    ASSUME NEW t \in Tables
    PROVE  /\ \A k \in 1..Len(t.strings) :
                 Place(Terminated(t), k) \in Nat /\ Fits(Place(Terminated(t), k), 4)
           /\ \A k \in 1..Len(t.blobs) :
                 /\ Place(t.blobs, k) \in Nat /\ Fits(Place(t.blobs, k), 4)
                 /\ Len(t.blobs[k]) \in Nat /\ Fits(Len(t.blobs[k]), 4)
<1> DEFINE e == EndsAt(t)
<1> DEFINE s == Len(StringsOf(t))
<1> DEFINE b == Len(BlobsOf(t))
<1>1. e \in Nat /\ s \in Nat /\ b \in Nat /\ s <= e /\ b <= e
    BY TableRooms DEF BlobsAt, EndsAt
<1> HIDE DEF e, s, b
<1>2. \A n \in Nat : n <= e => Fits(n, 4)
    BY PlacesFit, Zenon DEF e
<1>3. ASSUME NEW k \in 1..Len(t.strings)
      PROVE  Place(Terminated(t), k) \in Nat /\ Fits(Place(Terminated(t), k), 4)
    <2> DEFINE n == Place(Terminated(t), k)
    <2>1. n \in Nat /\ n <= s
        BY StringsPlaced, Zenon DEF s
    <2> HIDE DEF n
    <2>2. n <= e
        BY <1>1, <2>1
    <2> QED
        BY <1>2, <2>1, <2>2, Zenon DEF n
<1>4. ASSUME NEW k \in 1..Len(t.blobs)
      PROVE  /\ Place(t.blobs, k) \in Nat /\ Fits(Place(t.blobs, k), 4)
             /\ Len(t.blobs[k]) \in Nat /\ Fits(Len(t.blobs[k]), 4)
    <2> DEFINE n == Place(t.blobs, k)
    <2> DEFINE m == Len(t.blobs[k])
    <2>1. n \in Nat /\ n <= b /\ m \in Nat /\ At(BlobsOf(t), t.blobs[k], n)
        BY BlobsPlaced, Zenon DEF b
    <2>2. n + m <= b
        BY <2>1, Zenon DEF At, b
    <2> HIDE DEF n, m
    <2>3. n <= e /\ m <= e
        BY <1>1, <2>1, <2>2
    <2> QED
        BY <1>2, <2>1, <2>3, Zenon DEF n, m
<1> QED
    BY <1>3, <1>4

\* By readColumnValue and resolvePromise, whatever its type.
LEMMA ValueRead ==
    ASSUME NEW t \in Tables, NEW typ \in Types, NEW v \in Int, Held(t, typ, v), NEW p \in Nat,
           At(TableFile(t), Encoded(t, typ, v), p)
    PROVE  ValueComes(t, typ, v, p)
<1> DEFINE file == TableFile(t)
<1> DEFINE strings == StringsAt(t)
<1> DEFINE blobs == BlobsAt(t)
<1> DEFINE k == columnValueSize(typ)
<1>1. file \in Seq(Byte) /\ strings \in Nat /\ blobs \in Nat
    BY TableLaid, TableRooms, Zenon DEF TableStands
<1>2. At(file, Encoded(t, typ, v), p)
    OBVIOUS
<1>3. 4 \in Nat /\ 4 > 0 /\ \A n \in Nat : n \in Int
    OBVIOUS
<1> HIDE DEF file, strings, blobs
<1>4. CASE typ = 10
    <2> DEFINE n == Place(Terminated(t), v)
    <2>1. v \in 1..Len(t.strings)
        <3>1. v \in DOMAIN t.strings /\ t.strings \in Seq(Seq(Letter))
            BY <1>4, TableType DEF Held
        <3> QED
            BY <3>1
    <2>2. n \in Nat /\ Fits(n, 4)
        BY <2>1, PlacesWithin, Zenon
    <2>3. Encoded(t, typ, v) = Spelling(n, 4) /\ k = 4
        BY <1>4 DEF Encoded, columnValueSize
    <2>4. At(file, Spelling(n, 4), p)
        BY <1>2, <2>3
    <2>5. ReadsAs(file, p, 4, n)
        BY <1>1, <1>3, <2>2, <2>4, NumberReads, Zenon
    <2>6. StringAt(file, strings + n) = t.strings[v] /\ Zeros(file, strings + n) # {}
        BY <2>1, StringsRead, Zenon DEF StringIsRead, TextAt, file, strings
    <2> HIDE DEF n
    <2>7. ValueAt(file, typ, p, strings, blobs) = t.strings[v]
        <3>1. ValueAt(file, typ, p, strings, blobs) = StringAt(file, strings + Spelled(file, p, 4))
            BY <1>4 DEF ValueAt
        <3> QED
            BY <2>5, <2>6, <3>1, Zenon DEF ReadsAs
    <2>8. Readable(file, typ, p, strings, blobs)
        <3>1. typ # 11
            BY <1>4
        <3> QED
            BY <1>4, <2>3, <2>5, <2>6, <3>1, Zenon DEF ReadsAs, Readable
    <2>9. Stored(t, typ, v) = t.strings[v]
        BY <1>4 DEF Stored
    <2> QED
        BY <2>7, <2>8, <2>9, Zenon DEF ValueComes, file, strings, blobs
<1>5. CASE typ = 11
    <2> DEFINE n == Place(t.blobs, v)
    <2> DEFINE m == Len(t.blobs[v])
    <2> DEFINE a == Spelling(n, 4)
    <2> DEFINE b == Spelling(m, 4)
    <2>1. v \in 1..Len(t.blobs)
        <3>1. v \in DOMAIN t.blobs /\ t.blobs \in Seq(Seq(Byte))
            BY <1>5, TableType DEF Held
        <3> QED
            BY <3>1
    <2>2. n \in Nat /\ Fits(n, 4) /\ m \in Nat /\ Fits(m, 4)
        BY <2>1, PlacesWithin, Zenon
    <2>3. Encoded(t, typ, v) = a \o b /\ k = 8
        BY <1>5 DEF Encoded, columnValueSize
    <2>4. a \in Seq(Byte) /\ Len(a) = 4 /\ b \in Seq(Byte) /\ Len(b) = 4
        BY <1>3, <2>2, SpellingIs, ZenonT(40)
    <2> HIDE DEF k, a, b
    <2> DEFINE w == a \o b
    <2>5. w \in Seq(Byte) /\ Len(w) = 8 /\ At(w, a, 0) /\ At(w, b, 4)
        <3>1. w \in Seq(Byte) /\ Len(w) = Len(a) + Len(b) /\ At(w, a, 0) /\ At(w, b, Len(a))
            BY <2>4, AtEnds, Zenon
        <3>2. 4 + 4 = 8
            OBVIOUS
        <3> QED
            BY <2>4, <3>1, <3>2, Zenon
    <2>6. At(file, w, p)
        BY <1>2, <2>3
    <2> HIDE DEF w
    <2>7. At(file, a, p) /\ At(file, b, p + 4) /\ p + 4 \in Nat
        <3>1. At(file, a, p + 0) /\ At(file, b, p + 4)
            BY <1>1, <1>3, <2>4, <2>5, <2>6, AtWithin
        <3> QED
            BY <3>1
    <2>8. ReadsAs(file, p, 4, n) /\ ReadsAs(file, p + 4, 4, m)
        BY <1>1, <1>3, <2>2, <2>7, NumberReads, Zenon DEF a, b
    <2>9. Has(file, p, 8)
        BY <1>1, <2>5, <2>6 DEF At, Has
    <2>10. Slice(file, blobs + n, m) = t.blobs[v] /\ Has(file, blobs + n, m)
        BY <2>1, BlobsRead, Zenon DEF BlobIsRead, file, blobs
    <2> HIDE DEF n, m
    <2>11. ValueAt(file, typ, p, strings, blobs) = t.blobs[v]
        <3>1. ValueAt(file, typ, p, strings, blobs)
                = Slice(file, blobs + Spelled(file, p, 4), Spelled(file, p + 4, 4))
            BY <1>5 DEF ValueAt
        <3> QED
            BY <2>8, <2>10, <3>1, Zenon DEF ReadsAs
    <2>12. Readable(file, typ, p, strings, blobs)
        <3>1. typ # 10
            BY <1>5
        <3>2. Has(file, p, columnValueSize(typ))
            BY <2>3, <2>9, Zenon DEF k
        <3> QED
            BY <2>8, <2>10, <3>1, <3>2, Zenon DEF ReadsAs, Readable
    <2>13. Stored(t, typ, v) = t.blobs[v]
        BY <1>5 DEF Stored
    <2> QED
        BY <2>11, <2>12, <2>13, Zenon DEF ValueComes, file, strings, blobs
<1>6. ASSUME typ # 10, typ # 11 PROVE ValueComes(t, typ, v, p)
    <2>1. Encoded(t, typ, v) = Spelling(v, k) /\ Stored(t, typ, v) = v
        BY <1>6 DEF Encoded, Stored
    <2>2. k \in Nat /\ k > 0
        BY EncodedIs, Zenon
    <2>3. At(file, Spelling(v, k), p)
        BY <1>2, <2>1
    <2>4. CASE typ \in {1, 3, 5}
        <3>1. Shifted(v, k - 1) \in -128..127
            BY <1>6, <2>4 DEF Held
        <3>2. ValueAt(file, typ, p, strings, blobs) = SpelledSigned(file, p, k)
            BY <1>6, <2>4 DEF ValueAt
        <3> HIDE DEF k
        <3>3. SpelledSigned(file, p, k) = v /\ Has(file, p, k)
            BY <1>1, <2>2, <2>3, <3>1, SignedRead
        <3>4. Readable(file, typ, p, strings, blobs)
            BY <1>6, <3>3, Zenon DEF Readable, k
        <3> QED
            BY <2>1, <3>2, <3>3, <3>4, Zenon DEF ValueComes, file, strings, blobs
    <2>5. CASE typ \notin {1, 3, 5}
        <3>1. Fits(v, k)
            BY <1>6, <2>5 DEF Held
        <3>2. ValueAt(file, typ, p, strings, blobs) = Spelled(file, p, k)
            BY <1>6, <2>5 DEF ValueAt
        <3> HIDE DEF k
        <3>3. ReadsAs(file, p, k, v)
            BY <1>1, <2>2, <2>3, <3>1, NumberReads, Zenon
        <3>4. Readable(file, typ, p, strings, blobs)
            BY <1>6, <3>3, Zenon DEF ReadsAs, Readable, k
        <3> QED
            BY <2>1, <3>2, <3>3, <3>4, Zenon DEF ReadsAs, ValueComes, file, strings, blobs
    <2> QED
        BY <2>4, <2>5
<1> QED
    BY <1>4, <1>5, <1>6

-----------------------------------------------------------------------------
(* The schema of a table.                                                   *)

\* Flag and type come apart again.
LEMMA InfoBits ==
    ASSUME NEW flag \in {16, 48, 80, 112}, NEW typ \in Types
    PROVE  /\ (flag + typ) % 16 = typ /\ Flag(flag + typ) = flag
           /\ HasDefault(flag + typ) <=> flag \in {48, 112}
           /\ HasRow(flag + typ) <=> flag \in {80, 112}
           /\ FromRow(flag + typ) <=> flag = 80
<1>1. typ \in 0..15
    BY DEF Types
<1>2. CASE flag = 16
    BY <1>1, <1>2 DEF Flag, HasDefault, HasRow, FromRow
<1>3. CASE flag = 48
    BY <1>1, <1>3 DEF Flag, HasDefault, HasRow, FromRow
<1>4. CASE flag = 80
    BY <1>1, <1>4 DEF Flag, HasDefault, HasRow, FromRow
<1>5. CASE flag = 112
    BY <1>1, <1>5 DEF Flag, HasDefault, HasRow, FromRow
<1> QED
    BY <1>2, <1>3, <1>4, <1>5

\* A column in the file's schema.
ColumnStands(t, c, at) ==
    LET file == TableFile(t) IN
    /\ at \in Nat /\ ByteAt(file, at) = c.flag + c.typ /\ Has(file, at, 5)
    /\ ReadsAs(file, at + 1, 4, Place(Terminated(t), c.name))
    /\ Default(c) => At(file, Encoded(t, c.typ, c.vals[1]), at + 5)

\* Every column stands there.
LEMMA ColumnLies ==
    ASSUME NEW t \in Tables, NEW s, SchemaLies(t, s), NEW i \in 1..Len(t.cols)
    PROVE  ColumnStands(t, t.cols[i], 32 + s[i - 1])
<1> DEFINE file == TableFile(t)
<1> DEFINE c == t.cols[i]
<1> DEFINE part == SchemaOf(t, c)
<1> DEFINE p == s[i - 1]
<1> DEFINE n == Place(Terminated(t), c.name)
<1>1. IsColumn(t, c)
    BY TableType, Zenon
<1>2. /\ Schema(t) \in Seq(Byte) /\ part \in Seq(Byte) /\ At(Schema(t), part, p)
    BY Zenon DEF SchemaLies
<1>3. p \in Nat
    <2>1. s \in [0..Len(t.cols) -> Nat]
        BY Zenon DEF SchemaLies, Sums
    <2>2. i - 1 \in 0..Len(t.cols)
        OBVIOUS
    <2> QED
        BY <2>1, <2>2, Zenon
<1>4. file \in Seq(Byte) /\ At(file, Schema(t), 32)
    BY TableLaid, Zenon DEF TableStands
<1> HIDE DEF file, c
<1>5. /\ Len(part) = SchemaRoom(c) /\ SchemaRoom(c) >= 5 /\ SchemaRoom(c) \in Nat
      /\ At(part, <<c.flag + c.typ>>, 0) /\ <<c.flag + c.typ>> \in Seq(Byte)
      /\ At(part, Spelling(n, 4), 1) /\ Spelling(n, 4) \in Seq(Byte)
      /\ Default(c) => At(part, Encoded(t, c.typ, c.vals[1]), 5)
    BY <1>1, SchemaIs, Zenon
<1>6. n \in Nat /\ Fits(n, 4)
    <2>1. c.name \in 1..Len(t.strings)
        BY <1>1, Zenon DEF IsColumn
    <2>2. \A k \in 1..Len(t.strings) :
             Place(Terminated(t), k) \in Nat /\ Fits(Place(Terminated(t), k), 4)
        BY PlacesWithin, Zenon
    <2> QED
        BY <2>1, <2>2, Zenon
<1>7. Default(c) => Encoded(t, c.typ, c.vals[1]) \in Seq(Byte)
    <2>1. 1 \in 1..Len(c.vals) /\ c.typ \in Types
        BY <1>1 DEF IsColumn
    <2>2. c.vals[1] \in Int /\ Held(t, c.typ, c.vals[1])
        BY <1>1, <2>1, Zenon DEF IsColumn
    <2> QED
        BY <2>1, <2>2, EncodedIs, Zenon
<1> DEFINE a == <<c.flag + c.typ>>
<1> DEFINE at == 32 + p
<1>8. a[1] = c.flag + c.typ /\ 1 \in 1..Len(a)
    OBVIOUS
<1> HIDE DEF part, p, n, a
<1>9. at \in Nat /\ 0 \in Nat /\ 1 \in Nat /\ 5 \in Nat /\ 32 \in Nat /\ 4 \in Nat /\ 4 > 0
    BY <1>3
<1>10. At(file, part, at)
    BY <1>2, <1>3, <1>4, <1>9, AtWithin, Zenon
<1> HIDE DEF at
<1>11. ByteAt(file, at) = c.flag + c.typ
    <2>1. At(file, a, at + 0) /\ a \in Seq(Byte)
        BY <1>2, <1>4, <1>5, <1>9, <1>10, AtWithin, Zenon DEF a
    <2>2. at + 0 \in Nat /\ (at + 0) + 1 - 1 = at
        BY <1>9
    <2>3. ByteAt(file, (at + 0) + 1 - 1) = a[1]
        BY <1>4, <1>8, <2>1, <2>2, ByteRead, Zenon
    <2> QED
        BY <1>8, <2>2, <2>3, Zenon
<1>12. Has(file, at, 5)
    <2>1. at + Len(part) <= Len(file) /\ Len(file) \in Nat
        BY <1>4, <1>10 DEF At
    <2> QED
        BY <1>5, <1>9, <2>1 DEF Has
<1>13. ReadsAs(file, at + 1, 4, n)
    <2>1. At(file, Spelling(n, 4), at + 1)
        BY <1>2, <1>4, <1>5, <1>9, <1>10, AtWithin, Zenon
    <2>2. at + 1 \in Nat /\ n \in Int
        BY <1>6, <1>9
    <2> QED
        BY <1>4, <1>6, <1>9, <2>1, <2>2, NumberReads, Zenon
<1>14. Default(c) => At(file, Encoded(t, c.typ, c.vals[1]), at + 5)
    BY <1>2, <1>4, <1>5, <1>7, <1>9, <1>10, AtWithin, Zenon
<1> QED
    BY <1>9, <1>11, <1>12, <1>13, <1>14, Zenon DEF ColumnStands, file, c, p, n, at

\* What parseSchema knows of a column, and of the first i of them.
ColumnRead(t, s, q, i) ==
    LET c == t.cols[i] IN
    [info |-> c.flag + c.typ, typ |-> c.typ, name |-> t.strings[c.name],
     pos |-> IF Default(c) THEN 32 + s[i - 1] + 5 ELSE q[i - 1]]

ColumnsRead(t, s, q, i) ==
    [ok |-> TRUE, at |-> 32 + s[i], off |-> q[i], cols |-> [k \in 1..i |-> ColumnRead(t, s, q, k)]]

\* A list with one element more.
LEMMA OneMoreColumn ==
    ASSUME NEW f, NEW n \in Nat, NEW x
    PROVE  Append([k \in 1..n |-> f[k]], x) = [k \in 1..n + 1 |-> IF k = n + 1 THEN x ELSE f[k]]
    OBVIOUS

\* One turn of parseSchema reads one column.
LEMMA ColumnComes ==
    ASSUME NEW t \in Tables, NEW s, SchemaLies(t, s), NEW q, Sums(Len(t.cols), RowRooms(t), q),
           NEW i \in 1..Len(t.cols)
    PROVE  schemaColumn(TableFile(t), HeaderOf(t), ColumnsRead(t, s, q, i - 1)) = ColumnsRead(t, s, q, i)
<1> DEFINE file == TableFile(t)
<1> DEFINE c == t.cols[i]
<1> DEFINE r == ColumnsRead(t, s, q, i - 1)
<1> DEFINE at == 32 + s[i - 1]
<1> DEFINE info == ByteAt(file, at)
<1> DEFINE name == StringsAt(t) + Spelled(file, at + 1, 4)
<1> DEFINE size == columnValueSize(c.typ)
<1>1. IsColumn(t, c)
    BY TableType, Zenon
<1>2. ColumnStands(t, c, at)
    BY ColumnLies, Zenon
<1>3. r.ok = TRUE /\ r.at = at /\ r.off = q[i - 1] /\ r.cols = [k \in 1..i - 1 |-> ColumnRead(t, s, q, k)]
    BY DEF ColumnsRead
<1>4. HeaderOf(t).strings = StringsAt(t)
    BY DEF HeaderOf
<1> HIDE DEF c, r
<1>5. info = c.flag + c.typ /\ Has(file, at, 5)
    BY <1>2, Zenon DEF ColumnStands
<1>6. /\ (info % 16) = c.typ /\ Flag(info) = c.flag
      /\ HasDefault(info) <=> Default(c)
      /\ FromRow(info) <=> c.flag = 80
    BY <1>1, <1>5, InfoBits DEF IsColumn, Default
<1>7. name = TextAt(t, c.name) /\ c.name \in 1..Len(t.strings)
    BY <1>1, <1>2, Zenon DEF ColumnStands, ReadsAs, TextAt, IsColumn
<1>8. StringAt(file, name) = t.strings[c.name] /\ Zeros(file, name) # {}
    BY <1>7, StringsRead, Zenon DEF StringIsRead
<1>9. Default(c) => Has(file, at + 5, size)
    <2> SUFFICES ASSUME Default(c) PROVE Has(file, at + 5, size)
        OBVIOUS
    <2>1. 1 \in 1..Len(c.vals) /\ c.typ \in Types
        BY <1>1 DEF IsColumn
    <2>2. c.vals[1] \in Int /\ Held(t, c.typ, c.vals[1])
        BY <1>1, <2>1, Zenon DEF IsColumn
    <2>3. at + 5 \in Nat
        <3>1. at \in Nat
            BY <1>2, Zenon DEF ColumnStands
        <3> QED
            BY <3>1
    <2>4. At(file, Encoded(t, c.typ, c.vals[1]), at + 5)
        BY <1>2, Zenon DEF ColumnStands
    <2>5. ValueComes(t, c.typ, c.vals[1], at + 5)
        BY <2>1, <2>2, <2>3, <2>4, ValueRead, Zenon
    <2> QED
        BY <2>5, Zenon DEF ValueComes, Readable
<1>10. size > 0 /\ c.flag \in {16, 48, 80, 112}
    BY <1>1 DEF IsColumn, columnValueSize, Types
<1> HIDE DEF file, at, info, name, size
<1> DEFINE col == [info |-> info, typ |-> c.typ, name |-> StringAt(file, name),
                   pos |-> IF Default(c) THEN at + 5 ELSE q[i - 1]]
<1> DEFINE ok == /\ r.ok /\ Has(file, r.at, 5) /\ Zeros(file, name) # {}
                 /\ Flag(info) \in {16, 48, 80, 112} /\ size > 0
                 /\ HasDefault(info) => Has(file, r.at + 5, size)
<1>11. schemaColumn(file, HeaderOf(t), r) =
          [ok |-> ok, at |-> at + 5 + (IF Default(c) THEN size ELSE 0),
           off |-> q[i - 1] + (IF c.flag = 80 THEN size ELSE 0), cols |-> Append(r.cols, col)]
    <2> DEFINE h == HeaderOf(t)
    <2> DEFINE i2 == ByteAt(file, r.at)
    <2> DEFINE n2 == h.strings + Spelled(file, r.at + 1, 4)
    <2> DEFINE s2 == columnValueSize(i2 % 16)
    <2> DEFINE o2 == /\ r.ok /\ Has(file, r.at, 5) /\ Zeros(file, n2) # {}
                     /\ Flag(i2) \in {16, 48, 80, 112} /\ s2 > 0
                     /\ HasDefault(i2) => Has(file, r.at + 5, s2)
    <2>1. schemaColumn(file, h, r) =
              [ok |-> o2, at |-> r.at + 5 + (IF HasDefault(i2) THEN s2 ELSE 0),
               off |-> r.off + (IF FromRow(i2) THEN s2 ELSE 0),
               cols |-> Append(r.cols, [info |-> i2, typ |-> i2 % 16, name |-> StringAt(file, n2),
                                        pos |-> IF HasDefault(i2) THEN r.at + 5 ELSE r.off])]
        BY Zenon DEF schemaColumn
    <2>2. i2 = info /\ (i2 % 16) = c.typ
        BY <1>3, <1>6, Zenon DEF info
    <2>3. s2 = size
        BY <2>2, Zenon DEF size
    <2>4. n2 = name
        BY <1>3, <1>4, Zenon DEF name
    <2> HIDE DEF i2, n2, s2, h
    <2>5. o2 = ok
        BY <2>2, <2>3, <2>4, Zenon
    <2> HIDE DEF o2, ok
    <2>6. (IF HasDefault(i2) THEN s2 ELSE 0) = (IF Default(c) THEN size ELSE 0)
        BY <1>6, <2>2, <2>3, Zenon
    <2>7. (IF FromRow(i2) THEN s2 ELSE 0) = (IF c.flag = 80 THEN size ELSE 0)
        BY <1>6, <2>2, <2>3, Zenon
    <2>8. (IF HasDefault(i2) THEN r.at + 5 ELSE r.off) = (IF Default(c) THEN at + 5 ELSE q[i - 1])
        BY <1>3, <1>6, <2>2, Zenon
    <2>9. [info |-> i2, typ |-> i2 % 16, name |-> StringAt(file, n2),
           pos |-> IF HasDefault(i2) THEN r.at + 5 ELSE r.off] = col
        BY <2>2, <2>4, <2>8, Zenon
    <2> QED
        BY <1>3, <2>1, <2>5, <2>6, <2>7, <2>9, Zenon DEF h
<1>12. ok = TRUE
    <2>1. ok
        BY <1>3, <1>5, <1>6, <1>8, <1>9, <1>10, Zenon
    <2> QED
        BY <2>1, Zenon
<1>13. col = ColumnRead(t, s, q, i)
    BY <1>5, <1>8 DEF ColumnRead, at, c
<1> HIDE DEF ok, col
<1>14. at + 5 + (IF Default(c) THEN size ELSE 0) = 32 + s[i]
    <2>1. s[i] = s[i - 1] + SchemaRoom(c)
        <3>1. s[i] = s[i - 1] + SchemaRooms(t)[i]
            BY Zenon DEF SchemaLies, Sums
        <3> QED
            BY <3>1 DEF SchemaRooms, c
    <2>2. s[i - 1] \in Nat
        <3>1. s \in [0..Len(t.cols) -> Nat] /\ i - 1 \in 0..Len(t.cols)
            BY DEF SchemaLies, Sums
        <3> QED
            BY <3>1
    <2> DEFINE k == IF Default(c) THEN size ELSE 0
    <2>3. SchemaRoom(c) = 5 + k /\ k \in Nat
        BY <1>1 DEF SchemaRoom, size, IsColumn, columnValueSize, Types
    <2> HIDE DEF k
    <2>4. at + 5 + k = 32 + s[i]
        BY <2>1, <2>2, <2>3 DEF at
    <2> QED
        BY <2>4 DEF k
<1>15. q[i - 1] + (IF c.flag = 80 THEN size ELSE 0) = q[i]
    <2>1. q[i] = q[i - 1] + RowRooms(t)[i]
        BY Zenon DEF Sums
    <2>2. RowRooms(t)[i] = IF c.flag = 80 THEN size ELSE 0
        BY DEF RowRooms, RowRoom, c, size
    <2> QED
        BY <2>1, <2>2, Zenon
<1>16. Append(r.cols, col) = [k \in 1..i |-> ColumnRead(t, s, q, k)]
    <2> DEFINE f == [k \in 1..i |-> ColumnRead(t, s, q, k)]
    <2>1. \A k \in 1..i : f[k] = ColumnRead(t, s, q, k)
        OBVIOUS
    <2>2. r.cols = [k \in 1..i - 1 |-> f[k]]
        BY <1>3, <2>1
    <2>3. f = [k \in 1..i |-> f[k]] /\ col = f[i] /\ i - 1 \in Nat
        BY <1>13
    <2> HIDE DEF f
    <2>4. Append(r.cols, col) = [k \in 1..(i - 1) + 1 |-> IF k = (i - 1) + 1 THEN col ELSE f[k]]
        BY <2>2, <2>3, OneMoreColumn
    <2>5. [k \in 1..(i - 1) + 1 |-> IF k = (i - 1) + 1 THEN col ELSE f[k]] = [k \in 1..i |-> f[k]]
        BY <2>3
    <2> QED
        BY <2>3, <2>4, <2>5 DEF f
<1>17. schemaColumn(file, HeaderOf(t), r) =
          [ok |-> TRUE, at |-> 32 + s[i], off |-> q[i], cols |-> [k \in 1..i |-> ColumnRead(t, s, q, k)]]
    BY <1>11, <1>12, <1>14, <1>15, <1>16, Zenon
<1> QED
    BY <1>17, Zenon DEF ColumnsRead, file, r


\* The columns come out of the schema.
LEMMA SchemaRead ==
    ASSUME NEW t \in Tables, NEW s, SchemaLies(t, s), NEW q, Sums(Len(t.cols), RowRooms(t), q)
    PROVE  parseSchema(TableFile(t)) = ColumnsRead(t, s, q, Len(t.cols))
<1> DEFINE file == TableFile(t)
<1> DEFINE N == Len(t.cols)
<1> DEFINE h == HeaderOf(t)
<1> DEFINE z == [ok |-> TRUE, at |-> 32, off |-> 0, cols |-> << >>]
<1> DEFINE v == CHOOSE w : w = [i \in 0..N |-> IF i = 0 THEN z ELSE schemaColumn(file, h, w[i - 1])]
<1> DEFINE g == [i \in 0..N |-> ColumnsRead(t, s, q, i)]
<1>1. N \in Nat /\ h.fields = N
    <2>1. N \in Nat
        BY TableType
    <2> QED
        BY <2>1 DEF HeaderOf
<1>2. parseSchema(file) = v[N]
    <2>1. UtfHeader(file) = h
        BY HeaderRead, Zenon
    <2> DEFINE k == UtfHeader(file)
    <2>2. parseSchema(file) =
              (CHOOSE w : w = [i \in 0..k.fields |-> IF i = 0 THEN z ELSE schemaColumn(file, k, w[i - 1])])[k.fields]
        BY Zenon DEF parseSchema
    <2>3. k = h /\ h.fields = N
        BY <1>1, <2>1, Zenon
    <2> HIDE DEF k, h, N, z, file
    <2>4. (CHOOSE w : w = [i \in 0..k.fields |-> IF i = 0 THEN z ELSE schemaColumn(file, k, w[i - 1])])[k.fields]
            = (CHOOSE w : w = [i \in 0..N |-> IF i = 0 THEN z ELSE schemaColumn(file, h, w[i - 1])])[N]
        BY <2>3
    <2> QED
        BY <2>2, <2>4, Zenon
<1>3. ColumnsRead(t, s, q, 0) = z
    <2>1. s[0] = 0 /\ q[0] = 0
        BY Zenon DEF SchemaLies, Sums
    <2>2. [k \in 1..0 |-> ColumnRead(t, s, q, k)] = << >> /\ 32 + 0 = 32
        OBVIOUS
    <2>3. ColumnsRead(t, s, q, 0) =
              [ok |-> TRUE, at |-> 32 + s[0], off |-> q[0], cols |-> [k \in 1..0 |-> ColumnRead(t, s, q, k)]]
        BY Zenon DEF ColumnsRead
    <2> QED
        BY <2>1, <2>2, <2>3, Zenon
<1>4. \A i \in 0..N : i # 0 => /\ i \in 1..N /\ i - 1 \in 0..N
                               /\ schemaColumn(file, h, ColumnsRead(t, s, q, i - 1)) = ColumnsRead(t, s, q, i)
    <2> TAKE i \in 0..N
    <2> HAVE i # 0
    <2>1. i \in 1..N /\ i - 1 \in 0..N
        BY <1>1
    <2> QED
        BY <2>1, ColumnComes, Zenon
<1> HIDE DEF N, h, z, file
<1>5. \A i \in 0..N : g[i] = ColumnsRead(t, s, q, i)
    OBVIOUS
<1>6. g = [i \in 0..N |-> IF i = 0 THEN z ELSE schemaColumn(file, h, g[i - 1])]
    <2>1. \A i \in 0..N : ColumnsRead(t, s, q, i) = IF i = 0 THEN z ELSE schemaColumn(file, h, g[i - 1])
        BY <1>3, <1>4, <1>5, Zenon
    <2> QED
        BY <2>1, Zenon
<1> HIDE DEF g
<1>7. v = [i \in 0..N |-> IF i = 0 THEN z ELSE schemaColumn(file, h, v[i - 1])]
    BY <1>6, Zenon
<1> HIDE DEF v
<1>8. Alike(v, g, N)
    <2>1. 0 \in 0..N /\ \A i \in 1..N : i \in 0..N /\ i # 0
        BY <1>1
    <2>2. \A i \in 0..N : v[i] = IF i = 0 THEN z ELSE schemaColumn(file, h, v[i - 1])
        BY <1>7, Zenon
    <2>3. \A i \in 0..N : g[i] = IF i = 0 THEN z ELSE schemaColumn(file, h, g[i - 1])
        BY <1>6, Zenon
    <2>4. v[0] = z /\ g[0] = z
        BY <2>1, <2>2, <2>3, Zenon
    <2>5. ASSUME NEW i \in 1..N, v[i - 1] = g[i - 1] PROVE v[i] = g[i]
        <3>1. v[i] = schemaColumn(file, h, v[i - 1])
            BY <2>1, <2>2, Zenon
        <3>2. g[i] = schemaColumn(file, h, g[i - 1])
            BY <2>1, <2>3, Zenon
        <3> QED
            BY <2>5, <3>1, <3>2, Zenon
    <2> QED
        BY <2>4, <2>5, Zenon DEF Alike
<1>9. Same(v, g, N)
    BY <1>1, <1>8, SameSteps, Zenon
<1>10. v[N] = g[N] /\ N \in 0..N
    <2>1. N \in 0..N
        BY <1>1
    <2> QED
        BY <1>9, <2>1, Zenon DEF Same
<1>11. parseSchema(file) = ColumnsRead(t, s, q, N)
    BY <1>2, <1>5, <1>10, Zenon
<1> QED
    BY <1>11, Zenon DEF N, file

-----------------------------------------------------------------------------
(* The rows of a table.                                                     *)

\* What one column gives to row r.
FieldComes(t, s, q, i, r) ==
    LET c == ColumnRead(t, s, q, i)
        p == FieldAt(HeaderOf(t), c, r - 1)
    IN  /\ ValueAt(TableFile(t), c.typ, p, StringsAt(t), BlobsAt(t)) = Value(t, t.cols[i], r)
        /\ Readable(TableFile(t), c.typ, p, StringsAt(t), BlobsAt(t))

DefaultComes(t, s, q, i) ==
    Readable(TableFile(t), t.cols[i].typ, ColumnRead(t, s, q, i).pos, StringsAt(t), BlobsAt(t))

ColumnKnown(t, s, q, i) ==
    LET c == ColumnRead(t, s, q, i)
        d == t.cols[i]
    IN  /\ c.typ = d.typ /\ c.name = t.strings[d.name]
        /\ c.pos = IF Default(d) THEN 32 + s[i - 1] + 5 ELSE q[i - 1]
        /\ HasDefault(c.info) <=> Default(d)
        /\ HasRow(c.info) <=> d.flag \in {80, 112}
        /\ FromRow(c.info) <=> d.flag = 80

\* What the reader keeps of a column is what it was.
LEMMA ColumnIs == ASSUME NEW t \in Tables, NEW s, NEW q, NEW i \in 1..Len(t.cols) PROVE ColumnKnown(t, s, q, i)
<1> DEFINE c == ColumnRead(t, s, q, i)
<1> DEFINE d == t.cols[i]
<1>1. IsColumn(t, d)
    BY TableType, Zenon
<1>2. /\ c.info = d.flag + d.typ /\ c.typ = d.typ /\ c.name = t.strings[d.name]
      /\ c.pos = IF Default(d) THEN 32 + s[i - 1] + 5 ELSE q[i - 1]
    BY DEF ColumnRead
<1>3. d.flag \in {16, 48, 80, 112} /\ d.typ \in Types
    BY <1>1, Zenon DEF IsColumn
<1> HIDE DEF c, d
<1>4. /\ HasDefault(c.info) <=> d.flag \in {48, 112}
      /\ HasRow(c.info) <=> d.flag \in {80, 112}
      /\ FromRow(c.info) <=> d.flag = 80
    BY <1>2, <1>3, InfoBits
<1> QED
    BY <1>2, <1>4, Zenon DEF ColumnKnown, Default, c, d

\* A value for all rows stands in the schema.
LEMMA FixedComes ==
    ASSUME NEW t \in Tables, NEW s, SchemaLies(t, s), NEW q, NEW i \in 1..Len(t.cols), Default(t.cols[i])
    PROVE  DefaultComes(t, s, q, i) /\ \A r \in Nat : FieldComes(t, s, q, i, r)
<1> DEFINE c == ColumnRead(t, s, q, i)
<1> DEFINE d == t.cols[i]
<1> DEFINE p == 32 + s[i - 1] + 5
<1>1. IsColumn(t, d) /\ Default(d)
    BY TableType, Zenon
<1>2. /\ c.typ = d.typ /\ c.pos = p
      /\ FromRow(c.info) <=> d.flag = 80
    <2>1. ColumnKnown(t, s, q, i)
        BY ColumnIs, Zenon
    <2>2. Default(d)
        BY <1>1
    <2> HIDE DEF p
    <2>3. c.pos = IF Default(d) THEN p ELSE q[i - 1]
        BY <2>1, Zenon DEF ColumnKnown, p
    <2> QED
        BY <2>1, <2>2, <2>3, Zenon DEF ColumnKnown
<1>3. d.flag # 80
    BY <1>1 DEF Default
<1>4. ColumnStands(t, d, 32 + s[i - 1])
    BY ColumnLies, Zenon
<1>5. At(TableFile(t), Encoded(t, d.typ, d.vals[1]), p) /\ 32 + s[i - 1] \in Nat
    BY <1>1, <1>4, Zenon DEF ColumnStands
<1>6. p \in Nat /\ p + 0 = p
    BY <1>5
<1> HIDE DEF c, d, p
<1>7. 1 \in 1..Len(d.vals) /\ d.typ \in Types
    BY <1>1 DEF IsColumn
<1>8. d.vals[1] \in Int /\ Held(t, d.typ, d.vals[1])
    BY <1>1, <1>7, Zenon DEF IsColumn
<1>9. ValueComes(t, d.typ, d.vals[1], p)
    BY <1>5, <1>6, <1>7, <1>8, ValueRead, Zenon
<1>10. DefaultComes(t, s, q, i)
    BY <1>2, <1>9, Zenon DEF DefaultComes, ValueComes, c, d
<1>11. ASSUME NEW r \in Nat PROVE FieldComes(t, s, q, i, r)
    <2>1. FieldAt(HeaderOf(t), c, r - 1) = p
        <3>1. FieldAt(HeaderOf(t), c, r - 1) = c.pos + 0
            BY <1>2, <1>3, Zenon DEF FieldAt
        <3> QED
            BY <1>2, <1>6, <3>1, Zenon
    <2>2. Value(t, d, r) = Stored(t, d.typ, d.vals[1])
        BY <1>3, Zenon DEF Value, Stored
    <2> QED
        BY <1>2, <1>9, <2>1, <2>2, Zenon DEF FieldComes, ValueComes, c, d
<1> QED
    BY <1>10, <1>11

\* A value of a row stands there.
LEMMA RowComes ==
    ASSUME NEW t \in Tables, NEW s, NEW q, Sums(Len(t.cols), RowRooms(t), q),
           NEW r \in 1..t.rows, RowLies(t, r, q), NEW i \in 1..Len(t.cols), t.cols[i].flag = 80
    PROVE  FieldComes(t, s, q, i, r)
<1> DEFINE c == ColumnRead(t, s, q, i)
<1> DEFINE d == t.cols[i]
<1> DEFINE l == Len(Row(t, 1))
<1> DEFINE file == TableFile(t)
<1> DEFINE x == RowAt(t)
<1> DEFINE y == (r - 1) * l
<1> DEFINE p == q[i - 1]
<1> DEFINE e == Encoded(t, d.typ, d.vals[r])
<1>1. IsColumn(t, d) /\ d.flag = 80 /\ t.rows \in Nat
    BY TableType, Zenon
<1>2. /\ c.typ = d.typ
      /\ c.pos = IF Default(d) THEN 32 + s[i - 1] + 5 ELSE q[i - 1]
      /\ FromRow(c.info) <=> d.flag = 80
    <2>1. ColumnKnown(t, s, q, i)
        BY ColumnIs, Zenon
    <2> QED
        BY <2>1, Zenon DEF ColumnKnown
<1>3. c.pos = p
    BY <1>1, <1>2 DEF Default
<1>4. /\ file \in Seq(Byte) /\ RowsOf(t) \in Seq(Byte) /\ Row(t, r) \in Seq(Byte)
      /\ At(file, RowsOf(t), x) /\ At(RowsOf(t), Row(t, r), y) /\ x \in Nat /\ y \in Nat /\ l \in Nat
    BY TableLaid, TableRooms, RowsStand, Zenon DEF TableStands
<1>5. p \in Nat
    <2>1. q \in [0..Len(t.cols) -> Nat] /\ i - 1 \in 0..Len(t.cols)
        BY DEF Sums
    <2> QED
        BY <2>1
<1>6. FieldOf(t, d, r) \in Seq(Byte) /\ At(Row(t, r), FieldOf(t, d, r), p)
    BY Zenon DEF RowLies
<1>7. FieldOf(t, d, r) = e
    BY <1>1, Zenon DEF FieldOf
<1>8. r \in 1..Len(d.vals) /\ d.typ \in Types
    BY <1>1 DEF IsColumn
<1>9. d.vals[r] \in Int /\ Held(t, d.typ, d.vals[r])
    BY <1>1, <1>8, Zenon DEF IsColumn
<1>10. FieldAt(HeaderOf(t), c, r - 1) = p + (x + y)
    <2>1. HeaderOf(t).row = x /\ HeaderOf(t).rowSize = l
        BY DEF HeaderOf
    <2>2. FieldAt(HeaderOf(t), c, r - 1) = c.pos + (HeaderOf(t).row + (r - 1) * HeaderOf(t).rowSize)
        BY <1>1, <1>2, Zenon DEF FieldAt
    <2> QED
        BY <1>3, <2>1, <2>2, Zenon
<1>11. Value(t, d, r) = Stored(t, d.typ, d.vals[r])
    BY <1>1, Zenon DEF Value, Stored
<1>12. e \in Seq(Byte) /\ At(Row(t, r), e, p)
    BY <1>6, <1>7, Zenon
<1> HIDE DEF c, d, l, file, x, y, p, e
<1>13. x + y \in Nat /\ (x + y) + p = p + (x + y) /\ p + (x + y) \in Nat
    BY <1>4, <1>5
<1>14. At(file, Row(t, r), x + y)
    BY <1>4, AtWithin, Zenon
<1>15. At(file, e, (x + y) + p)
    BY <1>4, <1>5, <1>12, <1>13, <1>14, AtWithin, Zenon
<1>16. At(file, e, p + (x + y))
    BY <1>13, <1>15, Zenon
<1>17. ValueComes(t, d.typ, d.vals[r], p + (x + y))
    BY <1>8, <1>9, <1>13, <1>16, ValueRead, Zenon DEF e, file
<1> QED
    BY <1>2, <1>10, <1>11, <1>17, Zenon DEF FieldComes, ValueComes, c, d


\* No two columns with values have one name.
Valued(t)    == {i \in 1..Len(t.cols) : t.cols[i].flag # 16}
ColumnNameOf(t, i) == t.strings[t.cols[i].name]

\* A name picks its column.
LEMMA NamesDiffer ==
    ASSUME NEW t \in Tables, NEW i \in Valued(t), NEW k \in Valued(t), ColumnNameOf(t, i) = ColumnNameOf(t, k)
    PROVE  i = k
<1>1. TableFits(t)
    BY Zenon DEF Tables
<1>2. \A a, b \in {j \in DOMAIN t.cols : t.cols[j].flag # 16} :
          t.strings[t.cols[a].name] = t.strings[t.cols[b].name] => a = b
    BY <1>1 DEF TableFits
<1>3. DOMAIN t.cols = 1..Len(t.cols)
    BY TableType
<1> QED
    BY <1>2, <1>3, Zenon DEF Valued, ColumnNameOf

\* What the reader has of a table before it reads the rows.
Shape(t, s, q) ==
    /\ SchemaLies(t, s) /\ Sums(Len(t.cols), RowRooms(t), q)
    /\ \A r \in 1..t.rows : RowLies(t, r, q)

\* Every table has such places.
LEMMA Shaped == ASSUME NEW t \in Tables PROVE \E s, q : Shape(t, s, q)
<1>1. PICK s : SchemaLies(t, s)
    BY SchemaLaid, Zenon
<1>2. PICK q : /\ Sums(Len(t.cols), RowRooms(t), q)
               /\ \A r \in Nat : r = 1 \/ r \in 1..t.rows => RowLies(t, r, q)
    BY RowsLaid, Zenon
<1>3. \A r \in 1..t.rows : r \in Nat
    OBVIOUS
<1> QED
    BY <1>1, <1>2, <1>3, Zenon DEF Shape

Columns(t, s, q) == [k \in 1..Len(t.cols) |-> ColumnRead(t, s, q, k)]

\* readRows reads every value to its end.
LEMMA RowsAreReadable ==
    ASSUME NEW t \in Tables, NEW s, NEW q, Shape(t, s, q)
    PROVE  RowsReadable(TableFile(t), Columns(t, s, q))
<1> DEFINE file == TableFile(t)
<1> DEFINE cols == Columns(t, s, q)
<1> DEFINE h == HeaderOf(t)
<1>1. DOMAIN cols = 1..Len(t.cols) /\ \A i \in 1..Len(t.cols) : cols[i] = ColumnRead(t, s, q, i)
    BY DEF Columns
<1>2. UtfHeader(file) = h /\ h.rows = t.rows /\ h.strings = StringsAt(t) /\ h.blobs = BlobsAt(t)
    <2>1. UtfHeader(file) = h
        BY HeaderRead, Zenon
    <2> QED
        BY <2>1 DEF HeaderOf
<1> HIDE DEF cols, h, file
<1>3. ASSUME NEW i \in 1..Len(t.cols)
      PROVE  /\ FromRow(cols[i].info) => \A n \in 0..t.rows - 1 :
                    Readable(file, cols[i].typ, FieldAt(h, cols[i], n), StringsAt(t), BlobsAt(t))
             /\ HasDefault(cols[i].info) =>
                    Readable(file, cols[i].typ, cols[i].pos, StringsAt(t), BlobsAt(t))
    <2> DEFINE c == ColumnRead(t, s, q, i)
    <2>1. cols[i] = c /\ ColumnKnown(t, s, q, i)
        BY <1>1, ColumnIs, Zenon
    <2>2. /\ c.typ = t.cols[i].typ
          /\ HasDefault(c.info) <=> Default(t.cols[i])
          /\ FromRow(c.info) <=> t.cols[i].flag = 80
        BY <2>1, Zenon DEF ColumnKnown
    <2> HIDE DEF c
    <2>3. ASSUME FromRow(c.info), NEW n \in 0..t.rows - 1
          PROVE  Readable(file, c.typ, FieldAt(h, c, n), StringsAt(t), BlobsAt(t))
        <3>1. n + 1 \in 1..t.rows /\ (n + 1) - 1 = n
            BY TableType
        <3>2. FieldComes(t, s, q, i, n + 1)
            BY <2>2, <2>3, <3>1, RowComes, Zenon DEF Shape
        <3> QED
            BY <3>1, <3>2, Zenon DEF FieldComes, c, h, file
    <2>4. ASSUME HasDefault(c.info)
          PROVE  Readable(file, c.typ, c.pos, StringsAt(t), BlobsAt(t))
        <3>1. DefaultComes(t, s, q, i)
            BY <2>2, <2>4, FixedComes, Zenon DEF Shape
        <3> QED
            BY <2>2, <3>1, Zenon DEF DefaultComes, c, file
    <2> QED
        BY <2>1, <2>3, <2>4, Zenon
<1> DEFINE g == UtfHeader(file)
<1>4. /\ g = h /\ g.rows = t.rows /\ g.strings = StringsAt(t) /\ g.blobs = BlobsAt(t)
    BY <1>2, Zenon
<1> HIDE DEF g
<1>5. ASSUME NEW i \in DOMAIN cols
      PROVE  /\ FromRow(cols[i].info) => \A n \in 0..g.rows - 1 :
                    Readable(file, cols[i].typ, FieldAt(g, cols[i], n), g.strings, g.blobs)
             /\ HasDefault(cols[i].info) =>
                    Readable(file, cols[i].typ, cols[i].pos, g.strings, g.blobs)
    BY <1>1, <1>3, <1>4, Zenon
<1>6. RowsReadable(file, cols)
    BY <1>5, Zenon DEF RowsReadable, g
<1> QED
    BY <1>6 DEF file, cols

\* A row has the values of the columns that have any.
RowIs(t, r, row) ==
    /\ DOMAIN row = {ColumnNameOf(t, i) : i \in Valued(t)}
    /\ \A i \in Valued(t) : row[ColumnNameOf(t, i)] = Value(t, t.cols[i], r)

\* And makes the row of them.
LEMMA RowRead ==
    ASSUME NEW t \in Tables, NEW s, NEW q, Shape(t, s, q), NEW r \in 1..t.rows
    PROVE  RowIs(t, r, readRow(TableFile(t), Columns(t, s, q), r - 1))
<1> DEFINE file == TableFile(t)
<1> DEFINE cols == Columns(t, s, q)
<1> DEFINE N == Len(t.cols)
<1> DEFINE h == UtfHeader(file)
<1>1. DOMAIN cols = 1..N /\ N \in Nat /\ \A i \in 1..N : cols[i] = ColumnRead(t, s, q, i)
    BY TableType DEF Columns
<1>2. h = HeaderOf(t) /\ h.strings = StringsAt(t) /\ h.blobs = BlobsAt(t)
    <2>1. h = HeaderOf(t)
        BY HeaderRead, Zenon
    <2> HIDE DEF h
    <2> QED
        BY <2>1 DEF HeaderOf
<1> HIDE DEF cols, file, N, h
<1>3. ASSUME NEW i \in 1..N
      PROVE  /\ cols[i].typ = t.cols[i].typ /\ cols[i].name = ColumnNameOf(t, i)
             /\ HasDefault(cols[i].info) <=> t.cols[i].flag \in {48, 112}
             /\ HasRow(cols[i].info) <=> t.cols[i].flag \in {80, 112}
             /\ FromRow(cols[i].info) <=> t.cols[i].flag = 80
             /\ t.cols[i].flag \in {16, 48, 80, 112}
    <2>1. ColumnKnown(t, s, q, i) /\ IsColumn(t, t.cols[i])
        BY ColumnIs, TableType, Zenon DEF N
    <2> QED
        BY <1>1, <2>1, Zenon DEF ColumnKnown, IsColumn, ColumnNameOf, Default
<1>4. \A i \in 1..N : i \in Valued(t) <=> t.cols[i].flag # 16
    BY Zenon DEF Valued, N
<1>5. Valued(t) \subseteq 1..N
    BY Zenon DEF Valued, N
<1> DEFINE perRow(name) == {i \in DOMAIN cols : cols[i].name = name /\ FromRow(cols[i].info)}
<1> DEFINE fixed(name) == {i \in DOMAIN cols : cols[i].name = name /\ HasDefault(cols[i].info)}
<1> DEFINE named == {cols[i].name : i \in {k \in DOMAIN cols : HasRow(cols[k].info)
                                                               \/ HasDefault(cols[k].info)}}
<1> DEFINE best(name) == Max(IF perRow(name) # {} THEN perRow(name) ELSE fixed(name))
<1> DEFINE given(c) == ValueAt(file, c.typ, FieldAt(h, c, r - 1), h.strings, h.blobs)
<1> DEFINE row == [name \in named |-> given(cols[best(name)])]
<1>6. readRow(file, cols, r - 1) = row
    BY Zenon DEF readRow, h
<1>7. named = {ColumnNameOf(t, i) : i \in Valued(t)}
    <2>1. {k \in DOMAIN cols : HasRow(cols[k].info) \/ HasDefault(cols[k].info)} = Valued(t)
        <3>1. ASSUME NEW k \in 1..N
              PROVE  HasRow(cols[k].info) \/ HasDefault(cols[k].info) <=> k \in Valued(t)
            <4>1. HasRow(cols[k].info) \/ HasDefault(cols[k].info) <=> t.cols[k].flag \in {48, 80, 112}
                BY <1>3, Zenon
            <4>2. \A f \in {16, 48, 80, 112} : f \in {48, 80, 112} <=> f # 16
                OBVIOUS
            <4> QED
                BY <1>3, <1>4, <4>1, <4>2, Zenon
        <3> QED
            BY <1>1, <1>5, <3>1
    <2>2. \A i \in Valued(t) : cols[i].name = ColumnNameOf(t, i)
        BY <1>3, <1>5, Zenon
    <2> QED
        BY <2>1, <2>2, Zenon
<1>8. ASSUME NEW i \in Valued(t) PROVE best(ColumnNameOf(t, i)) = i
    <2> DEFINE a == ColumnNameOf(t, i)
    <2>1. ASSUME NEW k \in Valued(t), cols[k].name = a PROVE k = i
        <3>1. ColumnNameOf(t, k) = ColumnNameOf(t, i)
            BY <1>3, <1>5, <2>1, Zenon
        <3> QED
            BY <3>1, NamesDiffer, Zenon
    <2>2. i \in 1..N /\ cols[i].name = a
        BY <1>3, <1>5, Zenon
    <2>3. \A k \in 1..N : FromRow(cols[k].info) \/ HasDefault(cols[k].info) => k \in Valued(t)
        <3> TAKE k \in 1..N
        <3>1. t.cols[k].flag \in {48, 80, 112} => t.cols[k].flag # 16
            OBVIOUS
        <3>2. FromRow(cols[k].info) \/ HasDefault(cols[k].info) => t.cols[k].flag \in {48, 80, 112}
            BY <1>3, Zenon
        <3> QED
            BY <1>4, <3>1, <3>2, Zenon
    <2>4. Max({i}) = i
        <3>1. i \in Int
            BY <2>2, <1>1
        <3> QED
            BY <3>1 DEF Max
    <2> HIDE DEF a
    <2>5. CASE t.cols[i].flag = 80
        <3>1. FromRow(cols[i].info)
            BY <1>3, <2>2, <2>5, Zenon
        <3>2. perRow(a) = {i}
            BY <1>1, <2>1, <2>2, <2>3, <3>1
        <3> QED
            BY <2>4, <3>2, Zenon DEF a
    <2>6. CASE t.cols[i].flag # 80
        <3>1. HasDefault(cols[i].info) /\ ~FromRow(cols[i].info)
            <4>1. t.cols[i].flag # 16
                BY Zenon DEF Valued
            <4>2. \A f \in {16, 48, 80, 112} : f # 16 /\ f # 80 => f \in {48, 112}
                OBVIOUS
            <4> QED
                BY <1>3, <2>2, <2>6, <4>1, <4>2, Zenon
        <3>2. perRow(a) = {}
            BY <1>1, <2>1, <2>2, <2>3, <3>1
        <3>3. fixed(a) = {i}
            BY <1>1, <2>1, <2>2, <2>3, <3>1
        <3> QED
            BY <2>4, <3>2, <3>3, Zenon DEF a
    <2> QED
        BY <2>5, <2>6
<1>9. ASSUME NEW i \in Valued(t) PROVE given(cols[i]) = Value(t, t.cols[i], r)
    <2>1. i \in 1..N /\ t.cols[i].flag # 16
        BY <1>4, <1>5, Zenon
    <2>2. r \in Nat
        OBVIOUS
    <2>3. FieldComes(t, s, q, i, r)
        <3>1. CASE t.cols[i].flag = 80
            BY <2>1, <3>1, RowComes, ZenonT(40) DEF Shape, N
        <3>2. CASE t.cols[i].flag # 80
            <4>1. \A f \in {16, 48, 80, 112} : f # 16 /\ f # 80 => f \in {48, 112}
                OBVIOUS
            <4>2. Default(t.cols[i])
                BY <1>3, <2>1, <3>2, <4>1, Zenon DEF Default
            <4> QED
                BY <2>1, <2>2, <4>2, FixedComes, Zenon DEF Shape, N
        <3> QED
            BY <3>1, <3>2
    <2>4. cols[i] = ColumnRead(t, s, q, i)
        BY <1>1, <2>1, Zenon
    <2> DEFINE c == ColumnRead(t, s, q, i)
    <2>5. ValueAt(file, c.typ, FieldAt(h, c, r - 1), h.strings, h.blobs) = Value(t, t.cols[i], r)
        BY <1>2, <2>3, Zenon DEF FieldComes, file
    <2> QED
        BY <2>4, <2>5, Zenon
<1> HIDE DEF named, best, given
<1>10. \A i \in Valued(t) : ColumnNameOf(t, i) \in named
    BY <1>7, Zenon
<1>11. DOMAIN row = named /\ \A a \in named : row[a] = given(cols[best(a)])
    BY Zenon
<1> HIDE DEF row
<1>12. RowIs(t, r, row)
    <2>1. ASSUME NEW i \in Valued(t) PROVE row[ColumnNameOf(t, i)] = Value(t, t.cols[i], r)
        <3>1. row[ColumnNameOf(t, i)] = given(cols[best(ColumnNameOf(t, i))])
            BY <1>10, <1>11, Zenon
        <3>2. best(ColumnNameOf(t, i)) = i
            BY <1>8, Zenon
        <3>3. given(cols[i]) = Value(t, t.cols[i], r)
            BY <1>9, Zenon
        <3> QED
            BY <3>1, <3>2, <3>3, Zenon
    <2> QED
        BY <1>7, <1>11, <2>1, Zenon DEF RowIs
<1> QED
    BY <1>6, <1>12, Zenon DEF file, cols

\* The whole table.
LEMMA TableRead ==
    ASSUME NEW t \in Tables
    PROVE  LET read == NewUTFTable(TableFile(t)) IN Len(read) = t.rows /\ \A r \in 1..t.rows : RowIs(t, r, read[r])
<1> DEFINE file == TableFile(t)
<1>1. PICK s, q : Shape(t, s, q)
    BY Shaped, Zenon
<1>2. parseSchema(file) = ColumnsRead(t, s, q, Len(t.cols))
    BY <1>1, SchemaRead, Zenon DEF Shape
<1>3. parseSchema(file).ok = TRUE /\ parseSchema(file).cols = Columns(t, s, q)
    <2> DEFINE p == parseSchema(file)
    <2>1. p = ColumnsRead(t, s, q, Len(t.cols))
        BY <1>2
    <2> HIDE DEF p
    <2>2. p.ok = TRUE /\ p.cols = Columns(t, s, q)
        BY <2>1 DEF ColumnsRead, Columns
    <2> QED
        BY <2>2 DEF p
<1>4. HeaderTaken(file) /\ RowsReadable(file, Columns(t, s, q))
    BY <1>1, HeaderRead, RowsAreReadable, Zenon
<1>5. UtfHeader(file).rows = t.rows
    <2>1. UtfHeader(file) = HeaderOf(t)
        BY HeaderRead, Zenon
    <2> QED
        BY <2>1 DEF HeaderOf
<1> DEFINE read == [n \in 1..t.rows |-> readRow(file, Columns(t, s, q), n - 1)]
<1>6. NewUTFTable(file) = read
    <2>1. HeaderTaken(file) /\ parseSchema(file).ok /\ RowsReadable(file, parseSchema(file).cols)
        BY <1>3, <1>4, Zenon
    <2>2. NewUTFTable(file) = [n \in 1..UtfHeader(file).rows |-> readRow(file, parseSchema(file).cols, n - 1)]
        BY <2>1, Zenon DEF NewUTFTable
    <2> QED
        BY <1>3, <1>5, <2>2, Zenon
<1>7. \A r \in 1..t.rows : RowIs(t, r, readRow(file, Columns(t, s, q), r - 1))
    BY <1>1, RowRead, Zenon
<1>8. t.rows \in Nat
    BY TableType, Zenon
<1>9. \A r \in 1..t.rows : read[r] = readRow(file, Columns(t, s, q), r - 1)
    OBVIOUS
<1>10. Len(read) = t.rows
    BY <1>8
<1> HIDE DEF read
<1>11. \A r \in 1..t.rows : RowIs(t, r, read[r])
    BY <1>7, <1>9, Zenon
<1> QED
    BY <1>6, <1>10, <1>11, Zenon DEF file

\* For every table, of any columns, types, flags and rows, in any order and with strings
\* and data of any length: every row comes out with the values it was laid out from, and
\* with no other column (NewUTFTable).
THEOREM TablesComeOut == Spec => []TablesAreRead
<1>1. AnswerInv => TablesAreRead
    <2> SUFFICES ASSUME AnswerInv, Decoded("table") PROVE TablesAreRead
        BY DEF TablesAreRead
    <2> DEFINE t == job.t
    <2>1. t \in Tables
        <3>1. job \in Jobs /\ job.kind = "table"
            BY DEF AnswerInv, Decoded
        <3> QED
            BY <3>1, TablesAssumption, Zenon
    <2>2. out = NewUTFTable(TableFile(t))
        BY Zenon DEF AnswerInv
    <2>3. Len(out) = t.rows /\ \A r \in 1..t.rows : RowIs(t, r, out[r])
        BY <2>1, <2>2, TableRead, Zenon
    <2>4. DOMAIN t.cols = 1..Len(t.cols)
        BY <2>1, TableType
    <2>5. {i \in DOMAIN t.cols : t.cols[i].flag # 16} = Valued(t)
        BY <2>4, Zenon DEF Valued
    <2> HIDE DEF t
    <2>6. ASSUME NEW r \in 1..t.rows
          PROVE  /\ DOMAIN out[r] = {t.strings[t.cols[i].name] : i \in Valued(t)}
                 /\ \A i \in Valued(t) : out[r][t.strings[t.cols[i].name]] = Value(t, t.cols[i], r)
        <3>1. RowIs(t, r, out[r])
            BY <2>3, Zenon
        <3> QED
            BY <3>1, Zenon DEF RowIs, ColumnNameOf
    <2> DEFINE kept == {i \in DOMAIN t.cols : t.cols[i].flag # 16}
    <2>7. kept = Valued(t)
        BY <2>5
    <2> HIDE DEF kept
    <2>8. /\ Len(out) = t.rows
          /\ \A r \in 1..t.rows :
                /\ DOMAIN out[r] = {t.strings[t.cols[i].name] : i \in kept}
                /\ \A i \in kept : out[r][t.strings[t.cols[i].name]] = Value(t, t.cols[i], r)
        BY <2>3, <2>6, <2>7, Zenon
    <2> QED
        BY <2>8, Zenon DEF TablesAreRead, t, kept
<1> QED
    BY <1>1, AnswersHold, PTL
=============================================================================
