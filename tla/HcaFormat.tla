------------------------------ MODULE HcaFormat ------------------------------
(***************************************************************************)
(* The HCA decoder of internal/cricodecs/hca below its block loop: the bit  *)
(* reader, which headers DecodeHeader takes, and which elements of its      *)
(* fixed arrays DecodeBlock touches for a header it took.                   *)
(* Spectra, gains and the transform are left out: no index depends on them. *)
(***************************************************************************)
EXTENDS Bytes

CONSTANT Word   \* the modulus of uint: 2^64 in the code

ASSUME WordAssumption == Word \in Nat /\ Word > 65536

Uint(n)    == n % Word
MinOf(a, b) == IF a < b THEN a ELSE b

-----------------------------------------------------------------------------
(* The bit reader.  data is a sequence of bytes; the outcome -1 is the panic *)
(* of a shift by a negative count.                                          *)

\* Mutant: the rest of the first byte is not masked away.
Unmasked(data, bit, n) ==
    LET k == ((bit % 8) + n + 7) \div 8 IN
    IF bit + n > 8 * Len(data) \/ n = 0 THEN 0
    ELSE Spelled(data, bit \div 8, k) \div 2 ^ (8 * k - (bit % 8) - n)

\* The bytes bitreaderPeek loads: as many as it needs, if that many bits are left.
PeekBytes(offset, left) ==
    IF left >= 32 /\ offset >= 25 THEN 4
    ELSE IF left >= 24 /\ offset >= 17 THEN 3
    ELSE IF left >= 16 /\ offset >= 9 THEN 2 ELSE 1

bitreaderPeek(data, bit, n) ==
    LET rem   == bit % 8
        k     == PeekBytes(n + rem, 8 * Len(data) - bit)
        shift == 8 * k - rem - n
    IN  IF bit + n > 8 * Len(data) \/ n = 0 THEN 0
        ELSE IF shift < 0 THEN -1
        ELSE (Spelled(data, bit \div 8, k) % 2 ^ (8 * k - rem)) \div 2 ^ shift

-----------------------------------------------------------------------------
(* The header.  A header h is the record of the fields its chunks hold.     *)

V200 == 512

\* decodeCompChunk and decodeDecChunk: the bands, and those of the "dec" chunk.
Total(h) == IF h.chunk = "comp" THEN h.total ELSE h.total + 1
Base(h)  == IF h.chunk = "comp" THEN h.base
            ELSE IF h.stereoType = 0 THEN Total(h) ELSE h.base + 1
Stereo(h) == IF h.chunk = "comp" THEN h.stereo ELSE Uint(Total(h) - Base(h))
PerGroup(h) == IF h.chunk = "comp" THEN h.perGroup ELSE 0
Tracks(h)   == IF h.tracks = 0 THEN 1 ELSE h.tracks

Coded(h) == Base(h) + Stereo(h)

\* headerCeil2.
CeilDiv(a, b) == IF b < 1 THEN 0 ELSE (a + b - 1) \div b

hfrGroupCount(h) == CeilDiv(Uint(Total(h) - Base(h) - Stereo(h)), PerGroup(h))

validateFrameAndResolution(h) ==
    IF h.version <= V200 THEN h.minRes = 1 /\ h.maxRes = 15
                         ELSE h.minRes <= h.maxRes /\ h.maxRes <= 15

validateTracksAndBands(h) ==
    /\ Tracks(h) <= h.channels
    /\ {Total(h), Base(h), Stereo(h), Coded(h), PerGroup(h)} \subseteq 0..128

\* decodeBaseHeader, the chunks, the validations and initializeDecoderState.
Accepted(h) ==
    /\ h.version \in {257, 258, 259, V200, 768}
    /\ h.channels \in 1..16 /\ h.frameCount # 0
    /\ h.loop # << >> => h.loop[1] <= h.loop[2] /\ h.loop[2] < h.frameCount
    /\ h.ath \in {0, 1} /\ h.ciph \in {0, 1, 56}
    /\ validateFrameAndResolution(h)
    /\ validateTracksAndBands(h)
    /\ h.chunk = "comp" => h.msStereo = 0

-----------------------------------------------------------------------------
(* initChannels.                                                            *)

\* Of the channels of a track, those that lead a stereo pair.
Leads(perTrack, config) ==
    CASE perTrack \in {2, 3} -> {0}
      [] perTrack = 4 -> {0} \cup (IF config = 0 THEN {2} ELSE {})
      [] perTrack = 5 -> {0} \cup (IF config <= 2 THEN {3} ELSE {})
      [] perTrack \in {6, 7} -> {0, 4}
      [] perTrack = 8 -> {0, 4, 6}
      [] OTHER -> {}

Primary(h) ==
    LET per == h.channels \div Tracks(h) IN
    IF Stereo(h) = 0 THEN {}
    ELSE {t * per + l : t \in 0..Tracks(h) - 1, l \in Leads(per, h.config)}
Secondary(h) == {c + 1 : c \in Primary(h)}

codedCount(h, c) == IF c \in Secondary(h) THEN Base(h) ELSE Coded(h)

-----------------------------------------------------------------------------
(* DecodeBlock: the elements of the 128 that each step touches.  A step that *)
(* slices at 128 - groups fails of itself with more groups than that.       *)

Extra(h, c) == IF c \in Secondary(h) \/ h.version <= V200 THEN 0 ELSE hfrGroupCount(h)

\* unpackScaleFactors returns an error for this channel.
TooManyScales(h, c) == Extra(h, c) > 0 /\ Uint(codedCount(h, c) + Extra(h, c)) > 128

\* unpackScaleFactors: those read, those copied up and from where.
ScaleFactorsTouched(h, c) ==
    LET extra == Extra(h, c)
        count == Uint(codedCount(h, c) + extra)
    IN  IF extra > 128 THEN {-1}
        ELSE {127 - i : i \in 0..extra - 1} \cup {count - i : i \in 0..extra - 1}
             \cup 0..count - 1

\* unpackIntensity of a channel with scale factors of its own, for groups of bands.
IntensityTouched(h, c) ==
    IF c \in Secondary(h) \/ h.version > V200 THEN {}
    ELSE IF hfrGroupCount(h) > 128 THEN {-1} ELSE 128 - hfrGroupCount(h)..127

\* Mutant: the low band goes down in every group.
AllGroups(h) == hfrGroupCount(h)

\* reconstructHighFrequency: the groups in which the low band goes down.
GroupLimit(h) ==
    IF h.version <= V200 THEN hfrGroupCount(h) ELSE hfrGroupCount(h) \div 2

\* The bands it fills from lower ones: up to totalBandCount.
Filled(h) == IF Total(h) > Coded(h) THEN Total(h) - Coded(h) ELSE 0

HighFrequencyTouched(h, c) ==
    IF PerGroup(h) = 0 \/ c \in Secondary(h) THEN {}
    ELSE IF hfrGroupCount(h) > 128 THEN {-1}
    ELSE {Coded(h) + Filled(h) - 1} \cup {Coded(h) + i : i \in 0..Filled(h) - 1}
         \cup {Coded(h) - 1 - MinOf(i, GroupLimit(h) * PerGroup(h)) : i \in 0..Filled(h) - 1}

\* applyIntensityStereo.
StereoTouched(h) == IF Stereo(h) = 0 THEN {} ELSE Base(h)..Total(h) - 1

\* DecodeBlock of a frame of a header that was taken ends in a panic.
BlockPanics(h) ==
    /\ \A c \in 0..h.channels - 1 : ~TooManyScales(h, c)
    /\ \E c \in 0..h.channels - 1 :
           ~(UNION {ScaleFactorsTouched(h, c), IntensityTouched(h, c),
                    HighFrequencyTouched(h, c), StereoTouched(h)} \subseteq 0..127)
=============================================================================
