----------------------------- MODULE Deobfuscator -----------------------------
(* internal/unpack/obfuscator.go: an obfuscated bundle starts with four bytes  *)
(* of kind; of kind 16 the first 128 bytes that follow are flipped.            *)
EXTENDS Bytes

CONSTANT HeaderSize   \* 128 in the code

ASSUME HeaderAssumption == HeaderSize \in Nat

Plain   == <<32, 0, 0, 0>>
Flipped == <<16, 0, 0, 0>>

\* The pattern: five bytes of every eight are inverted.
Flip(data) == [i \in DOMAIN data |->
                   IF i <= HeaderSize /\ (i - 1) % 8 < 5 THEN 255 - data[i] ELSE data[i]]

\* Mutant: a header that is all of the file counts as cut short.
LongHeader(rest) == Len(rest) > HeaderSize

\* io.ReadFull of the header succeeds.
WholeHeader(rest) == Len(rest) >= HeaderSize

\* DeobfuscateToWriter: what it writes.
DeobfuscateToWriter(data) ==
    LET prefix == SubSeq(data, 1, 4)
        rest   == SubSeq(data, 5, Len(data))
    IN  IF Len(data) < 4 THEN data
        ELSE IF prefix = Plain THEN rest
        ELSE IF prefix # Flipped THEN data
        ELSE IF WholeHeader(rest) THEN Flip(rest) ELSE rest
=============================================================================
