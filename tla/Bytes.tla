-------------------------------- MODULE Bytes --------------------------------
(* Big-endian reads from a file: a sequence of bytes, the first at position 0. *)
EXTENDS Integers, Sequences

ByteAt(data, i) == IF i + 1 \in DOMAIN data THEN data[i + 1] ELSE 0

\* The number that the k bytes from i on spell; a byte the file lacks is zero.  With a
\* sign, which the first byte has, what stands above them is all ones or all zeros.
SpelledAfter(data, i, k, above) ==
    LET v[j \in 0..k] == IF j = 0 THEN above ELSE v[j - 1] * 256 + ByteAt(data, i + j - 1)
    IN  v[k]
Spelled(data, i, k)       == SpelledAfter(data, i, k, 0)
SpelledSigned(data, i, k) == SpelledAfter(data, i, k, IF ByteAt(data, i) >= 128 THEN -1 ELSE 0)

\* n without its last k bytes, and the k bytes that spell n.
Shifted(n, k) ==
    LET s[j \in 0..k] == IF j = 0 THEN n ELSE s[j - 1] \div 256
    IN  s[k]
Spelling(n, k) == [j \in 1..k |-> Shifted(n, k - j) % 256]

Has(data, i, k)   == k = 0 \/ (i >= 0 /\ i + k <= Len(data))
Slice(data, i, k) == SubSeq(data, i + 1, i + k)

\* The bytes from i on up to a zero, which may be missing.
Zeros(data, i)      == {k \in 0..Len(data) - i - 1 : data[i + k + 1] = 0}
StringAt(data, i) ==
    Slice(data, i, IF Zeros(data, i) = {} THEN Len(data) - i
                   ELSE CHOOSE k \in Zeros(data, i) : \A m \in Zeros(data, i) : k <= m)
=============================================================================
