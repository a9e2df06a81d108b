-------------------------------- MODULE Frames --------------------------------
(***************************************************************************)
(* Messages on a TCP connection: WriteMessage and ReadMessage of            *)
(* internal/tcpclient/protocol.go over one stream, on which a write may     *)
(* fail after some of its bytes and others write before it is closed.       *)
(*                                                                          *)
(* A message is [id, size]; its JSON text is a brace, ids and a brace.  Of  *)
(* JSON no more is kept than that no text begins another or holds a byte    *)
(* below 9, which is what the first byte of a length always is.             *)
(***************************************************************************)
EXTENDS Bytes, SequencesExt

CONSTANT maxFrameSize   \* 32 MiB in the code

ASSUME FrameAssumption == maxFrameSize \in Nat /\ maxFrameSize <= 32 * 1024 * 1024

Text(m) == [i \in 1..m.size |-> IF i = 1 THEN 123 ELSE IF i = m.size THEN 125 ELSE m.id]

\* json.Unmarshal succeeds, and there is a type: more than an empty object.
IsMessage(text) ==
    /\ Len(text) > 2 /\ text[1] = 123 /\ text[Len(text)] = 125
    /\ \A i \in 2..Len(text) - 1 : text[i] \in 9..122

\* Mutant: the reader refuses a message of the largest size.
BelowLimit(n) == n # 0 /\ n < maxFrameSize

\* The lengths that WriteMessage writes and that ReadMessage takes.
Writes(n) == n # 0 /\ n <= maxFrameSize
Takes(n)  == n # 0 /\ n <= maxFrameSize

\* writeAll of the header and of the payload, of which the first s.out bytes get out.
FrameSize(s)    == 4 + s.size
WriteMessage(s) ==
    IF Writes(s.size) THEN SubSeq(Spelling(s.size, 4) \o Text(s), 1, s.out) ELSE << >>

\* ReadMessage at position p: the text, or << >> if it returns an error.
ReadMessage(data, p) ==
    LET n    == Spelled(data, p, 4)
        text == Slice(data, p + 4, n)
    IN  IF Has(data, p, 4) /\ Takes(n) /\ Has(data, p + 4, n) /\ IsMessage(text)
        THEN text ELSE << >>

\* Receive after Receive: the first error ends the connection.
Received(data) ==
    LET from[p \in 0..Len(data)] ==
            LET text == ReadMessage(data, p) IN
            IF text = << >> THEN << >> ELSE <<text>> \o from[p + 4 + Len(text)]
    IN  from[0]

Stream(sends) == FlattenSeq([k \in DOMAIN sends |-> WriteMessage(sends[k])])
=============================================================================
