------------------------------ MODULE HcaStream ------------------------------
(***************************************************************************)
(* One HCA track decoded to a WAV file: NewHCADecoderFromReader and the     *)
(* block loop of DecodeToWav of internal/cricodecs/hca/hcadecoder.go.  A    *)
(* sample is counted, never computed.                                       *)
(***************************************************************************)
EXTENDS HcaFormat

CONSTANTS Headers,          \* the headers a track may have
          Bodies,           \* what may follow them
          SamplesPerBlock,  \* 1024 in the code
          Uint32            \* the modulus of uint32: 2^32 in the code

ASSUME StreamAssumption ==
    /\ SamplesPerBlock \in Nat \ {0} /\ Uint32 \in Nat \ {0}
    /\ \A h \in Headers : h.frameCount \in Nat /\ h.encoderDelay \in Nat /\ h.channels \in Nat
    /\ \A b \in Bodies : b.whole \in Nat

VARIABLES
    hdr,      \* the header of the file
    body,     \* intact: the header is whole and its checksum good; whole: the
              \* blocks that follow; tail: part of one more; bad: the blocks that
              \* fail their sync, checksum or unpacking
    block,    \* currentBlock
    delay,    \* currentDelay
    written,  \* samples per channel written after the WAV header
    status    \* "closed", "run", "ok" or "error"

hcaVars == <<hdr, body, block, delay, written, status>>

\* totalSamples: what the WAV header is to declare.
Declared == hdr.frameCount * SamplesPerBlock - hdr.encoderDelay

\* The bytes of n samples of every channel; and those the WAV header declares, in 32 bits.
PCMBytes(n)   == n * hdr.channels * 2
DeclaredBytes == PCMBytes(Declared) % Uint32

HcaInit ==
    /\ hdr \in Headers /\ body \in Bodies
    /\ block = 0 /\ delay = 0 /\ written = 0 /\ status = "closed"

Stop(s) == status' = s /\ UNCHANGED <<hdr, body, block, delay, written>>

\* NewHCADecoderFromReader, then Reset.
Open ==
    /\ status = "closed" /\ body.intact /\ Accepted(hdr)
    /\ status' = "run" /\ delay' = hdr.encoderDelay /\ block' = 0
    /\ UNCHANGED <<hdr, body, written>>

Refuse == status = "closed" /\ ~(body.intact /\ Accepted(hdr)) /\ Stop("error")

\* readPacket returns io.EOF after the last block, and where the file ends at the
\* end of a block, which the loop cannot tell from it.
EndOfBlocks == status = "run" /\ block >= hdr.frameCount /\ Stop("ok")
EndOfFile   == /\ status = "run" /\ block < hdr.frameCount
               /\ block >= body.whole /\ ~body.tail /\ Stop("ok")

\* A block cut short is an error of its own.
ShortBlock  == /\ status = "run" /\ block < hdr.frameCount
               /\ block >= body.whole /\ body.tail /\ Stop("error")

Decodes(b) == /\ b \notin body.bad
              /\ \A c \in 0..hdr.channels - 1 : ~TooManyScales(hdr, c)
              /\ ~BlockPanics(hdr)

HasBlock == status = "run" /\ block < hdr.frameCount /\ block < body.whole

\* DecodeBlock fails or panics, which exportHCAFiles turns into an error.
BadBlock == HasBlock /\ ~Decodes(block) /\ Stop("error")

\* Mutant: a delay that ends in this block is not cut out.
KeepDelay == 0

\* The block is wholly before the first sample.
Skip == delay >= SamplesPerBlock

\* The samples of this block that are not written.
Discard == delay

SkipBlock ==
    /\ HasBlock /\ Decodes(block) /\ Skip
    /\ block' = block + 1 /\ delay' = delay - SamplesPerBlock
    /\ UNCHANGED <<hdr, body, written, status>>

WriteBlock ==
    /\ HasBlock /\ Decodes(block) /\ ~Skip
    /\ block' = block + 1 /\ delay' = 0
    /\ written' = written + SamplesPerBlock - Discard
    /\ UNCHANGED <<hdr, body, status>>

HcaNext == \/ Open \/ Refuse \/ EndOfBlocks \/ EndOfFile \/ ShortBlock
           \/ BadBlock \/ SkipBlock \/ WriteBlock

HcaSpec == HcaInit /\ [][HcaNext]_hcaVars

\* A WAV file that is reported good holds exactly the samples its blocks have after the
\* delay, no fewer and no more, wherever in the blocks the delay ends, and as many bytes
\* as its header declares; unless the file had fewer blocks than its HCA header says, the
\* delay exceeds them all, or there are too many bytes for the field. None ever holds
\* more samples than that (DecodeToWav).
WavIsWhole ==
    /\ written > 0 => written <= Declared
    /\ status = "ok" =>
           \/ /\ written = Declared
              /\ DeclaredBytes = PCMBytes(written) \/ PCMBytes(written) >= Uint32
           \/ body.whole < hdr.frameCount
           \/ (Declared < 0 /\ written = 0)
=============================================================================
