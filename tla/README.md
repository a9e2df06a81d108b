# A TLA+ model of Moe-Asset-Updater-Client

The client leases asset-bundle tasks from a server, unpacks each bundle with
AssetStudio and its own decoders, and uploads the result.  What can go wrong in
it is mostly concurrency: goroutines, channels used as semaphores, contexts that
end at any time, retries, connections that are replaced under running tasks.
These modules model that part of the code; TLC checks them on small instances,
and TLAPS proves the central invariants for all.

## 1. The system

| component | source | state | operations |
|---|---|---|---|
| task handler | `internal/client/worker.go` | `Worker.active`, the task's context, its directory, the upload attempt | runTaskSafely, handleTask, uploadResult, fail, cleanupTaskDir |
| HTTP worker | `worker.go` | `sem`, `wg`, the batch of a lease reply | register, lease loop, heartbeat loop |
| TCP worker | `tcp_worker.go` | the connection, `Worker.tcpConn`, `sem` and `heartbeatErr` of each connection | runTCP, runTCPOnce, runTCPConnection, tcpHeartbeatLoop, sendTCPMessage |
| TCP framing | `internal/tcpclient` | the socket, a write mutex | ReadMessage, WriteMessage, Send, Close |
| unpacker | `internal/unpack/unpacker.go` | six semaphores, the files of a task | Process and its stages, the ACB pool, manifest, archive |
| deobfuscator | `internal/unpack/obfuscator.go` | none | Deobfuscate, DeobfuscateToWriter |
| exporter | `internal/exporter` | temporary files | ExportACB and its HCA pool, ExportHCA, ExportUSM, ffmpeg calls |
| decoders | `internal/cricodecs` | readers | ACB/AFS/UTF parsing, USM demultiplexing, HCA decoding |
| configuration, logging, main | `internal/config`, `internal/logger`, `cmd/client` | the configuration | defaults, signals |

How they interact.  `main` cancels the context of `Worker.Run` on a signal.  `Run`
is `runHTTP` or `runTCP`; both start one goroutine per task, the *handler*, which
calls `Unpacker.Process` and then uploads.  Handlers share with each other
`Worker.active`, the workspace directories (named by task id) and the semaphores
of the one `Unpacker`; with the main loop a slot channel and, in HTTP mode, a
WaitGroup; in TCP mode the connection pointer.  Heartbeats read `active`.  The
server sees lease requests, heartbeats, uploads and failure reports; it may
deliver a task again at any time it thinks the client has lost it.

What is hard: a context may end between any two steps; failures are reported
under the context whose end caused them; panics unwind past some releases; a
stale snapshot of free slots is used after a long poll; handlers of an old
connection send on the new one; two handlers may have the same task.
`PROJECT.json` lists the hazards one by one with the properties that watch them.

## 2. The modules

    TaskHandler <--- HttpWorker ---(refines)---> TaskOutcome
         ^----------- TcpWorker ----(refines)---> ChannelOutcome
    TaskPipeline     AcbExport     Workspace      (inside the handler's "work" step)

    Bytes <--- HcaFormat <--- HcaStream <---+
       ^------ UtfFormat <------------------+--- Decoders
       ^------ Deobfuscator, Frames <-------+
               UsmFormat, AcbFormat <-------+

* **TaskHandler** - one handler per *lease* (one delivery of a task).  `pc` follows
  `runTaskSafelyWithTransport` and `handleTaskWithTransport`: `Start` (addActive),
  `Setup` (MkdirAll), `Work` (the rest of `Process`: success, error or panic), `Post`
  / `PostOk` / `PostError` / `Backoff` (uploadResult, with `attempt`), `Report` (the
  transport's fail, parameterised by what it needs to get through), `Clean`
  (cleanupTaskDir), `Leave` (the deferred removeActive).  An upload leaves as
  `<<lease, attempt>>` in `inflight`; the server may take it at any later time, also
  after the client has given up on it, or never.  `lost` remembers the leases one of
  whose calls did not get through; `expired` those whose deadline passed.
* **HttpWorker** - `runHTTP`: the lease loop (`wpc`), the slot channel (`slots`), the
  WaitGroup (`wg`), the snapshot `available`, the `batch` of a reply, heartbeats
  composed now and delivered later (`beats`).  The server is external: it answers
  with any set of leases within the request plus `Overshoot`, and may deliver a task
  again while an earlier handler of it still runs.
* **TcpWorker** - the same handlers over connections numbered as they are dialled.
  Every connection has its own slot channel and heartbeat goroutine; `GrabConn` and
  `SendFailure` are the two halves of `sendTCPMessage`, between which the connection
  may be replaced.  A connection may break at any time.  A write may fail in the middle
  of a frame: the connection is "torn" (`SendError`, `ProgressError`,
  `HeartbeatFails`), later writes succeed and reach nobody, until whoever saw the error
  closes it (`SendErrorCloses`, `HeartbeatCloses`; `closing` holds the senders in
  between).  When `runTCP` returns the process is gone.
* **TaskPipeline** - `Process`: the stages of a task and the four semaphores its own
  goroutine takes, with every error return, every end of a context and, for each
  stage, what a panic gives back (the deferred releases) and what it does not.
* **AcbExport** - the pool of `handleACBFiles` and, inside each of its jobs, the pool
  of `exportHCAFiles`; both limiters, both error channels, the move of the results
  and the deletion of the ACB file.  A pool is the number of its jobs in hand,
  since its workers are alike; an idle worker is a free place.
* **Workspace** - the files of one task: what AssetStudio may leave, the choice of the
  directory to work on, merged and exported USM files, ACB tracks, WAV conversion
  twice over, WebP, the manifest, its two checks, the archive, the removal, and then the
  next delivery on what is left.  A file's content is the set of sources it was made
  from, so a lost, doubled or stale file shows; a half-written one has no source and is
  not empty, so the code takes it for complete.  A stage is one step that succeeds, or
  fails after any part of its work; the process may be killed between any two.  `left` is
  a history variable: the deliveries whose files are still there.
* **Bytes** - the integers and offsets that the byte readers share.
* **UtfFormat** - UTF tables byte by byte, through the code's two readers:
  `NewUTFTable` and the `getUTFTable` / `extractFilename` of USM extraction.
* **UsmFormat** - a USM file as cells (a signature, a number, a marker, a byte):
  `ExtractUSM`'s search for the end of the header, of the metadata, its chunk loop, and
  `ReadMetadata`'s own walk over the same file.
* **AcbFormat** - AFS2 archives, the walk from cues over synths, sequences and their
  commands to waves, the names of the tracks and the files they end in.  A name is a text
  and the numbers put behind it, so that "a-1" is one name whoever made it.
* **HcaFormat** - the bit reader; which headers `DecodeHeader` takes; the channel
  layout; whether a frame leads `DecodeBlock` outside its arrays.
* **HcaStream** - `DecodeToWav` as a state machine: header, blocks, the encoder delay
  that is cut, every way the file can end.  Samples are counted.
* **Deobfuscator** - `DeobfuscateToWriter`.
* **Frames** - the framing of TCP messages over one stream, on which a write may be cut
  anywhere and others write before the connection is closed.  It shows what TcpWorker
  assumes of a torn stream: nothing sent on it later is taken for a message.
* **Decoders** - composes them: one file per behaviour.  A track runs HcaStream, any
  other file is decoded in one step.  It lays files out from a known content (the
  layouts are external: CRI's tools and the game's packer write such files), so that the
  properties can say that the content comes out.
* **TaskOutcome** - what the client promises the server about a lease, without how.
* **ChannelOutcome** - what it promises a server that pushes leases over a channel: the
  same with links in place of one capacity, and fewer excuses.  `via` is the link that
  brought a lease; the mapping takes `connOf` for it and `tcpConn` for the link that is up.
* **TaskHandlerProofs, HttpWorkerProofs, HttpOutcomeProofs, TcpWorkerProofs,
  TaskPipelineProofs, AcbExportProofs, WorkspaceProofs, DecodersProofs** - theorems.
* **MC...** - instances for TLC.

Each module holds, beside a definition, the mutants of it: forms that a plausible
bug would give it.  No specification uses them; each shows that a property of a run
can fail (`PROJECT.json`, "mutants").

## 3. The runs

| run | instance | shows |
|---|---|---|
| HttpSlots | 2 leases of one task, 1 slot, overshoot 1, 2 attempts, fairness | ConcurrencyBounded, JoinIsComplete, DropsExcused, ShutdownReturns, StartedEnds |
| HttpRedelivery | 2 leases of one task, 2 slots, 2 attempts, keep_failed | ActiveIsRunning, ResultKept, SilentEndExcused, UnacceptedKept, ContradictionNeedsAllAttempts, and the refinement of TaskOutcome (Promise) |
| TcpSafety | 2 leases of one task, 1 slot per connection, 2 connections | SlotsMatch, OneConnection, HeartbeatWatched, TornIsClosed, EndedIsToldOrLost, NoGhosts, and the refinement of ChannelOutcome (Promise) |
| TcpLive | 2 leases, 1 connection, fairness | BrokenIsLeft, ShutdownReturns |
| TcpOverall | as TcpSafety, with cleanup | *finding*: OverallConcurrency fails |
| PipelineSlots | 2 tasks, capacity 1 of each semaphore, 3 downloads, fairness | SlotsAccounted, RunsEnd, CancelledEnds |
| PipelineStudio | the same, 2 downloads | *finding*: StudioCapacityKept fails |
| AcbPools | ACB files with 2, 1 and 0 tracks, acbSem 2, hca 2, global limiter 1, fairness | LimitersMatch, OkMeansAll, DeletedAfterMove, PoolReturns |
| AcbShared | 2 ACB files with a track of one name | *finding*: ResultsKept fails |
| Workspace | 6 bundles under 46 sets of options, 3 deliveries, failures and kills anywhere, cleanup with keep_failed as config.example.yaml sets them | DataKept, ResultIsOwn, AllConverted, RefusalExcused |
| Decoders | some 30000 small files of eight kinds | WavIsWhole, TablesAreRead, BitsAreRead, AcceptedInBounds, VideoIsWhole, TracksKept, BundleRestored, StreamIsPrefix |
| UsmHeader | the same | *finding*: FilenameAgrees fails |

HttpSlots also checks `TypeOK`; the types of every worker and pool are proved for every instance
(`TypeCorrect`), and not run again.
Only the two runs of Decoders turn the deadlock check off: there a
behaviour is the decoding of one file, and ends.  Elsewhere, where the system may stop,
a disjunct of Next names the legitimate end (`Returned`, `AllEnded`, `Over`, the last
disjunct of TcpWorker!Next); AcbExport never stops, because the other tasks of the
client go on.

**The bounds.**  Two leases of one task are the least that lets two handlers meet
over the active set and the directory; with one slot and an overshoot of one, a batch
of two waits for the slot and the reply exceeds the request; two slots at once are
in HttpRedelivery, and in the theorems.  Two upload attempts give a first, a last,
a backoff between them, and a retry whose predecessor is still in flight (`MaxAttempts`,
in both HTTP runs; the code has 4, the theorems hold for all).  Two connections let a handler's connection be replaced under
it.  One slot per semaphore with two tasks is the tightest pipeline; three downloads give
a retry that is neither first nor last.  Three ACB files over two workers make one wait,
two tracks over one global slot make a track wait.  `MaxConns` caps an unbounded
counter: at the cap, dialling fails.  `MaxDeliveries` caps the deliveries of a task:
of three, one leaves files, one packs on top of them or fails and leaves more, and one
works after both, or after the removal that a success brings.  The bundles of MCWorkspace have
each name clash the code treats specially, and a file outside the expected path; each
group of options is taken in all combinations, with the others off, because the stages
of audio, video and images share no file.  In Decoders, `HeaderSize` is 8 for 128 and
`SamplesPerBlock` 3 for 1024: both are only compared and subtracted (the proof has any
block size).  `maxFrameSize` is 288 for 32 MiB: more than a byte holds, so that a length
read out of step is seldom zero.  Tables have two columns, in either order, of every
flag and six types, over no row, one or two: one that takes no room before one that does,
and rows that are not the first.  `Word` is 2^20 for 2^32 because TLC's integers have 32 bits; the numbers of
the files stay below it.  `Uint32`, the width of the length that a WAV header declares, is 16
for 2^32, so that the files of the run pass it and the declared length wraps.  The arrays of 128 of the HCA decoder keep their size.

**Fairness.**  A goroutine that can run does (weak fairness of the main loops, of each
handler and of each worker of a pool): the Go scheduler is fair, and the timers of pauses
and backoffs fire.  A call is assumed to end only where the code bounds it: the HTTP
requests of the lease loop, of an upload and of a failure report carry a context that a
shutdown or the deadline of the task ends, and a write on a TCP connection has its
deadline.  *Which way* a call ends is never assumed, nor that the server answers, accepts
or sends.  Three waits the code does not bound, and no FairSpec makes them end:

* the work of `Process`.  ffmpeg is started by `exec.Command` without a context
  (`converter.go:98`, `127`, `143`, `165`), and the decoders do not look at it, so a handler
  in "work" may outlast its deadline and a shutdown;
* the answer to the register message, which `tcp_worker.go:69` awaits with neither deadline
  nor context;
* in the pools, the decoding of a track, and the slots that other tasks hold.

A property that needs one of them to end says so in its statement: `ProcessesEnd`
(ShutdownReturns and StartedEnds of HttpWorker, BrokenIsLeft), `Answered` (ShutdownReturns
of TcpWorker, which needs no Process to end, because `runTCP` does not wait for handlers),
`WorkEnds(Bounded)` and `WorkEnds(Unbounded)` (RunsEnd both, CancelledEnds the second: a
download and AssetStudio end with the context, the other stages need not), `DecodesEnd` and
`OthersEnd` (PoolReturns).  What these properties then show is that nothing *else* holds
the shutdown, the slot or the pool up; that the premises may fail is listed among the
hazards (`converter.go:98`, `tcp_worker.go:69`).  The worker that waits on a shared limiter
(AcbExport) has strong fairness: a Go channel serves blocked senders in order, so a slot
that is given back again and again is one day given to it.

**The excuses.**  A property that the code keeps only up to a reason names that reason:
a second handler of the task (ActiveIsRunning, ResultKept); a dead context or a lost call
(SilentEndExcused); for the files of a task, the options that ask for audio to be
neither kept nor converted, a file that another of the bundle has the name of, and, where
earlier deliveries left files, a WAV file whose output one of them may have left
(DataKept; `ResultIsOwn` allows what such a delivery made, and what it left unfinished,
for the same reason); MP3 and FLAC both asked for while WAV files stay, which no run can satisfy
(RefusalExcused); HCA bands that do not add up, which the code does not check and where it
panics, to be recovered by the caller (AcceptedInBounds, which therefore delimits that
panic and does not catch it); an error left in `heartbeatErr` while the loop waits in
Receive, which has no deadline (HeartbeatWatched: the loop reads it when Receive ends); USM chunks with an unusual header
or a wrong padding (VideoIsWhole); two tracks with the same cue name and wave id, and an
external AWB file that is not there (TracksKept).  WavIsWhole excuses what
the code cannot declare: the length in a WAV header has 32 bits and wraps (`hcadecoder.go:352`,
`363`), for a file of 4 GiB or more and for one with more delay than samples.  One limit is
an assumption of Workspace and no excuse of a property: several USM files of a bundle are
taken for the parts of one, as the code takes them.  If they were complete files, the
demultiplexer would stop at the first `#CONTENTS END` (`usm.go:446-449`) and lose the rest.

## 4. Findings

1. **Overall concurrency in TCP mode** (`tcp_worker.go:94`).  Slots are per connection,
   handlers outlive connections: after a reconnect up to twice `max_tasks` tasks run.
   The sample configuration calls it "overall task concurrency" (`config.example.yaml:21`).
2. **The AssetStudio semaphore leaks on a panic** (`unpacker.go:133`).  It is the only
   semaphore not released by a deferred call; panics of the USM demultiplexer on this
   goroutine are recovered further up.  After as many panics as slots, every task
   waits for its own deadline.
3. **Results of ACB files that share a track name** (`acb.go:185`).  The move replaces
   the earlier file, although the comment at `acb.go:58` says the arrangement avoids
   just that race.
4. **The file name in a USM file is never found** (`usm.go:80`).  `getUTFTable` does not
   skip the version word that `acb/utf.go:10-20` documents, so it takes the number of
   columns, of rows, and every offset from the wrong bytes, and extraction falls back on
   the name of the file.  With the word skipped, `FilenameAgrees` holds on the same files.

Not findings, because the documentation says nothing else, but worth knowing: in HTTP
mode a task that runs into its deadline is never reported as failed (`SilentEndExcused`
names the excuse; in TCP mode, `EndedIsToldOrLost` needs none); when a task is delivered
again while it still runs, one handler can remove the directory and the active entry of
the other (the excuses of `ResultKept` and `ActiveIsRunning`); between a write that fails
in mid-frame and the closing of its connection, the messages of other handlers are lost
without an error (`TornIsClosed` says that at any such moment somebody has the error and
goes on to close the connection).  And with keep_failed, as `config.example.yaml:32` sets it,
or after a kill, the next delivery of a task works on what was left (`unpacker.go:119`), and
what is left is packed as its result: complete outputs of the attempt before, and also what
ffmpeg left unfinished, because its conversions do not remove a partial output
as the one to WebP does (`converter.go:76`) and `outputFileExistsNonEmpty` takes it for
complete; a WAV file it belongs to may then be removed unconverted.  No document promises
otherwise.  `ResultIsOwn` and `DataKept` say, in the run under those very settings, exactly
how far this goes: only where files were left since the directory was last removed, only
files of those deliveries, and at the cost of WAV files alone (`Outdated`).

## 5. The proofs

TLAPS checks every theorem below for any finite set of leases, any capacity and any
number of attempts, any bundles, options and files, from the named assumptions of the
modules only: `HandlerAssumption`, `WorkerAssumption`, `TcpAssumption`,
`PipelineAssumption`, `AcbAssumption`, `WordAssumption`, `StreamAssumption`,
`FrameAssumption`, which give the constants their types and bounds, and these eight, which
say more:

* `WorkspaceAssumption`: the options are records of `ExportOptions`, and no two ACB files
  of a bundle have a track of the same name (AcbExport models what happens if they do:
  the finding of AcbShared).
* `BundleAssumption`: a bundle has finitely many files, none of them already a stream, MP4,
  MP3, FLAC or WebP file (the exporter asks AssetStudio for images, audio and text
  assets, and takes its PNG and WAV files), and each ACB file has tracks.
* `JobsAssumption`: bundles are bytes, and one that is not obfuscated does not begin with
  the mark of one that is.
* `SendsAssumption`: a message has a type, so its text is longer than a pair of braces, and
  a write puts out at most the bytes of its frame.
* `UsmAssumption`: a chunk of a USM file has room for the fields of its header, and a
  content that is not empty (its first 13 bytes are what the code looks for a mark in).
* `TracksAssumption`: the tables of an ACB file have the fields the code reads, with numbers
  that are not negative (CRI's columns of indexes and ids are unsigned); its archives are
  below 4 GiB, where their offsets end, and no two files of an archive have one id.
* `TablesAssumption`: a UTF table is one its format can hold: columns with one of the four
  combinations of flags and a type the code knows, a value for every row, numbers and
  counts that fit the bytes they are put in, a file below 4 GiB, a schema below
  `utfMaxSchemaSize`, strings without a zero byte; and no two columns with values have one
  name (of two the code keeps one).
* `ReadsAssumption`: a read of bits lies within four bytes.  The code reads up to 16 bits
  anywhere, and 24 or 32 only in the header, at the beginning of a byte.

* **HttpWorkerProofs**: `Invariance` proves the inductive invariant `IInv`, a conjunction of
  the handlers' own (`HandlerInv`: types, and attempts left where an upload may
  start), `WorkerTypeOK`, `Counted` (slots and wg are the numbers of handlers at the
  places that hold them), `Handed` (what is in the batch is idle; after the return no
  handler is live; dropped leases have an excuse) and `Fits`.  The strengthening that
  matters: BatchFits alone is not inductive.  At the moment of the reply it needs that
  the snapshot is not larger than the slots that are free *now*, which holds while the
  main loop is in "lease" because only that loop takes slots.  `TypeCorrect`,
  `ConcurrencyIsBounded`, `BatchAlwaysFits`, `ReturnIsLast`, `DropsAreExcused` follow.
  TaskHandlerProofs shows once, for both workers, what a handler's step preserves
  (`HandlerStepInv`, `ReportInv`, `HandlerEnvInv`) and that it keeps what it holds
  (`HandlerMoves`).
* **HttpOutcomeProofs**: `SilentEndsAreExcused` and `ContradictionsNeedAllAttempts`, by an
  invariant `Lawful` of each lease: uploads known to the network have numbers already
  used; nothing was posted before "upload" or on the way out of a panic; a handler at
  "fail" is out of attempts or its context is dead; after the report it is excused; a
  lease whose failure arrived makes no further attempt.  The last two are what make the
  properties inductive: an upload taken late must find the attempts already spent.
  `UntouchedLawful` disposes of every step that does not move the lease.
  `ActiveAlwaysRuns`, `ResultsAreKept` and `UnacceptedAreKept` are about two deliveries of one
  task: what a departed handler took away is excused by the place it has reached, and it
  never comes back from there (`RivalsStay`).  UnacceptedKept needs the strengthening
  `ShelterInv`, which starts with the end of Process and not with the first attempt, and
  `Lawful`: with keep_failed only a result that was taken is removed.
  `KeepsPromise` is the refinement: it maps every step to one of TaskOutcome or to none, under
  `IInv` (whence the capacity, and an empty batch when a reply comes) and `OInv` (whence the
  excuse at the end, and that only a lease that was run can have an upload taken).
* **TcpWorkerProofs**: `Invariance` proves `Linked` (only the connection dialled last can be
  open), `Pushed` (what is not started belongs to it), `Watched`, `TornIsClosed`, `Reported`,
  `NoGhosts` and `SlotsMatch`.  They are inductive only together: nothing is open, pushed or
  waiting while no connection is served, so a handler that closes the connection it read
  earlier closes the current one or none that is open, and a slot that is taken counts for
  the connection that brought the lease.  The six invariants of TcpSafety and the types follow.
  `KeepsPromise` maps every step to one of ChannelOutcome or to none.  Beside `IInv` it needs
  `Fresh`: a connection that is dialled has brought nothing (so it is a new link), nothing
  waits outside the dispatch loop but on the wire (so a push that is received is not seen),
  and an upload is of a lease that was started (so a dropped lease is never answered, also
  after the process is gone).  The capacity of a link comes from SlotsMatch, the end that is
  not silent from `Reported`, and what a broken connection drops from `Pushed`.
  `ReliableHolds` is what follows from the refinement alone.
* **TaskPipelineProofs**: `SlotsAreAccounted` and `TypeCorrect`.  Each action is a *shift* of one
  run between two stages that changes each semaphore by what the two stages take
  (`StillShifts`, `ReleaseShifts`, `AcquireShifts`); a shift preserves the count
  (`ShiftsCounted`).  The invariant counts a run that panicked in the export among those
  that take an AssetStudio slot; the theorem splits it off.
* **AcbExportProofs**: `OrderedAt` ties where the job of a file is to where its tracks can be,
  `Joined` says what the feeder knows when it joins (no job is unsent unless it stopped, no
  worker is busy once it returned, no error means no failed job), `AcbCount` and `HcaCount` what
  the limiters hold.  `JobCounted` and `TrackCounted` prove the counts once for any move of one
  job or track.  `LimitersAlwaysMatch`, `OkAlwaysMeansAll`, `DeletionComesLast` and the types
  follow.
* **WorkspaceProofs**: the inductive invariant `IInv` is `StageInv /\ FileInv`, checked by TLC
  with and without the removal of directories before it was proved.  Every theorem holds for
  every setting of cleanup and keep_failed and any number of deliveries, failed or killed.
  - `StageInv` says what each stage has *done* when the next is reached (`Staged`), and
    whatever lies in the export root may come from any delivery, whole or killed.
    `AllConverted` holds at "packed" because each stage's promise survives the later ones,
    and for that the invariant must say where files can come from (`Sourced`): a stage after
    the USM export must not make USM files again, and an ACB or USM file left by an earlier
    delivery must be one of the bundle's, or the merged one, which only a bundle with several
    USM files has.  `RefusalExcused` needs it too: an expected output is missing only if
    its stage made none.  `AllIsConverted` and `RefusalsAreExcused` follow.
  - `FileInv` says where each source of the delivery *went* (`Traced`), kind by kind and stage
    by stage: still as exported (`Untouched`), then in a file of one of the formats it may
    become (`Kept`), dropped by an option, replaced by a track of its name (`Shadowed`), or a
    WAV file whose output was left by another delivery (`Outdated`).  `Tags` says whose a file
    can be: of this delivery, or of one in `left`.  Where nothing was left (`Fresh`), the
    export root starts empty (`NoFiles`) and every file is whole (`Whole`).  Two steps
    carry the proof: a new file of the ACB stage comes from one ACB file only, since
    tracks are disjoint (`Origin`); and, where nothing was left, no MP3 or FLAC file is there
    before the conversion of WAV files but a track's (`NoOutput`), so a conversion overwrites
    only what Shadowed excuses.  USM files need no such excuse: merged or not, what an earlier
    delivery left of them is truncated or replaced (`KeptVideo`, `SeveralVideos`).
    In the archive two paths may have become one; `Unique` excludes it, hence what is kept is
    packed (`TracedIsPacked`).
  - `DataAreKept` and `ResultsAreOwn` follow, and `FreshIsComplete`: the archive of a
    first delivery, and of any that finds nothing left, is complete, whole and its own.  That
    a later one may pack fragments of the attempts before it is the last remark of section 4.
* **DecodersProofs**: `WavsAreWhole`, for every header, delay, block size and file, and
  `TrackWavsAreWhole`, the same under the specification of Decoders.  That the declared
  length is that of the samples (`StreamIsWhole`) holds up to the width of its field
  (`FittingLength`).
  The invariant `StreamInv` is the account the loop keeps: while there is delay left, nothing
  is written and the delay is the whole one less the blocks read; once there is none, what is
  written is the blocks read less the delay.  It is about products of two variables;
  `BlocksMonotone` and `OneMore` give the solver the two facts it needs of them.
  `HeadersStayInBounds` takes any header that DecodeHeader takes and whose bands add up
  (`BandsAddUp`, which DecodeHeader does not check) and shows every index of DecodeBlock
  within 128: the total is at most 128, the coded bands at most the total, and what
  high-frequency reconstruction and stereo write lies between the two.
  `BundlesAreRestored` takes a bundle of any length: the marker comes off, and flipping the
  same bytes twice gives what was there.
  `StreamsArePrefixes` is about any number of writes, each whole or cut anywhere, and needs
  induction.  The library's induction theorems take an operator, so `Induction` is proved
  about sets, from the least element of any set of numbers (`NatMin`, by WFMin); with it
  `Recursion` shows that a function defined from each number to the next exists, and
  `LoopEnds` that the recursive function of `Received` does.  `Layout` says at which place
  of the stream each byte of each frame lies.  `WholeIsRead`: at the beginning of a whole frame
  the reader gets its text.  `TornIsRefused`: at that of a cut one it gets nothing,
  whatever follows, since the length it reads reaches behind the cut, its text would have to
  hold the first byte of a later length, and that byte is at most 2 because a frame has
  at most 32 MiB (`FrameAssumption`) while no byte of a text is below 9; a text that begins
  inside the cut length is excluded likewise.  `StreamTells` goes backwards over the writes.
  `BitsComeOut` takes a read at any position of any file.  `Window` is what the bits from one
  place to another spell, as a difference of two prefixes; `WindowSplit` takes it apart at
  any place, `WindowByte` and `SpelledIsWindow` show that the loaded bytes are a window, and
  masking and shifting then cut the window that was asked for (`PeekIsWindow`).  Why 16 bits
  must remain: only then does bitreaderPeek load enough bytes for what it was asked.
  `VideosComeOut` takes a file of any chunks.  `CellsLaid` says where each chunk stands in
  it, `ChunkRead` what the code reads there, `StartIs` that the walk over the sections ends
  behind the head; `NextTurn` is the invariant of the copy: it runs, has seen no end
  marker and stands at the next chunk with the video of all before it, or it has stopped
  with the whole video.  The copy needs a turn per chunk, and a chunk has at least 8 bytes,
  so it has stopped after the turns that the model allows it (`VideoCopied`).
  `TracksAreKept` takes an ACB file of any tables.  `DataFound`: whatever the alignment and the
  sizes, the part that the code cuts out of an archive for an id is the file of that id, as
  its stored offset, aligned, is where that file starts and its end is the next stored one.
  `SamePlays` and `PlaysType` follow the tables to the list of plays, `NamesAre` says which
  name each gets, and `OneName` is the heart: two plays of one name clash, because a name is
  numbered at most once, so the later of the two carries the id of its wave.  `WavesKept`
  then looks at the last file written under a track's name: it is the track's, or that of
  one that clashes with it.
  `TablesComeOut` takes a UTF table of any columns and rows.  `At` says that a sequence
  stands at a place in another, and `AtWithin` that this carries from a value to its row, from
  the row to the rows and from there to the file: `TableLaid` places the fourteen parts,
  `SchemaLaid` the columns in the schema, `RowsLaid` and `RowsStand` the values in every row,
  all at the sums of what the columns before take (`Sums`).  What stands there is read:
  `NumberRead` and `SignedRead` show that the bytes of a number that fits spell it (a sign
  is what stands above its first byte), `StringRead` that a string ends at its zero.
  `HeaderRead` and `ValueRead` apply them.  `ColumnComes` is one turn of parseSchema: it
  keeps the place in the schema and the offset in the row at those sums, which a column
  without a value of one kind must not move, and `SchemaRead` all of its turns.  `InfoBits`
  takes flags and type apart, `NamesDiffer` makes the choice among columns of one name
  unique, and `RowRead` puts a row together.
* `NeverSilentHolds` of HttpOutcomeProofs is the consequence of the refinement that a reader of
  the server's side wants: `PromiseIsNotSilent` proves it of TaskOutcome alone, and with
  KeepsPromise it holds of runHTTP.

`BatchFits` is proved and not run: the proof needs it for any reply.  Model-checked
only: liveness and everything under fairness, which are six properties: `ShutdownReturns`,
`StartedEnds`, `BrokenIsLeft`, `RunsEnd`, `CancelledEnds` and `PoolReturns`.  Every other
property of a passing run is a theorem.

## 6. Plan

Done: the workers, the pipeline and the pools, with every safety property of theirs that the
runs check proved, and the refinements of TaskOutcome and ChannelOutcome; the files of a task, with result paths,
manifest check and archive, with every property of theirs proved for any bundles and
options; frames, whole and partial; the deobfuscator; the decoders, with every property of
theirs proved for any file.  Left: what section 7 lists.

## 7. Not modelled

Of the HCA decoder: the transform and every floating-point value; ciphers, because the
client sets no key; `DecodeAll`, `DecodeFrame`, `Seek` and the scores of a key, which the
client does not call.  Of USM extraction: masks and audio export, for which the client
passes neither key nor flag; the JSON form of the metadata and the frame rate taken from
it.  ffmpeg's arguments.  The filter that skips `_vr` and `_screen` tracks before ExportHCA
(`Tracks` of Workspace stands for what remains).  Hashes, sizes and media types of the
manifest; a disk that fills up while the archive is written, whose deferred Close errors
the code drops.  The tables of AssetStudio options; logging, diagnostics and memory
release; YAML and environment parsing.  The temporary directories of ExportACB are private
to one call and removed by it, so AcbExport leaves them out.  `clientID`, written on every
TCP registration and read by handlers without a lock, is not kept: no modelled behaviour
depends on its value.
