--------------------------- MODULE AcbExportProofs ---------------------------
(***************************************************************************)
(* The safety of the nested pools, for any ACB files, tracks, workers and    *)
(* capacities.  The invariant follows one file: where its job is says what   *)
(* its tracks can be, and both say what the limiters count.                  *)
(***************************************************************************)
EXTENDS AcbExport, FiniteSetTheorems, TLAPS

Jobs   == {"unsent"} \cup InHand \cup Ended
Places == {"unsent", "wantSlot", "busy", "moved"} \cup Ended

Typed ==
    /\ feeder \in {"feeding", "joining", "ok", "errors", "cancelled"}
    /\ stopped \in BOOLEAN /\ ctxDone \in BOOLEAN
    /\ job \in [Acbs -> Jobs]
    /\ errs \in Nat /\ acbUsed \in Int /\ others \in Int /\ hcaUsed \in Int
    /\ inner \in [Acbs -> {"off", "feeding", "joining", "cut"}]
    /\ track \in [Acbs -> UNION {[Tracks[a] -> Places] : a \in Acbs}]
    /\ \A a \in Acbs : track[a] \in [Tracks[a] -> Places]
    /\ files \subseteq Acbs
    /\ out \in [Names -> Acbs \cup {Nobody}]

\* The jobs that hold a slot, and what the limiters count.
Slotted    == {a \in Busy : job[a] # "wantSlot"}
BusyTracks == {p \in Acbs \X Names : p[2] \in TracksAt(p[1], {"busy"})}
AcbCount   == acbUsed = others + Cardinality(Slotted)
HcaCount   == hcaUsed = IF ~HcaGlobal THEN 0 ELSE Cardinality(BusyTracks)

\* Tracks are in hand only while their file's job is at its tracks; what comes
\* after has all of them.
OrderedAt(a) ==
    /\ inner[a] # "off" => job[a] = "hca"
    /\ job[a] # "hca" => TracksAt(a, {"wantSlot", "busy"}) = {}
    /\ inner[a] = "joining" => TracksAt(a, {"unsent"}) = {}
    /\ job[a] = "move" => \A n \in Tracks[a] : track[a][n] \in {"ok", "moved"}
    /\ job[a] \in {"remove", "ok"} => \A n \in Tracks[a] : track[a][n] = "moved"
    /\ a \notin files => job[a] = "ok"
    /\ \A n \in Tracks[a] : track[a][n] = "moved" => out[n] # Nobody

Ordered == \A a \in Acbs : OrderedAt(a)

\* What the feeder knows when it joins and when it returns.
Joined ==
    /\ feeder # "feeding" /\ ~stopped => \A a \in Acbs : job[a] # "unsent"
    /\ feeder \notin {"feeding", "joining"} => Busy = {}
    /\ feeder = "ok" => errs = 0 /\ ~stopped
    /\ errs = 0 => \A a \in Acbs : job[a] # "error"

IInv == Typed /\ AcbCount /\ HcaCount /\ Ordered /\ Joined

-----------------------------------------------------------------------------
\* The sets the limiters count are finite.
LEMMA SlottedFinite == IsFiniteSet(Slotted)
  BY AcbAssumption, FS_Subset DEF AcbAssumption, Slotted, Busy

\* So are the tracks.
LEMMA BusyTracksFinite == IsFiniteSet(BusyTracks)
<1>1. IsFiniteSet(Acbs \X Names)
  BY AcbAssumption, FS_Product DEF AcbAssumption
<1> QED
  BY <1>1, FS_Subset DEF BusyTracks

\* The initial state satisfies the invariant.
LEMMA InitInv == Init => IInv
<1> SUFFICES ASSUME Init PROVE IInv
  OBVIOUS
<1>1. Typed
  <2>1. \A a \in Acbs : track[a] \in [Tracks[a] -> Places]
    BY DEF Init, Places
  <2>2. track \in [Acbs -> UNION {[Tracks[a] -> Places] : a \in Acbs}]
    BY <2>1 DEF Init
  <2>3. job \in [Acbs -> Jobs] /\ out \in [Names -> Acbs \cup {Nobody}]
    BY DEF Init, Jobs
  <2>4. inner \in [Acbs -> {"off", "feeding", "joining", "cut"}]
    BY DEF Init
  <2>5. errs \in Nat /\ acbUsed \in Int /\ others \in Int /\ hcaUsed \in Int
    BY SMT DEF Init
  <2>6. stopped \in BOOLEAN /\ ctxDone \in BOOLEAN /\ files \subseteq Acbs
    BY Zenon DEF Init
  <2>7. feeder \in {"feeding", "joining", "ok", "errors", "cancelled"}
    BY DEF Init
  <2> QED
    BY <2>1, <2>2, <2>3, <2>4, <2>5, <2>6, <2>7 DEF Typed
<1>2. Slotted = {} /\ BusyTracks = {} /\ Busy = {}
  BY DEF Init, Slotted, Busy, InHand, BusyTracks, TracksAt
<1>3. AcbCount /\ HcaCount
  BY <1>2, FS_EmptySet DEF Init, AcbCount, HcaCount
<1>4. Ordered
  BY DEF Init, Ordered, OrderedAt, TracksAt
<1>5. Joined
  BY DEF Init, Joined
<1> QED
  BY <1>1, <1>3, <1>4, <1>5 DEF IInv

-----------------------------------------------------------------------------
(* One job, one track.                                                      *)

\* A job that takes or gives back its slot changes the count by what it holds.
LEMMA JobCounted ==
    ASSUME Typed, AcbCount, NEW a \in Acbs, NEW to \in Jobs,
           job' = [job EXCEPT ![a] = to], others' = others,
           acbUsed' = acbUsed + (IF to \in InHand \ {"wantSlot"} THEN 1 ELSE 0)
                              - (IF a \in Slotted THEN 1 ELSE 0)
    PROVE  AcbCount'
<1> USE DEF AcbCount
<1>1. /\ to \in InHand \ {"wantSlot"} => Slotted' = Slotted \cup {a}
      /\ to \notin InHand \ {"wantSlot"} => Slotted' = Slotted \ {a}
  BY DEF Typed, Slotted, Busy
<1>2. /\ Cardinality(Slotted) \in Nat
      /\ a \in Slotted => Cardinality(Slotted \ {a}) = Cardinality(Slotted) - 1
      /\ a \notin Slotted => Cardinality(Slotted \cup {a}) = Cardinality(Slotted) + 1
  BY SlottedFinite, FS_CardinalityType, FS_AddElement, FS_RemoveElement
<1>3. /\ a \in Slotted => Slotted \cup {a} = Slotted
      /\ a \notin Slotted => Slotted \ {a} = Slotted
  OBVIOUS
<1>s. /\ to \in InHand \ {"wantSlot"} /\ a \in Slotted => Slotted' = Slotted
      /\ to \notin InHand \ {"wantSlot"} /\ a \notin Slotted => Slotted' = Slotted
  BY <1>1, <1>3
<1>4. acbUsed \in Int /\ others \in Int
  BY DEF Typed
<1> DEFINE took == IF to \in InHand \ {"wantSlot"} THEN 1 ELSE 0
           gave == IF a \in Slotted THEN 1 ELSE 0
<1>5. Cardinality(Slotted') = Cardinality(Slotted) + took - gave
  <2>1. CASE to \in InHand \ {"wantSlot"} /\ a \in Slotted
    BY <1>2, <1>s, <2>1
  <2>2. CASE to \in InHand \ {"wantSlot"} /\ a \notin Slotted
    <3>1. Cardinality(Slotted') = Cardinality(Slotted \cup {a})
      BY <1>1, <2>2, Zenon
    <3> QED
      BY <1>2, <2>2, <3>1
  <2>3. CASE to \notin InHand \ {"wantSlot"} /\ a \in Slotted
    <3>1. Cardinality(Slotted') = Cardinality(Slotted \ {a})
      BY <1>1, <2>3, Zenon
    <3> QED
      BY <1>2, <2>3, <3>1
  <2>4. CASE to \notin InHand \ {"wantSlot"} /\ a \notin Slotted
    BY <1>2, <1>s, <2>4
  <2> QED
    BY <2>1, <2>2, <2>3, <2>4
<1>6. took \in Int /\ gave \in Int /\ acbUsed' = acbUsed + took - gave
  OBVIOUS
<1> HIDE DEF took, gave
<1> QED
  BY <1>2, <1>4, <1>5, <1>6

\* A track that moves leaves every other where it was.
LEMMA TrackMoves ==
    ASSUME Typed, NEW a \in Acbs, NEW n \in Tracks[a], NEW place \in Places,
           TrackTo(a, n, place)
    PROVE  /\ track' \in [Acbs -> UNION {[Tracks[b] -> Places] : b \in Acbs}]
           /\ \A b \in Acbs : track'[b] \in [Tracks[b] -> Places]
           /\ \A b \in Acbs : b # a => track'[b] = track[b]
           /\ \A m \in Tracks[a] : track'[a][m] = IF m = n THEN place ELSE track[a][m]
<1>1. /\ track'[a] = [track[a] EXCEPT ![n] = place]
      /\ \A b \in Acbs : b # a => track'[b] = track[b]
      /\ DOMAIN track' = Acbs /\ track' = [b \in Acbs |-> track'[b]]
  BY DEF Typed, TrackTo
<1>2. track[a] \in [Tracks[a] -> Places]
  BY DEF Typed
<1>3. /\ track'[a] \in [Tracks[a] -> Places]
      /\ \A m \in Tracks[a] : track'[a][m] = IF m = n THEN place ELSE track[a][m]
  BY <1>1, <1>2
<1>4. \A b \in Acbs : track'[b] \in [Tracks[b] -> Places]
  BY <1>1, <1>3 DEF Typed
<1>5. \A b \in Acbs : track'[b] \in UNION {[Tracks[c] -> Places] : c \in Acbs}
  BY <1>4
<1> QED
  BY <1>1, <1>3, <1>4, <1>5

\* A track that takes or gives back its slot changes the count by what it holds.
LEMMA TrackCounted ==
    ASSUME Typed, HcaCount, NEW a \in Acbs, NEW n \in Tracks[a], NEW place \in Places,
           TrackTo(a, n, place),
           hcaUsed' = IF HcaGlobal THEN hcaUsed + (IF place = "busy" THEN 1 ELSE 0)
                                        - (IF track[a][n] = "busy" THEN 1 ELSE 0)
                      ELSE hcaUsed
    PROVE  HcaCount'
<1> DEFINE p == <<a, n>>
<1>1. p \in Acbs \X Names
  BY AcbAssumption DEF AcbAssumption
<1>2. p \in BusyTracks <=> track[a][n] = "busy"
  BY <1>1 DEF BusyTracks, TracksAt
<1>3. /\ place = "busy" => BusyTracks' = BusyTracks \cup {p}
      /\ place # "busy" => BusyTracks' = BusyTracks \ {p}
  BY <1>1, TrackMoves DEF BusyTracks, TracksAt
<1>4. /\ Cardinality(BusyTracks) \in Nat
      /\ p \in BusyTracks => Cardinality(BusyTracks \ {p}) = Cardinality(BusyTracks) - 1
      /\ p \notin BusyTracks => Cardinality(BusyTracks \cup {p}) = Cardinality(BusyTracks) + 1
  BY BusyTracksFinite, FS_CardinalityType, FS_AddElement, FS_RemoveElement
<1>5. /\ p \in BusyTracks => BusyTracks \cup {p} = BusyTracks
      /\ p \notin BusyTracks => BusyTracks \ {p} = BusyTracks
  OBVIOUS
<1> DEFINE took == IF place = "busy" THEN 1 ELSE 0
           gave == IF track[a][n] = "busy" THEN 1 ELSE 0
<1>c. Cardinality(BusyTracks') = Cardinality(BusyTracks) + took - gave
  <2> HIDE DEF p
  <2>s. /\ place = "busy" /\ p \in BusyTracks => BusyTracks' = BusyTracks
        /\ place # "busy" /\ p \notin BusyTracks => BusyTracks' = BusyTracks
    BY <1>3, <1>5
  <2>1. CASE place = "busy" /\ p \in BusyTracks
    BY <1>2, <1>4, <2>s, <2>1
  <2>2. CASE place = "busy" /\ p \notin BusyTracks
    <3>1. Cardinality(BusyTracks') = Cardinality(BusyTracks \cup {p})
      BY <1>3, <2>2, Zenon
    <3> QED
      BY <1>2, <1>4, <2>2, <3>1
  <2>3. CASE place # "busy" /\ p \in BusyTracks
    <3>1. Cardinality(BusyTracks') = Cardinality(BusyTracks \ {p})
      BY <1>3, <2>3, Zenon
    <3> QED
      BY <1>2, <1>4, <2>3, <3>1
  <2>4. CASE place # "busy" /\ p \notin BusyTracks
    BY <1>2, <1>4, <2>s, <2>4
  <2> QED
    BY <2>1, <2>2, <2>3, <2>4
<1>i. took \in Int /\ gave \in Int /\ (HcaGlobal => hcaUsed' = hcaUsed + took - gave)
  OBVIOUS
<1> HIDE DEF p, took, gave
<1>6. CASE HcaGlobal
  BY <1>4, <1>c, <1>i, <1>6 DEF HcaCount, Typed
<1>7. CASE ~HcaGlobal
  BY <1>7 DEF HcaCount
<1> QED
  BY <1>6, <1>7, AcbAssumption DEF AcbAssumption

-----------------------------------------------------------------------------
(* Steps of a worker.                                                       *)

\* A worker has a job in hand.
LEMMA WorkerHasJob ==
    ASSUME IInv, NEW a \in Acbs, Worker(a)
    PROVE  job[a] \in InHand
<1>1. CASE TakeTrackSlot(a) \/ Decode(a)
  <2>1. TracksAt(a, {"wantSlot", "busy"}) # {}
    BY <1>1 DEF TakeTrackSlot, Decode, TracksAt
  <2> QED
    BY <2>1 DEF IInv, Ordered, OrderedAt, InHand
<1>2. CASE FeedTrack(a) \/ JoinTracks(a)
  BY <1>2 DEF FeedTrack, JoinTracks, IInv, Ordered, OrderedAt, InHand
<1>3. CASE TakeSlot(a) \/ Extract(a) \/ Move(a) \/ Remove(a)
  BY <1>3 DEF TakeSlot, Extract, Move, Remove, InHand
<1> QED
  BY <1>1, <1>2, <1>3 DEF Worker, Handles

\* The feeder's part survives a job that ends, with an error or without, and any
\* step of a job that goes on.
LEMMA JobJoined ==
    ASSUME IInv, NEW a \in Acbs, job[a] \in InHand, NEW to \in Jobs \ {"unsent"},
           job' = [job EXCEPT ![a] = to], UNCHANGED <<feeder, stopped>>,
           errs' \in Nat, errs' >= errs, to = "error" => errs' > 0
    PROVE  Joined'
<1>1. feeder \in {"feeding", "joining"}
  BY DEF IInv, Joined, Busy, Typed
<1> QED
  BY <1>1 DEF IInv, Joined, Busy, Typed

\* What is ordered of the other files stays so.
LEMMA OthersOrdered ==
    ASSUME IInv, NEW a \in Acbs, OrderedAt(a)',
           \A b \in Acbs \ {a} : /\ job'[b] = job[b] /\ inner'[b] = inner[b]
                                  /\ track'[b] = track[b] /\ (b \in files' <=> b \in files),
           \A n \in Names : out[n] # Nobody => out'[n] # Nobody
    PROVE  Ordered'
<1> SUFFICES ASSUME NEW b \in Acbs, b # a PROVE OrderedAt(b)'
  BY DEF Ordered
<1>1. OrderedAt(b) /\ Tracks[b] \subseteq Names
  BY AcbAssumption DEF IInv, Ordered, AcbAssumption
<1> QED
  BY <1>1 DEF OrderedAt, TracksAt

\* The ways a step leaves the job of its worker.
LEMMA FailsInv ==
    ASSUME IInv, NEW a \in Acbs, job[a] \in InHand \ {"wantSlot"}, Fails(a),
           UNCHANGED <<feeder, stopped, others>>
    PROVE  /\ AcbCount' /\ Joined' /\ job' = [job EXCEPT ![a] = "error"]
           /\ job' \in [Acbs -> Jobs] /\ errs' \in Nat /\ acbUsed' \in Int
<1>1. "error" \in Jobs \ {"unsent"} /\ "error" \notin InHand
  BY DEF Jobs, InHand, Ended
<1>2. job' = [job EXCEPT ![a] = "error"] /\ errs' = errs + 1 /\ acbUsed' = acbUsed - 1
  BY DEF Fails
<1>3. errs \in Nat /\ acbUsed \in Int /\ job \in [Acbs -> Jobs]
  BY DEF IInv, Typed
<1>4. Joined'
  <2>1. errs' \in Nat /\ errs' >= errs /\ errs' > 0
    BY <1>2, <1>3
  <2>2. UNCHANGED <<feeder, stopped>> /\ job[a] \in InHand
    OBVIOUS
  <2> QED
    BY <1>1, <1>2, <2>1, <2>2, JobJoined
<1>5. a \in Slotted
  BY DEF Slotted, Busy
<1>6. AcbCount'
  <2>1. acbUsed' = acbUsed + 0 - 1
    BY <1>2, <1>3
  <2> QED
    BY <1>1, <1>2, <1>5, <2>1, JobCounted DEF IInv
<1> QED
  BY <1>1, <1>2, <1>3, <1>4, <1>6

\* A job that goes on with its slot keeps the count and the feeder's part.
LEMMA AdvancesInv ==
    ASSUME IInv, NEW a \in Acbs, job[a] \in InHand \ {"wantSlot"},
           NEW to \in InHand \ {"wantSlot"}, Advances(a, to),
           UNCHANGED <<feeder, stopped, others>>
    PROVE  /\ AcbCount' /\ Joined' /\ job' = [job EXCEPT ![a] = to]
           /\ job' \in [Acbs -> Jobs] /\ errs' \in Nat /\ acbUsed' \in Int
<1>1. to \in Jobs \ {"unsent"} /\ to # "error"
  BY DEF Jobs, InHand
<1>2. job' = [job EXCEPT ![a] = to] /\ errs' = errs /\ acbUsed' = acbUsed
  BY DEF Advances
<1>3. errs \in Nat /\ acbUsed \in Int /\ job \in [Acbs -> Jobs]
  BY DEF IInv, Typed
<1>4. Joined'
  <2>1. errs' \in Nat /\ errs' >= errs
    BY <1>2, <1>3
  <2>2. UNCHANGED <<feeder, stopped>> /\ job[a] \in InHand
    OBVIOUS
  <2> QED
    BY <1>1, <1>2, <2>1, <2>2, JobJoined
<1>5. a \in Slotted
  BY DEF Slotted, Busy
<1>6. AcbCount'
  <2>1. acbUsed' = acbUsed + 1 - 1
    BY <1>2, <1>3
  <2> QED
    BY <1>1, <1>2, <1>5, <2>1, JobCounted DEF IInv
<1> QED
  BY <1>1, <1>2, <1>3, <1>4, <1>6

\* A step that moves no job leaves the count of the jobs and the feeder's part.
LEMMA JobStill ==
    ASSUME IInv, UNCHANGED <<feeder, stopped, job, errs, acbUsed, others>>
    PROVE  AcbCount' /\ Joined'
  BY DEF IInv, AcbCount, Slotted, Busy, Joined

\* One that moves no track leaves the count of the tracks.
LEMMA TrackStill ==
    ASSUME IInv, UNCHANGED <<track, hcaUsed>>
    PROVE  HcaCount'
  BY DEF IInv, HcaCount, BusyTracks, TracksAt

-----------------------------------------------------------------------------
(* The actions.                                                             *)

\* Taking a slot.
LEMMA TakeSlotInv ==
    ASSUME IInv, NEW a \in Acbs, TakeSlot(a)
    PROVE  IInv'
<1> USE DEF TakeSlot
<1>1. /\ job[a] = "wantSlot" /\ a \notin Slotted
      /\ "extract" \in Jobs \ {"unsent"} /\ "error" \in Jobs \ {"unsent"}
      /\ "extract" \in InHand \ {"wantSlot"} /\ "error" \notin InHand
      /\ job[a] \in InHand
  BY DEF Slotted, Jobs, InHand, Ended
<1>2. errs \in Nat /\ acbUsed \in Int /\ job \in [Acbs -> Jobs]
  BY DEF IInv, Typed
<1>3. /\ AcbCount' /\ Joined' /\ errs' \in Nat /\ acbUsed' \in Int
      /\ job' \in [Acbs -> Jobs] /\ job'[a] \in {"extract", "error"}
      /\ \A b \in Acbs \ {a} : job'[b] = job[b]
  <2>1. CASE acbUsed' = acbUsed + 1 /\ job' = [job EXCEPT ![a] = "extract"] /\ UNCHANGED errs
    <3>1. acbUsed' = acbUsed + 1 - 0
      BY <1>2, <2>1
    <3>2. AcbCount'
      BY <1>1, <2>1, <3>1, JobCounted DEF IInv
    <3>3. errs' \in Nat /\ errs' >= errs
      BY <1>2, <2>1
    <3>4. Joined'
      BY <1>1, <2>1, <3>3, JobJoined
    <3> QED
      BY <1>1, <1>2, <2>1, <3>2, <3>3, <3>4
  <2>2. CASE errs' = errs + 1 /\ job' = [job EXCEPT ![a] = "error"] /\ UNCHANGED acbUsed
    <3>1. acbUsed' = acbUsed + 0 - 0
      BY <1>2, <2>2
    <3>2. AcbCount'
      BY <1>1, <2>2, <3>1, JobCounted DEF IInv
    <3>3. errs' \in Nat /\ errs' >= errs /\ errs' > 0
      BY <1>2, <2>2
    <3>4. Joined'
      BY <1>1, <2>2, <3>3, JobJoined
    <3> QED
      BY <1>1, <1>2, <2>2, <3>2, <3>3, <3>4
  <2> QED
    BY <2>1, <2>2
<1>4. Typed'
  BY <1>3 DEF IInv, Typed
<1>5. OrderedAt(a)'
  BY <1>1, <1>3 DEF IInv, Ordered, OrderedAt, TracksAt
<1>6. Ordered'
  BY <1>3, <1>5, OthersOrdered
<1>7. HcaCount'
  BY TrackStill
<1> QED
  BY <1>3, <1>4, <1>6, <1>7 DEF IInv

\* Extracting an ACB file.
LEMMA ExtractInv ==
    ASSUME IInv, NEW a \in Acbs, Extract(a)
    PROVE  IInv'
<1> USE DEF Extract
<1>1. job[a] = "extract" /\ job[a] \in InHand \ {"wantSlot"} /\ UNCHANGED <<feeder, stopped, others>>
  BY DEF InHand
<1>2. /\ AcbCount' /\ Joined' /\ errs' \in Nat /\ acbUsed' \in Int
      /\ job' \in [Acbs -> Jobs]
      /\ \/ job' = [job EXCEPT ![a] = "error"] /\ UNCHANGED inner
         \/ job' = [job EXCEPT ![a] = "hca"] /\ inner' = [inner EXCEPT ![a] = "feeding"]
         \/ job' = [job EXCEPT ![a] = "remove"] /\ Tracks[a] = {} /\ UNCHANGED inner
  <2>1. CASE Fails(a) /\ UNCHANGED inner
    BY <1>1, <2>1, FailsInv
  <2>2. CASE Advances(a, "hca") /\ inner' = [inner EXCEPT ![a] = "feeding"]
    <3>1. "hca" \in InHand \ {"wantSlot"}
      BY DEF InHand
    <3> QED
      BY <1>1, <2>2, <3>1, AdvancesInv
  <2>3. CASE Tracks[a] = {} /\ Advances(a, "remove") /\ UNCHANGED inner
    <3>1. "remove" \in InHand \ {"wantSlot"}
      BY DEF InHand
    <3> QED
      BY <1>1, <2>3, <3>1, AdvancesInv
  <2> QED
    BY <2>1, <2>2, <2>3
<1>3. Typed'
  BY <1>2 DEF IInv, Typed
<1>4. OrderedAt(a)'
  <2>1. /\ OrderedAt(a) /\ job[a] = "extract" /\ inner[a] = "off"
        /\ TracksAt(a, {"wantSlot", "busy"})' = {} /\ a \in files
        /\ UNCHANGED <<track, files, out>>
    BY <1>1 DEF IInv, Ordered, OrderedAt, Typed, TracksAt
  <2>2. CASE job' = [job EXCEPT ![a] = "error"] /\ UNCHANGED inner
    <3>1. job'[a] = "error" /\ inner'[a] = "off"
      BY <2>1, <2>2 DEF IInv, Typed
    <3> QED
      BY <2>1, <3>1 DEF OrderedAt
  <2>3. CASE job' = [job EXCEPT ![a] = "hca"] /\ inner' = [inner EXCEPT ![a] = "feeding"]
    <3>1. job'[a] = "hca" /\ inner'[a] = "feeding"
      BY <2>3 DEF IInv, Typed
    <3> QED
      BY <2>1, <3>1 DEF OrderedAt
  <2>4. CASE job' = [job EXCEPT ![a] = "remove"] /\ Tracks[a] = {} /\ UNCHANGED inner
    <3>1. job'[a] = "remove" /\ inner'[a] = "off"
      BY <2>1, <2>4 DEF IInv, Typed
    <3> QED
      BY <2>1, <2>4, <3>1 DEF OrderedAt
  <2> QED
    BY <1>2, <2>2, <2>3, <2>4
<1>5. Ordered'
  <2>1. \A b \in Acbs \ {a} : job'[b] = job[b] /\ inner'[b] = inner[b]
    BY <1>2 DEF IInv, Typed
  <2> QED
    BY <1>4, <2>1, OthersOrdered
<1>6. HcaCount'
  BY TrackStill
<1> QED
  BY <1>2, <1>3, <1>5, <1>6 DEF IInv

\* Feeding the tracks of a file.
LEMMA FeedTrackInv ==
    ASSUME IInv, NEW a \in Acbs, FeedTrack(a)
    PROVE  IInv'
<1>1. inner[a] = "feeding" /\ job[a] = "hca"
  BY DEF FeedTrack, IInv, Ordered, OrderedAt
<1>2. AcbCount' /\ Joined'
  BY JobStill DEF FeedTrack
<1>3. CASE \E n \in TracksAt(a, {"unsent"}) : TrackTo(a, n, "wantSlot") /\ UNCHANGED inner
  <2>1. PICK n \in Tracks[a] : track[a][n] = "unsent" /\ TrackTo(a, n, "wantSlot") /\ UNCHANGED inner
    BY <1>3 DEF TracksAt
  <2>2. "wantSlot" \in Places
    BY DEF Places
  <2>3. /\ track' \in [Acbs -> UNION {[Tracks[b] -> Places] : b \in Acbs}]
        /\ \A b \in Acbs : track'[b] \in [Tracks[b] -> Places]
        /\ \A b \in Acbs : b # a => track'[b] = track[b]
        /\ \A m \in Tracks[a] : track'[a][m] = IF m = n THEN "wantSlot" ELSE track[a][m]
    BY <2>1, <2>2, TrackMoves DEF IInv
  <2>4. Typed'
    BY <2>1, <2>3 DEF FeedTrack, IInv, Typed
  <2>5. OrderedAt(a)'
    BY <1>1, <2>1, <2>3 DEF FeedTrack, IInv, Ordered, OrderedAt, TracksAt
  <2>6. Ordered'
    BY <2>1, <2>3, <2>5, OthersOrdered DEF FeedTrack
  <2>7. HcaCount'
    <3>1. hcaUsed' = IF HcaGlobal THEN hcaUsed + 0 - 0 ELSE hcaUsed
      BY DEF FeedTrack, IInv, Typed
    <3> QED
      BY <2>1, <2>2, <3>1, TrackCounted DEF IInv
  <2> QED
    BY <1>2, <2>4, <2>6, <2>7 DEF IInv
<1>4. CASE /\ UNCHANGED track
           /\ \/ inner' = [inner EXCEPT ![a] = "cut"]
              \/ TracksAt(a, {"unsent"}) = {} /\ inner' = [inner EXCEPT ![a] = "joining"]
  <2>1. Typed'
    BY <1>4 DEF FeedTrack, IInv, Typed
  <2>2. OrderedAt(a)'
    BY <1>1, <1>4 DEF FeedTrack, IInv, Ordered, OrderedAt, TracksAt, Typed
  <2>3. \A b \in Acbs \ {a} : inner'[b] = inner[b]
    BY <1>4 DEF IInv, Typed
  <2>4. Ordered'
    BY <1>4, <2>2, <2>3, OthersOrdered DEF FeedTrack
  <2>5. HcaCount'
    BY <1>4, TrackStill DEF FeedTrack
  <2> QED
    BY <1>2, <2>1, <2>4, <2>5 DEF IInv
<1> QED
  BY <1>3, <1>4 DEF FeedTrack

\* A track in hand goes to another place of the pool or ends there.
LEMMA TrackStep ==
    ASSUME IInv, NEW a \in Acbs, NEW n \in Tracks[a], NEW place \in {"busy"} \cup Ended,
           track[a][n] \in {"wantSlot", "busy"}, TrackTo(a, n, place),
           UNCHANGED <<feeder, stopped, job, errs, acbUsed, others, inner, files, out, ctxDone>>,
           hcaUsed' = IF HcaGlobal THEN hcaUsed + (IF place = "busy" THEN 1 ELSE 0)
                                        - (IF track[a][n] = "busy" THEN 1 ELSE 0)
                      ELSE hcaUsed
    PROVE  IInv'
<1>1. AcbCount' /\ Joined'
  BY JobStill
<1>2. place \in Places
  BY DEF Places
<1>3. /\ track' \in [Acbs -> UNION {[Tracks[b] -> Places] : b \in Acbs}]
      /\ \A b \in Acbs : track'[b] \in [Tracks[b] -> Places]
      /\ \A b \in Acbs : b # a => track'[b] = track[b]
      /\ \A m \in Tracks[a] : track'[a][m] = IF m = n THEN place ELSE track[a][m]
  BY <1>2, TrackMoves DEF IInv
<1>4. HcaCount'
  BY <1>2, TrackCounted DEF IInv
<1>5. hcaUsed' \in Int
  BY DEF IInv, Typed
<1>6. Typed'
  BY <1>3, <1>5 DEF IInv, Typed
<1>7. job[a] = "hca"
  BY DEF IInv, Ordered, OrderedAt, TracksAt
<1>8. OrderedAt(a)'
  BY <1>3, <1>7 DEF IInv, Ordered, OrderedAt, TracksAt, Ended
<1>9. Ordered'
  BY <1>3, <1>8, OthersOrdered
<1> QED
  BY <1>1, <1>4, <1>6, <1>9 DEF IInv

\* A track's turn at the limiter.
LEMMA TakeTrackSlotInv ==
    ASSUME IInv, NEW a \in Acbs, TakeTrackSlot(a)
    PROVE  IInv'
<1>1. PICK n \in Tracks[a] :
          /\ track[a][n] = "wantSlot"
          /\ \/ /\ hcaUsed' = IF HcaGlobal THEN hcaUsed + 1 ELSE hcaUsed
                /\ TrackTo(a, n, "busy")
             \/ TrackTo(a, n, "error") /\ UNCHANGED hcaUsed
          /\ UNCHANGED <<feeder, stopped, job, errs, acbUsed, others, inner, files, out, ctxDone>>
  BY DEF TakeTrackSlot, TracksAt
<1>2. "error" \in Ended /\ hcaUsed \in Int
  BY DEF Ended, IInv, Typed
<1>3. CASE TrackTo(a, n, "busy") /\ hcaUsed' = IF HcaGlobal THEN hcaUsed + 1 ELSE hcaUsed
  <2>1. hcaUsed' = IF HcaGlobal THEN hcaUsed + 1 - 0 ELSE hcaUsed
    BY <1>2, <1>3
  <2> QED
    BY <1>1, <1>3, <2>1, TrackStep
<1>4. CASE TrackTo(a, n, "error") /\ UNCHANGED hcaUsed
  <2>1. hcaUsed' = IF HcaGlobal THEN hcaUsed + 0 - 0 ELSE hcaUsed
    BY <1>2, <1>4
  <2> QED
    BY <1>1, <1>2, <1>4, <2>1, TrackStep
<1> QED
  BY <1>1, <1>3, <1>4

\* Decoding a track.
LEMMA DecodeInv ==
    ASSUME IInv, NEW a \in Acbs, Decode(a)
    PROVE  IInv'
<1>1. PICK n \in Tracks[a], how \in Ended :
          /\ track[a][n] = "busy" /\ TrackTo(a, n, how)
          /\ hcaUsed' = IF HcaGlobal THEN hcaUsed - 1 ELSE hcaUsed
          /\ UNCHANGED <<feeder, stopped, job, errs, acbUsed, others, inner, files, out, ctxDone>>
  BY DEF Decode, TracksAt
<1>2. hcaUsed \in Int /\ how # "busy"
  BY DEF Ended, IInv, Typed
<1>3. hcaUsed' = IF HcaGlobal THEN hcaUsed + 0 - 1 ELSE hcaUsed
  BY <1>1, <1>2
<1> QED
  BY <1>1, <1>2, <1>3, TrackStep

\* Joining the tracks of a file.
LEMMA JoinTracksInv ==
    ASSUME IInv, NEW a \in Acbs, JoinTracks(a)
    PROVE  IInv'
<1> USE DEF JoinTracks
<1>1. /\ job[a] = "hca" /\ job[a] \in InHand \ {"wantSlot"}
      /\ UNCHANGED <<feeder, stopped, others>> /\ OrderedAt(a) /\ a \in files
      /\ inner' \in [Acbs -> {"off", "feeding", "joining", "cut"}]
      /\ inner'[a] = "off" /\ \A b \in Acbs \ {a} : inner'[b] = inner[b]
  BY DEF IInv, Ordered, OrderedAt, InHand, Typed
<1>2. /\ AcbCount' /\ Joined' /\ errs' \in Nat /\ acbUsed' \in Int
      /\ job' \in [Acbs -> Jobs]
      /\ \/ job' = [job EXCEPT ![a] = "error"]
         \/ job' = [job EXCEPT ![a] = "move"] /\ TracksDone(a)
  <2>1. CASE Fails(a)
    BY <1>1, <2>1, FailsInv
  <2>2. CASE Advances(a, "move") /\ TracksDone(a)
    <3>1. "move" \in InHand \ {"wantSlot"}
      BY DEF InHand
    <3> QED
      BY <1>1, <2>2, <3>1, AdvancesInv
  <2> QED
    BY <2>1, <2>2
<1>3. Typed'
  BY <1>1, <1>2 DEF IInv, Typed
<1>4. job'[a] \in {"error", "move"} /\ \A b \in Acbs \ {a} : job'[b] = job[b]
  BY <1>2 DEF IInv, Typed
<1>5. OrderedAt(a)'
  <2>1. TracksAt(a, {"wantSlot", "busy"})' = {} /\ UNCHANGED <<track, files, out>>
    BY DEF TracksAt
  <2>2. ASSUME job'[a] = "move", NEW n \in Tracks[a]
        PROVE  track'[a][n] \in {"ok", "moved"}
    <3>1. TracksDone(a)
      BY <1>2, <2>2 DEF IInv, Typed
    <3>2. inner[a] = "joining" /\ TracksAt(a, {"error"}) = {} /\ TracksAt(a, {"unsent"}) = {}
      BY <1>1, <3>1 DEF TracksDone, OrderedAt
    <3>3. track[a][n] \in Places
      BY DEF IInv, Typed
    <3>4. track[a][n] \notin {"error", "unsent", "wantSlot", "busy"}
      BY <3>2 DEF TracksAt
    <3> QED
      BY <3>3, <3>4 DEF Places, Ended
  <2> QED
    BY <1>1, <1>4, <2>1, <2>2 DEF OrderedAt
<1>6. Ordered'
  BY <1>1, <1>4, <1>5, OthersOrdered
<1>7. HcaCount'
  BY TrackStill
<1> QED
  BY <1>2, <1>3, <1>6, <1>7 DEF IInv

\* Moving one result, or the end of the moving.
LEMMA MoveInv ==
    ASSUME IInv, NEW a \in Acbs, Move(a)
    PROVE  IInv'
<1>1. /\ job[a] = "move" /\ job[a] \in InHand \ {"wantSlot"} /\ a \in files
      /\ UNCHANGED <<feeder, stopped, others, inner, hcaUsed, files, ctxDone>>
      /\ inner[a] = "off" /\ OrderedAt(a) /\ TracksAt(a, {"wantSlot", "busy"}) = {}
  BY DEF Move, InHand, IInv, Ordered, OrderedAt
<1>2. CASE \E n \in TracksAt(a, {"ok"}) :
              /\ TrackTo(a, n, "moved")
              /\ out' = [out EXCEPT ![n] = a] /\ UNCHANGED <<job, errs, acbUsed>>
  <2>1. PICK n \in Tracks[a] :
              /\ track[a][n] = "ok" /\ TrackTo(a, n, "moved")
              /\ out' = [out EXCEPT ![n] = a] /\ UNCHANGED <<job, errs, acbUsed>>
    BY <1>2 DEF TracksAt
  <2>2. "moved" \in Places /\ n \in Names /\ a # Nobody
    BY AcbAssumption DEF Places, AcbAssumption
  <2>3. /\ track' \in [Acbs -> UNION {[Tracks[b] -> Places] : b \in Acbs}]
        /\ \A b \in Acbs : track'[b] \in [Tracks[b] -> Places]
        /\ \A b \in Acbs : b # a => track'[b] = track[b]
        /\ \A m \in Tracks[a] : track'[a][m] = IF m = n THEN "moved" ELSE track[a][m]
    BY <2>1, <2>2, TrackMoves DEF IInv
  <2>4. /\ out' \in [Names -> Acbs \cup {Nobody}] /\ out'[n] = a
        /\ \A m \in Names \ {n} : out'[m] = out[m]
    BY <2>1, <2>2 DEF IInv, Typed
  <2>5. Typed'
    BY <1>1, <2>1, <2>3, <2>4 DEF IInv, Typed
  <2>6. OrderedAt(a)'
    <3>1. TracksAt(a, {"wantSlot", "busy"})' = {}
      BY <1>1, <2>3 DEF TracksAt
    <3>2. Tracks[a] \subseteq Names
      BY AcbAssumption DEF AcbAssumption
    <3>3. \A m \in Tracks[a] : track'[a][m] = "moved" => out'[m] # Nobody
      BY <1>1, <2>2, <2>3, <2>4, <3>2 DEF OrderedAt
    <3>4. \A m \in Tracks[a] : track'[a][m] \in {"ok", "moved"}
      BY <1>1, <2>3 DEF OrderedAt
    <3> QED
      BY <1>1, <2>1, <3>1, <3>3, <3>4 DEF OrderedAt
  <2>7. Ordered'
    BY <1>1, <2>1, <2>2, <2>3, <2>4, <2>6, OthersOrdered
  <2>8. HcaCount'
    <3>1. hcaUsed' = IF HcaGlobal THEN hcaUsed + 0 - 0 ELSE hcaUsed
      BY <1>1 DEF IInv, Typed
    <3> QED
      BY <2>1, <2>2, <3>1, TrackCounted DEF IInv
  <2>9. AcbCount' /\ Joined'
    BY <1>1, <2>1, JobStill
  <2> QED
    BY <2>5, <2>7, <2>8, <2>9 DEF IInv
<1>3. CASE /\ UNCHANGED <<track, out>>
           /\ Fails(a) \/ (TracksAt(a, {"ok"}) = {} /\ Advances(a, "remove"))
  <2>1. /\ AcbCount' /\ Joined' /\ errs' \in Nat /\ acbUsed' \in Int
        /\ job' \in [Acbs -> Jobs]
        /\ \/ job' = [job EXCEPT ![a] = "error"]
           \/ job' = [job EXCEPT ![a] = "remove"] /\ TracksAt(a, {"ok"}) = {}
    <3>1. CASE Fails(a)
      BY <1>1, <3>1, FailsInv
    <3>2. CASE TracksAt(a, {"ok"}) = {} /\ Advances(a, "remove")
      <4>1. "remove" \in InHand \ {"wantSlot"}
        BY DEF InHand
      <4> QED
        BY <1>1, <3>2, <4>1, AdvancesInv
    <3> QED
      BY <1>3, <3>1, <3>2
  <2>2. /\ \A b \in Acbs \ {a} : job'[b] = job[b]
        /\ job'[a] = "error" \/ (job'[a] = "remove" /\ TracksAt(a, {"ok"}) = {})
    BY <2>1 DEF IInv, Typed
  <2>3. Typed'
    BY <1>1, <1>3, <2>1 DEF IInv, Typed
  <2>4. OrderedAt(a)'
    BY <1>1, <1>3, <2>2 DEF OrderedAt, TracksAt
  <2>5. Ordered'
    BY <1>1, <1>3, <2>2, <2>4, OthersOrdered
  <2>6. HcaCount'
    BY <1>1, <1>3, TrackStill
  <2> QED
    BY <2>1, <2>3, <2>5, <2>6 DEF IInv
<1> QED
  BY <1>2, <1>3 DEF Move

\* The removal of the ACB file ends the job.
LEMMA RemoveInv ==
    ASSUME IInv, NEW a \in Acbs, Remove(a)
    PROVE  IInv'
<1>1. /\ job[a] = "remove" /\ job[a] \in InHand \ {"wantSlot"} /\ a \in Slotted
      /\ UNCHANGED <<feeder, stopped, others, inner, track, hcaUsed, out, ctxDone>>
      /\ inner[a] = "off" /\ OrderedAt(a) /\ a \in files
      /\ TracksAt(a, {"wantSlot", "busy"}) = {}
  BY DEF Remove, InHand, Slotted, Busy, IInv, Ordered, OrderedAt
<1>2. /\ AcbCount' /\ Joined' /\ errs' \in Nat /\ acbUsed' \in Int
      /\ job' \in [Acbs -> Jobs]
      /\ \/ job' = [job EXCEPT ![a] = "error"] /\ UNCHANGED files
         \/ job' = [job EXCEPT ![a] = "ok"] /\ files' = files \ {a}
  <2>1. CASE Fails(a) /\ UNCHANGED files
    BY <1>1, <2>1, FailsInv
  <2>2. CASE /\ files' = files \ {a} /\ acbUsed' = acbUsed - 1
             /\ job' = [job EXCEPT ![a] = "ok"] /\ UNCHANGED errs
    <3>1. "ok" \in Jobs \ {"unsent"} /\ "ok" \notin InHand
      BY DEF Jobs, InHand, Ended
    <3>2. errs \in Nat /\ acbUsed \in Int /\ job \in [Acbs -> Jobs]
      BY DEF IInv, Typed
    <3>3. acbUsed' = acbUsed + 0 - 1
      BY <2>2, <3>2
    <3>4. AcbCount'
      BY <1>1, <2>2, <3>1, <3>3, JobCounted DEF IInv
    <3>5. errs' \in Nat /\ errs' >= errs
      BY <2>2, <3>2
    <3>6. Joined'
      BY <1>1, <2>2, <3>1, <3>5, JobJoined
    <3> QED
      BY <2>2, <3>1, <3>2, <3>3, <3>4, <3>5, <3>6
  <2> QED
    BY <2>1, <2>2 DEF Remove
<1>3. /\ \A b \in Acbs \ {a} : job'[b] = job[b] /\ (b \in files' <=> b \in files)
      /\ \/ job'[a] = "error" /\ a \in files'
         \/ job'[a] = "ok"
  BY <1>1, <1>2 DEF IInv, Typed
<1>4. Typed'
  BY <1>1, <1>2 DEF IInv, Typed
<1>5. OrderedAt(a)'
  BY <1>1, <1>3 DEF OrderedAt, TracksAt
<1>6. Ordered'
  BY <1>1, <1>3, <1>5, OthersOrdered
<1>7. HcaCount'
  BY <1>1, TrackStill
<1> QED
  BY <1>2, <1>4, <1>6, <1>7 DEF IInv

\* A step that touches no file's part leaves the order.
LEMMA OrderStill ==
    ASSUME IInv, UNCHANGED <<job, inner, track, files, out>>
    PROVE  Ordered'
  BY DEF IInv, Ordered, OrderedAt, TracksAt

\* The send loop of handleACBFiles.
LEMMA FeedInv ==
    ASSUME IInv, Feed
    PROVE  IInv'
<1>1. /\ feeder = "feeding" /\ HcaCount'
      /\ UNCHANGED <<errs, acbUsed, others, inner, track, hcaUsed, files, out, ctxDone>>
  BY TrackStill DEF Feed
<1>2. CASE \E a \in Acbs : /\ job[a] = "unsent" /\ job' = [job EXCEPT ![a] = "wantSlot"]
                           /\ UNCHANGED <<feeder, stopped>>
  <2>1. PICK a \in Acbs : /\ job[a] = "unsent" /\ job' = [job EXCEPT ![a] = "wantSlot"]
                          /\ UNCHANGED <<feeder, stopped>>
    BY <1>2
  <2>2. "wantSlot" \in Jobs /\ "wantSlot" \in InHand /\ a \notin Slotted
    BY <2>1 DEF Jobs, InHand, Slotted, Busy
  <2>3. job' \in [Acbs -> Jobs] /\ job'[a] = "wantSlot" /\ \A b \in Acbs \ {a} : job'[b] = job[b]
    BY <2>1, <2>2 DEF IInv, Typed
  <2>4. Typed'
    BY <1>1, <2>1, <2>3 DEF IInv, Typed
  <2>5. acbUsed' = acbUsed + 0 - 0
    BY <1>1 DEF IInv, Typed
  <2>6. AcbCount'
    BY <1>1, <2>1, <2>2, <2>5, JobCounted DEF IInv
  <2>7. OrderedAt(a)'
    BY <1>1, <2>1, <2>3 DEF IInv, Ordered, OrderedAt, TracksAt
  <2>8. Ordered'
    BY <1>1, <2>3, <2>7, OthersOrdered
  <2>9. Joined'
    BY <1>1, <2>1, <2>3 DEF IInv, Joined
  <2> QED
    BY <1>1, <2>4, <2>6, <2>8, <2>9 DEF IInv
<1>3. CASE /\ feeder' = "joining" /\ UNCHANGED job
           /\ stopped' = TRUE \/ (stopped' = stopped /\ \A a \in Acbs : job[a] # "unsent")
  <2>1. stopped' \in BOOLEAN
    BY <1>3 DEF IInv, Typed
  <2>2. Typed'
    BY <1>1, <1>3, <2>1 DEF IInv, Typed
  <2>3. AcbCount'
    BY <1>1, <1>3 DEF IInv, AcbCount, Slotted, Busy
  <2>4. Ordered'
    BY <1>1, <1>3, OrderStill
  <2>5. Joined'
    BY <1>1, <1>3 DEF IInv, Joined
  <2> QED
    BY <1>1, <2>2, <2>3, <2>4, <2>5 DEF IInv
<1> QED
  BY <1>2, <1>3 DEF Feed, StoppedByCtx

\* What handleACBFiles returns after its workers.
LEMMA JoinInv ==
    ASSUME IInv, Join
    PROVE  IInv'
<1> USE DEF Join
<1>1. /\ feeder' \in {"ok", "errors", "cancelled"}
      /\ feeder' = "ok" => ~stopped /\ ~(errs > 0)
  OBVIOUS
<1>2. Typed'
  BY <1>1 DEF IInv, Typed
<1>3. AcbCount' /\ HcaCount' /\ Ordered'
  BY TrackStill, OrderStill DEF IInv, AcbCount, Slotted, Busy
<1>4. Joined'
  <2>1. feeder' = "ok" => errs = 0 /\ ~stopped
    BY <1>1 DEF IInv, Typed
  <2>2. Busy' = {}
    BY DEF Busy
  <2> QED
    BY <1>1, <2>1, <2>2 DEF IInv, Joined
<1> QED
  BY <1>2, <1>3, <1>4 DEF IInv

\* Other tasks come and go; the context ends; a stutter.
LEMMA OutsideInv ==
    ASSUME IInv, OthersTake \/ OthersLeave \/ ContextEnds \/ UNCHANGED vars
    PROVE  IInv'
<1> USE DEF OthersTake, OthersLeave, ContextEnds, vars
<1>1. /\ UNCHANGED <<feeder, stopped, job, errs, inner, track, hcaUsed, files, out>>
      /\ ctxDone' \in {TRUE, ctxDone}
      /\ \/ UNCHANGED <<acbUsed, others>>
         \/ acbUsed' = acbUsed + 1 /\ others' = others + 1
         \/ acbUsed' = acbUsed - 1 /\ others' = others - 1
  BY Zenon
<1>2. acbUsed \in Int /\ others \in Int /\ ctxDone' \in BOOLEAN
  BY <1>1 DEF IInv, Typed
<1>3. acbUsed' \in Int /\ others' \in Int
  BY <1>1, <1>2
<1>4. Typed'
  BY <1>1, <1>2, <1>3 DEF IInv, Typed
<1>5. AcbCount'
  <2>1. Slotted' = Slotted /\ Cardinality(Slotted) \in Nat
    BY <1>1, SlottedFinite, FS_CardinalityType DEF Slotted, Busy
  <2> QED
    BY <1>1, <1>2, <2>1 DEF IInv, AcbCount
<1>6. HcaCount' /\ Ordered'
  BY <1>1, TrackStill, OrderStill
<1>7. Joined'
  BY <1>1 DEF IInv, Joined, Busy
<1> QED
  BY <1>4, <1>5, <1>6, <1>7 DEF IInv

\* Every step keeps the invariant.
LEMMA NextInv == IInv /\ [Next]_vars => IInv'
<1> SUFFICES ASSUME IInv, [Next]_vars PROVE IInv'
  OBVIOUS
<1>1. ASSUME NEW a \in Acbs, Worker(a) PROVE IInv'
  BY <1>1, TakeSlotInv, ExtractInv, FeedTrackInv, TakeTrackSlotInv, DecodeInv,
     JoinTracksInv, MoveInv, RemoveInv DEF Worker, Handles
<1> QED
  BY <1>1, FeedInv, JoinInv, OutsideInv DEF Next

-----------------------------------------------------------------------------
\* The invariant holds in every behaviour of the pools.
THEOREM Invariance == Spec => []IInv
<1>1. Init => IInv
  BY InitInv
<1>2. IInv /\ [Next]_vars => IInv'
  BY NextInv
<1> QED
  BY <1>1, <1>2, PTL DEF Spec

\* The counters stay within their bounds, and so the state has its type.
Bounds == errs <= Cardinality(Acbs) /\ acbUsed <= AcbCap /\ others >= 0

\* No step takes a slot that is not free or reports more errors than fit.
LEMMA BoundsInv == IInv /\ Bounds /\ [Next]_vars => Bounds'
<1> SUFFICES ASSUME IInv, Bounds, [Next]_vars PROVE Bounds'
  OBVIOUS
<1>1. /\ errs \in Nat /\ acbUsed \in Int /\ others \in Int /\ AcbCap \in Nat
      /\ Cardinality(Acbs) \in Nat
  BY AcbAssumption, FS_CardinalityType DEF IInv, Typed, AcbAssumption
<1>2. /\ \/ UNCHANGED errs
         \/ errs < Cardinality(Acbs) /\ errs' = errs + 1
      /\ \/ acbUsed' = acbUsed \/ acbUsed' = acbUsed - 1
         \/ acbUsed < AcbCap /\ acbUsed' = acbUsed + 1
      /\ \/ others' = others \/ others' = others + 1
         \/ others > 0 /\ others' = others - 1
  <2>1. ASSUME NEW a \in Acbs, Worker(a)
        PROVE  /\ UNCHANGED others
               /\ \/ UNCHANGED errs
                  \/ errs < Cardinality(Acbs) /\ errs' = errs + 1
               /\ \/ acbUsed' = acbUsed \/ acbUsed' = acbUsed - 1
                  \/ acbUsed < AcbCap /\ acbUsed' = acbUsed + 1
    BY <2>1 DEF Worker, Handles, TakeSlot, Extract, FeedTrack, TakeTrackSlot, Decode, JoinTracks,
       Move, Remove, Fails, Advances, ErrCap, SlotFree
  <2>2. CASE Feed \/ Join \/ ContextEnds \/ UNCHANGED vars
    BY <2>2 DEF Feed, Join, ContextEnds, vars
  <2>3. CASE OthersTake \/ OthersLeave
    BY <2>3 DEF OthersTake, OthersLeave, SlotFree
  <2> QED
    BY <2>1, <2>2, <2>3 DEF Next
<1> QED
  BY <1>1, <1>2 DEF Bounds

\* Every variable keeps its type, the two counters within the capacity of their
\* channels among them.
THEOREM TypeCorrect == Spec => []TypeOK
<1>1. Init => Bounds
  BY AcbAssumption, FS_CardinalityType DEF Init, Bounds, AcbAssumption
<1>2. IInv /\ Bounds => TypeOK
  <2> SUFFICES ASSUME IInv, Bounds PROVE TypeOK
    OBVIOUS
  <2>1. /\ Cardinality(Acbs) \in Nat /\ Cardinality(Slotted) \in Nat
        /\ Cardinality(BusyTracks) \in Nat /\ AcbCap \in Nat
    BY AcbAssumption, SlottedFinite, BusyTracksFinite, FS_CardinalityType
       DEF AcbAssumption
  <2>2. errs \in Nat /\ acbUsed \in Int /\ others \in Int /\ hcaUsed \in Int
    BY DEF IInv, Typed
  <2>3. errs \in 0..Cardinality(Acbs)
    BY <2>1, <2>2 DEF Bounds
  <2>4. acbUsed \in 0..AcbCap /\ others \in 0..AcbCap
    BY <2>1, <2>2 DEF Bounds, IInv, AcbCount
  <2>5. hcaUsed \in Nat
    BY <2>1, <2>2 DEF IInv, HcaCount
  <2> QED
    BY <2>3, <2>4, <2>5 DEF IInv, Typed, Jobs, Places, TypeOK
<1> QED
  BY <1>1, <1>2, BoundsInv, NextInv, InitInv, PTL DEF Spec

\* Both limiters count exactly the jobs and the tracks that run under them.
THEOREM LimitersAlwaysMatch == Spec => []LimitersMatch
<1>1. IInv => LimitersMatch
  BY DEF IInv, AcbCount, HcaCount, Slotted, BusyTracks, LimitersMatch
<1> QED
  BY <1>1, Invariance, PTL

\* handleACBFiles returns no error only if every ACB file was exported whole.
THEOREM OkAlwaysMeansAll == Spec => []OkMeansAll
<1>1. IInv => OkMeansAll
  <2> SUFFICES ASSUME IInv, feeder = "ok", NEW a \in Acbs PROVE job[a] = "ok"
    BY DEF OkMeansAll
  <2>1. job[a] \in Jobs /\ job[a] \notin InHand /\ job[a] # "unsent" /\ job[a] # "error"
    BY DEF IInv, Typed, Joined, Busy
  <2> QED
    BY <2>1 DEF Jobs, Ended
<1> QED
  BY <1>1, Invariance, PTL

\* An ACB file is deleted only when the results of all its tracks were moved.
THEOREM DeletionComesLast == Spec => []DeletedAfterMove
<1>1. IInv => DeletedAfterMove
  BY DEF IInv, Ordered, OrderedAt, DeletedAfterMove
<1> QED
  BY <1>1, Invariance, PTL
=============================================================================
