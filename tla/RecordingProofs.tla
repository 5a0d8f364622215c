---------------------------- MODULE RecordingProofs ----------------------------
(***************************************************************************)
(* Theorems about Recording: about every strategy, for any number of       *)
(* frames, takes and pushes, episodes wanted, interpolation multiplier and *)
(* size of the ring.                                                       *)
(*                                                                         *)
(* The dataset comes first: what AddFrame, Saved, Failed and Discarded     *)
(* make of its fields, and which shapes of it they keep.  Then one         *)
(* strategy after the other: what a step of it does to the dataset (its    *)
(* kinds of step), the invariant it keeps, and the property the invariant  *)
(* gives.  The Hub is treated once for all strategies but Sentry.  AnyInv  *)
(* at the end is the invariant of the whole, with a case per strategy.     *)
(*                                                                         *)
(* Dagger, Highlight and Episodic are instances, with operators of their   *)
(* own for the shared parts of Recorder; lemmas named ...Data, ...Actions  *)
(* and ...Copies identify them with those of this module.                  *)
(***************************************************************************)
EXTENDS Recording, FiniteSetTheorems, WellFoundedInduction, TLAPS

Dataset == [buffer : Seq(Frame), sized : BOOLEAN, rows : Seq(Frame),
            episodes : Seq(Interval), open : BOOLEAN]

Upload == [rows : Seq(Frame), episodes : Seq(Interval), open : BOOLEAN]

\* total_frames of a dataset is a number.
LEMMA TotalFramesType == ASSUME NEW d \in Dataset PROVE TotalFrames(d) \in Nat
<1>1. CASE d.episodes = <<>>
  BY <1>1 DEF TotalFrames
<1>2. CASE d.episodes # <<>>
  <2>1. Len(d.episodes) \in 1..Len(d.episodes)
    BY <1>2 DEF Dataset
  <2>2. d.episodes[Len(d.episodes)] \in Interval
    BY <2>1 DEF Dataset
  <2> QED
    BY <1>2, <2>2 DEF TotalFrames, Interval
<1> QED
  BY <1>1, <1>2

\* The interval a save adds to the metadata.
NewInterval(d) == [from |-> TotalFrames(d), to |-> TotalFrames(d) + Len(d.buffer)]

\* The interval of a new episode is one of numbers.
LEMMA NewIntervalType == ASSUME NEW d \in Dataset PROVE NewInterval(d) \in Interval
<1>1. TotalFrames(d) \in Nat /\ Len(d.buffer) \in Nat
  BY TotalFramesType DEF Dataset
<1> QED
  BY <1>1 DEF NewInterval, Interval

\* A frame goes to the end of the buffer.
LEMMA AddFrameFields ==
  ASSUME NEW d \in Dataset, NEW f \in Frame
  PROVE  /\ AddFrame(d, f) \in Dataset
         /\ AddFrame(d, f).buffer = Append(d.buffer, f)
         /\ AddFrame(d, f).rows = d.rows /\ AddFrame(d, f).episodes = d.episodes
         /\ AddFrame(d, f).sized = d.sized
<1>1. Append(d.buffer, f) \in Seq(Frame)
  BY DEF Dataset
<1> QED
  BY <1>1 DEF AddFrame, Dataset

\* The fields of a dataset whose rows are written, and of one whose metadata is written too.
LEMMA CommittedFields ==
  ASSUME NEW d \in Dataset
  PROVE  /\ WithRows(d) \in Dataset /\ Committed(d) \in Dataset
         /\ Committed(d).rows = d.rows \o d.buffer
         /\ Committed(d).episodes = Append(d.episodes, NewInterval(d))
         /\ Committed(d).sized = d.sized
<1>a. d.rows \o d.buffer \in Seq(Frame)
  BY DEF Dataset
<1>1. WithRows(d) \in Dataset
  BY <1>a DEF Dataset, WithRows
<1>2. NewInterval(d) \in Interval
  BY NewIntervalType
<1>3. Append(d.episodes, NewInterval(d)) \in Seq(Interval)
  BY <1>2 DEF Dataset
<1>4. Committed(d) = [WithRows(d) EXCEPT !.episodes = Append(@, NewInterval(d))]
  BY DEF Committed, NewInterval
<1>5. WithRows(d).episodes = d.episodes /\ WithRows(d).rows = d.rows \o d.buffer
      /\ WithRows(d).sized = d.sized
  BY DEF Dataset, WithRows
<1> QED
  BY <1>1, <1>3, <1>4, <1>5 DEF Dataset

\* A save that succeeds empties the buffer behind it.
LEMMA SavedFields ==
  ASSUME NEW d \in Dataset
  PROVE  /\ Saved(d) \in Dataset
         /\ Saved(d).rows = d.rows \o d.buffer
         /\ Saved(d).episodes = Append(d.episodes, NewInterval(d))
         /\ Saved(d).sized = d.sized
         /\ Saved(d).buffer = <<>>
<1> DEFINE c == Committed(d)
<1>1. c \in Dataset
  BY CommittedFields
<1>2. Saved(d) = [c EXCEPT !.buffer = <<>>]
  BY DEF Saved
<1>3. <<>> \in Seq(Frame)
  OBVIOUS
<1> HIDE DEF c
<1>4. /\ Saved(d) \in Dataset /\ Saved(d).rows = c.rows /\ Saved(d).episodes = c.episodes
      /\ Saved(d).sized = c.sized /\ Saved(d).buffer = <<>>
  BY <1>1, <1>2, <1>3 DEF Dataset
<1> QED
  BY <1>4, CommittedFields DEF c

\* A save that raises either does nothing, when there was nothing to save, or loses the size.
LEMMA FailedFields ==
  ASSUME NEW d \in Dataset, NEW x \in Failed(d)
  PROVE  /\ x \in Dataset
         /\ HasPending(d) => ~x.sized
         /\ ~HasPending(d) => x = d
<1>1. CASE HasPending(d)
  <2>1. PICK y \in {d, WithRows(d), Committed(d)} : x = [y EXCEPT !.sized = FALSE]
    BY <1>1 DEF Failed
  <2>2. y \in Dataset
    BY <2>1, CommittedFields
  <2> QED
    BY <1>1, <2>1, <2>2 DEF Dataset
<1>2. CASE ~HasPending(d)
  BY <1>2 DEF Failed
<1> QED
  BY <1>1, <1>2

\* It never takes an episode back.
LEMMA FailedEpisodes ==
  ASSUME NEW d \in Dataset, NEW x \in Failed(d), x.episodes = <<>>
  PROVE  d.episodes = <<>>
<1>1. CASE HasPending(d)
  <2>1. PICK y \in {d, WithRows(d), Committed(d)} : x = [y EXCEPT !.sized = FALSE]
    BY <1>1 DEF Failed
  <2>2. y \in Dataset /\ x.episodes = y.episodes
    BY <2>1, CommittedFields DEF Dataset
  <2>3. y.episodes \in {d.episodes, Append(d.episodes, NewInterval(d))}
    <3>1. WithRows(d).episodes = d.episodes
      BY DEF WithRows, Dataset
    <3> QED
      BY <2>1, <3>1, CommittedFields
  <2>4. Append(d.episodes, NewInterval(d)) # <<>>
    <3>1. d.episodes \in Seq(Interval) /\ NewInterval(d) \in Interval
      BY NewIntervalType DEF Dataset
    <3> DEFINE s == d.episodes
               x1 == NewInterval(d)
    <3>2. s \in Seq(Interval) /\ x1 \in Interval
      BY <3>1
    <3> HIDE DEF s, x1
    <3>3. Len(Append(s, x1)) = Len(s) + 1 /\ Len(s) \in Nat
      BY <3>2
    <3>4. Append(s, x1) # <<>>
      <4> SUFFICES ASSUME Append(s, x1) = <<>> PROVE FALSE
        OBVIOUS
      <4>1. Len(Append(s, x1)) = 0
        BY ONLY Append(s, x1) = <<>>
      <4> QED
        BY <3>3, <4>1
    <3> QED
      BY <3>4 DEF s, x1
  <2> QED
    BY <2>2, <2>3, <2>4
<1>2. CASE ~HasPending(d)
  BY <1>2 DEF Failed
<1> QED
  BY <1>1, <1>2

\* discard and finalize() touch neither rows nor episodes.
LEMMA DiscardedFields ==
  ASSUME NEW d \in Dataset
  PROVE  /\ Discarded(d) \in Dataset /\ Finalized(d) \in Dataset
         /\ Discarded(d).episodes = d.episodes /\ Discarded(d).rows = d.rows
         /\ Discarded(d).buffer = <<>> /\ Discarded(d).sized
         /\ Finalized(d).episodes = d.episodes /\ Finalized(d).rows = d.rows
         /\ Finalized(d).buffer = d.buffer /\ Finalized(d).sized = d.sized
<1>1. <<>> \in Seq(Frame)
  OBVIOUS
<1>2. /\ Discarded(d) \in Dataset /\ Discarded(d).episodes = d.episodes
      /\ Discarded(d).rows = d.rows /\ Discarded(d).buffer = <<>> /\ Discarded(d).sized
  BY <1>1 DEF Discarded, Dataset
<1>3. /\ Finalized(d) \in Dataset
      /\ Finalized(d).episodes = d.episodes /\ Finalized(d).rows = d.rows
      /\ Finalized(d).buffer = d.buffer /\ Finalized(d).sized = d.sized
  BY DEF Finalized, Dataset
<1> QED
  BY <1>2, <1>3

\* The frame of a tick.
LEMMA NextFrameFields ==
  ASSUME frames \in Nat, take \in Nat
  PROVE  NextFrame \in Frame /\ NextFrame.n = frames + 1 /\ NextFrame.take = take
BY DEF NextFrame, Frame
------------------------------------------------------------------------------
(* Rows, buffer and episodes *)

\* The elements of a concatenation.
LEMMA Concatenated ==
  ASSUME NEW s \in Seq(Frame), NEW t \in Seq(Frame)
  PROVE  /\ Len(s \o t) = Len(s) + Len(t)
         /\ \A i \in 1..Len(s) : (s \o t)[i] = s[i]
         /\ \A i \in Len(s) + 1 .. Len(s \o t) :
              (s \o t)[i] = t[i - Len(s)] /\ i - Len(s) \in 1..Len(t)
OBVIOUS

\* The same with the second part indexed from its beginning.
LEMMA Appending ==
  ASSUME NEW s \in Seq(Frame), NEW t \in Seq(Frame)
  PROVE  /\ Len(s \o t) = Len(s) + Len(t)
         /\ \A i \in 1..Len(s) : (s \o t)[i] = s[i]
         /\ \A i \in 1..Len(t) : (s \o t)[Len(s) + i] = t[i]
OBVIOUS

\* A new episode continues a tiling.
LEMMA SavedTiled ==
  ASSUME NEW d \in Dataset, Tiled(d),
         \A e \in 1..Len(d.episodes) : d.episodes[e].to <= Len(d.rows)
  PROVE  /\ Tiled(Saved(d))
         /\ \A e \in 1..Len(Saved(d).episodes) : Saved(d).episodes[e].to <= Len(Saved(d).rows)
<1> DEFINE r == Saved(d).rows
           es == Saved(d).episodes
           k == Len(d.episodes)
<1>0. /\ d.rows \in Seq(Frame) /\ d.buffer \in Seq(Frame) /\ d.episodes \in Seq(Interval)
      /\ k \in Nat /\ Len(d.rows) \in Nat /\ Len(d.buffer) \in Nat /\ TotalFrames(d) \in Nat
  BY TotalFramesType DEF Dataset
<1>n. k \in Nat /\ Len(d.rows) \in Nat /\ Len(d.buffer) \in Nat
  BY <1>0
<1>1. r = d.rows \o d.buffer /\ es = Append(d.episodes, NewInterval(d))
  BY SavedFields
<1>2. Len(r) = Len(d.rows) + Len(d.buffer)
  BY <1>0, <1>1
<1>3. NewInterval(d) \in Interval /\ NewInterval(d).from = TotalFrames(d)
      /\ NewInterval(d).to = TotalFrames(d) + Len(d.buffer)
  BY NewIntervalType DEF NewInterval
<1>4. TotalFrames(d) = Len(d.rows)
  BY DEF Tiled
<1>5. /\ Len(es) = k + 1 /\ es[k + 1] = NewInterval(d)
      /\ \A e \in 1..k : es[e] = d.episodes[e]
  <2> HIDE DEF es
  <2> QED
    BY <1>0, <1>1, <1>3
<1>6. TotalFrames(d) = IF k = 0 THEN 0 ELSE d.episodes[k].to
  BY <1>0 DEF TotalFrames
<1>7. es # <<>>
  BY <1>0, <1>5
<1>8. TotalFrames(Saved(d)) = es[k + 1].to
  BY <1>5, <1>7 DEF TotalFrames
<1>9. TotalFrames(Saved(d)) = Len(r)
  BY <1>2, <1>3, <1>4, <1>5, <1>8
<1>10. ASSUME NEW e \in 1..Len(es)
       PROVE  /\ es[e].from = IF e = 1 THEN 0 ELSE es[e - 1].to
              /\ es[e].from <= es[e].to
              /\ es[e].to <= Len(r)
  <2>1. CASE e = k + 1
    <3> HIDE DEF es, r, k
    <3>1. es[e].from = IF e = 1 THEN 0 ELSE es[e - 1].to
      <4>1. es[e].from = TotalFrames(d)
        BY <1>3, <1>5, <2>1
      <4>2. CASE e = 1
        BY <1>0, <1>6, <2>1, <4>1, <4>2
      <4>3. CASE e # 1
        <5>1. e - 1 = k /\ k \in 1..k /\ k # 0
          BY <1>0, <2>1, <4>3
        <5>2. es[e - 1] = d.episodes[k]
          BY <1>5, <5>1
        <5> QED
          BY <1>6, <4>1, <4>3, <5>1, <5>2
      <4> QED
        BY <4>2, <4>3
    <3> QED
      <4> DEFINE a == Len(d.rows)
                 b == Len(d.buffer)
      <4>1. a \in Nat /\ b \in Nat /\ es[e].from = a /\ es[e].to = a + b /\ Len(r) = a + b
        BY <1>n, <1>2, <1>3, <1>4, <1>5, <2>1
      <4> HIDE DEF a, b
      <4>2. es[e].from <= es[e].to /\ es[e].to <= Len(r)
        <5>1. a <= a + b /\ a + b <= a + b
          BY <4>1
        <5> QED
          BY <4>1, <5>1
      <4> QED
        BY <3>1, <4>2
  <2>2. CASE e \in 1..k
    <3>1. es[e] = d.episodes[e] /\ d.episodes[e] \in Interval
      BY <1>0, <1>5, <2>2
    <3>2. e # 1 => e - 1 \in 1..k /\ es[e - 1] = d.episodes[e - 1]
      BY <1>0, <1>5, <2>2
    <3>3. /\ d.episodes[e].from = IF e = 1 THEN 0 ELSE d.episodes[e - 1].to
          /\ d.episodes[e].from <= d.episodes[e].to
          /\ d.episodes[e].to <= Len(d.rows)
      BY <2>2 DEF Tiled
    <3>4. d.episodes[e].to \in Nat
      BY <3>1 DEF Interval
    <3> HIDE DEF es, r, k
    <3>5. es[e].from = IF e = 1 THEN 0 ELSE es[e - 1].to
      BY <3>1, <3>2, <3>3
    <3>6. es[e].from <= es[e].to
      BY <3>1, <3>3
    <3>7. es[e].to <= Len(r)
      <4> DEFINE a == Len(d.rows)
                 b == Len(d.buffer)
                 x == Len(r)
                 t == es[e].to
      <4>1. a \in Nat /\ b \in Nat /\ x = a + b /\ t \in Nat /\ t <= a
        BY <1>n, <1>2, <3>1, <3>3, <3>4
      <4> HIDE DEF a, b, x, t
      <4>2. t <= x
        BY <4>1
      <4> QED
        BY <4>2 DEF t, x
    <3> QED
      BY <3>5, <3>6, <3>7
  <2> QED
    BY <1>0, <1>5, <2>1, <2>2
<1> HIDE DEF k
<1> QED
  BY <1>9, <1>10 DEF Tiled

\* A tiling is a matter of rows and episodes only.
LEMMA SameTiled ==
  ASSUME NEW d, NEW x, x.rows = d.rows, x.episodes = d.episodes, Tiled(d) PROVE Tiled(x)
BY DEF Tiled, TotalFrames

\* A save puts the buffer behind the rows, as one more episode.
LEMMA SavedParts ==
  ASSUME NEW d \in Dataset, Tiled(d)
  PROVE  /\ Len(Saved(d).rows) = Len(d.rows) + Len(d.buffer)
         /\ \A i \in 1..Len(d.rows) : Saved(d).rows[i] = d.rows[i]
         /\ \A i \in 1..Len(d.buffer) : Saved(d).rows[Len(d.rows) + i] = d.buffer[i]
         /\ Len(Saved(d).episodes) = Len(d.episodes) + 1
         /\ \A e \in 1..Len(d.episodes) : Saved(d).episodes[e] = d.episodes[e]
         /\ Saved(d).episodes[Len(d.episodes) + 1].from = Len(d.rows)
         /\ Saved(d).episodes[Len(d.episodes) + 1].to = Len(d.rows) + Len(d.buffer)
<1> DEFINE s == d.rows
           t == d.buffer
           es == d.episodes
           y == NewInterval(d)
           x == Saved(d)
<1>1. /\ s \in Seq(Frame) /\ t \in Seq(Frame) /\ es \in Seq(Interval) /\ y \in Interval
      /\ y.from = Len(s) /\ y.to = Len(s) + Len(t)
      /\ x.rows = s \o t /\ x.episodes = Append(es, y)
  BY SavedFields, NewIntervalType DEF NewInterval, Tiled, Dataset
<1> HIDE DEF s, t, es, y, x
<1>3. /\ Len(x.rows) = Len(s) + Len(t)
      /\ \A i \in 1..Len(s) : x.rows[i] = s[i]
      /\ \A i \in 1..Len(t) : x.rows[Len(s) + i] = t[i]
  BY <1>1
<1>4. /\ Len(x.episodes) = Len(es) + 1
      /\ \A e \in 1..Len(es) : x.episodes[e] = es[e]
      /\ x.episodes[Len(es) + 1].from = Len(s)
      /\ x.episodes[Len(es) + 1].to = Len(s) + Len(t)
  BY <1>1
<1> QED
  BY <1>3, <1>4 DEF s, t, es, x

\* The lengths of the parts of a dataset.
LEMMA Lengths ==
  ASSUME NEW d \in Dataset
  PROVE  Len(d.rows) \in Nat /\ Len(d.buffer) \in Nat /\ Len(d.episodes) \in Nat
BY DEF Dataset

\* The elements of a dataset are numbers.
LEMMA Elements ==
  ASSUME NEW d \in Dataset
  PROVE  /\ \A i \in 1..Len(d.rows) : d.rows[i].n \in Nat /\ d.rows[i].take \in Nat
         /\ \A i \in 1..Len(d.buffer) : d.buffer[i].n \in Nat /\ d.buffer[i].take \in Nat
         /\ \A e \in 1..Len(d.episodes) : d.episodes[e].from \in Nat /\ d.episodes[e].to \in Nat
<1>1. ASSUME NEW s \in Seq(Frame), NEW i \in 1..Len(s) PROVE s[i].n \in Nat /\ s[i].take \in Nat
  <2>1. s[i] \in Frame
    OBVIOUS
  <2> QED
    BY <2>1 DEF Frame
<1>2. ASSUME NEW s \in Seq(Interval), NEW i \in 1..Len(s) PROVE s[i].from \in Nat /\ s[i].to \in Nat
  <2>1. s[i] \in Interval
    OBVIOUS
  <2> QED
    BY <2>1 DEF Interval
<1>3. d.rows \in Seq(Frame) /\ d.buffer \in Seq(Frame) /\ d.episodes \in Seq(Interval)
  BY DEF Dataset
<1> QED
  BY <1>1, <1>2, <1>3

\* An index of the rows after a save is one before it or one of the buffer.
LEMMA SplitIndex ==
  ASSUME NEW a \in Nat, NEW b \in Nat, NEW i \in 1..(a + b)
  PROVE  i \in 1..a \/ \E j \in 1..b : i = a + j
<1>1. CASE i <= a
  BY <1>1
<1>2. CASE i > a
  <2>1. i - a \in 1..b /\ i = a + (i - a)
    BY <1>2
  <2> QED
    BY <2>1
<1> QED
  BY <1>1, <1>2

\* An index of the rows of an episode is one of the rows.
LEMMA InRows ==
  ASSUME NEW a \in Nat, NEW from \in Nat, NEW to \in Nat, to <= a, NEW i \in from + 1 .. to
  PROVE  i \in 1..a
OBVIOUS

\* One of the rows of the last episode is one of the buffer it was saved from.
LEMMA InLast ==
  ASSUME NEW a \in Nat, NEW b \in Nat, NEW i \in a + 1 .. a + b
  PROVE  \E j \in 1..b : i = a + j
<1>1. i - a \in 1..b /\ i = a + (i - a)
  OBVIOUS
<1> QED
  BY <1>1

\* A frame goes behind the frames of the buffer.
LEMMA AddedParts ==
  ASSUME NEW d \in Dataset, NEW f \in Frame
  PROVE  /\ Len(AddFrame(d, f).buffer) = Len(d.buffer) + 1
         /\ AddFrame(d, f).buffer[Len(d.buffer) + 1] = f
         /\ \A i \in 1..Len(d.buffer) : AddFrame(d, f).buffer[i] = d.buffer[i]
<1> DEFINE t == d.buffer
           x == AddFrame(d, f)
<1>1. t \in Seq(Frame) /\ x.buffer = Append(t, f)
  BY AddFrameFields DEF Dataset
<1> HIDE DEF t, x
<1>2. /\ Len(x.buffer) = Len(t) + 1 /\ x.buffer[Len(t) + 1] = f
      /\ \A i \in 1..Len(t) : x.buffer[i] = t[i]
  BY <1>1
<1> QED
  BY <1>2 DEF t, x

\* Rows and buffer count through to k, and every interval of the metadata lies in the rows.
Counted(d, k) ==
  /\ k = Len(d.rows) + Len(d.buffer)
  /\ \A i \in 1..Len(d.rows) : d.rows[i].n = i
  /\ \A i \in 1..Len(d.buffer) : d.buffer[i].n = Len(d.rows) + i
  /\ Tiled(d)
  /\ \A e \in 1..Len(d.episodes) : d.episodes[e].to <= Len(d.rows)

\* A new dataset has counted nothing, ...
LEMMA NewCounted == Counted(NewDataset, 0)
BY DEF NewDataset, Counted, Tiled, TotalFrames

\* ... what leaves the parts alone leaves the count, ...
LEMMA SameCounted ==
  ASSUME NEW d, NEW x, NEW k, Counted(d, k),
         x.rows = d.rows, x.buffer = d.buffer, x.episodes = d.episodes
  PROVE  Counted(x, k)
BY SameTiled DEF Counted

\* ... a frame adds one, ...
LEMMA AddedCounted ==
  ASSUME NEW d \in Dataset, NEW k \in Nat, NEW f \in Frame, Counted(d, k), f.n = k + 1
  PROVE  Counted(AddFrame(d, f), k + 1)
<1> DEFINE a == Len(d.rows)
           b == Len(d.buffer)
           x == AddFrame(d, f)
<1>1. x.rows = d.rows /\ x.episodes = d.episodes
  BY AddFrameFields
<1>p. /\ Len(x.buffer) = b + 1 /\ x.buffer[b + 1] = f
      /\ \A i \in 1..b : x.buffer[i] = d.buffer[i]
  BY AddedParts
<1>c. a \in Nat /\ b \in Nat /\ k = a + b /\ \A i \in 1..b : d.buffer[i].n = a + i
  BY Lengths DEF Counted
<1>2. /\ a \in Nat /\ b \in Nat /\ k = a + b /\ Len(x.rows) = a
      /\ Len(x.buffer) = b + 1 /\ x.buffer[b + 1] = f
      /\ \A i \in 1..b : x.buffer[i] = d.buffer[i] /\ d.buffer[i].n = a + i
  BY <1>1, <1>p, <1>c
<1> HIDE DEF a, b, x
<1>3. k + 1 = Len(x.rows) + Len(x.buffer)
  BY <1>2
<1>4. \A i \in 1..Len(x.buffer) : x.buffer[i].n = Len(x.rows) + i
  <2>1. \A i \in 1..(b + 1) : i \in 1..b \/ i = b + 1
    BY <1>2
  <2>2. f.n = a + (b + 1)
    BY <1>2
  <2> QED
    BY <1>2, <2>1, <2>2
<1> QED
  BY <1>1, <1>3, <1>4, SameTiled DEF Counted, x, a

\* ... and a save moves frames, but none is lost or doubled.
LEMMA SavedCounted ==
  ASSUME NEW d \in Dataset, NEW k, Counted(d, k) PROVE Counted(Saved(d), k)
<1> DEFINE a == Len(d.rows)
           b == Len(d.buffer)
           s == Saved(d)
           l == Len(d.episodes)
<1>1. /\ Tiled(s)
      /\ \A e \in 1..Len(s.episodes) : s.episodes[e].to <= Len(s.rows)
  BY SavedTiled DEF Counted
<1>t. Tiled(d)
  BY DEF Counted
<1>c. /\ k = a + b /\ Tiled(d) /\ a = Len(d.rows) /\ b = Len(d.buffer) /\ l = Len(d.episodes)
      /\ \A i \in 1..a : d.rows[i].n = i
      /\ \A i \in 1..b : d.buffer[i].n = a + i
      /\ a \in Nat /\ b \in Nat /\ l \in Nat
  BY Lengths DEF Counted
<1>d. s.buffer = <<>> /\ s = Saved(d)
  BY SavedFields
<1>e. /\ Len(s.rows) = a + b
      /\ \A i \in 1..a : s.rows[i] = d.rows[i]
      /\ \A i \in 1..b : s.rows[a + i] = d.buffer[i]
  BY <1>t, SavedParts
<1> HIDE DEF a, b, l, s
<1>2. /\ a \in Nat /\ b \in Nat /\ k = a + b /\ Len(s.rows) = a + b /\ s.buffer = <<>>
      /\ \A i \in 1..a : s.rows[i] = d.rows[i] /\ d.rows[i].n = i
      /\ \A i \in 1..b : s.rows[a + i] = d.buffer[i] /\ d.buffer[i].n = a + i
  BY <1>c, <1>d, <1>e
<1>3. ASSUME NEW i \in 1..Len(s.rows) PROVE s.rows[i].n = i
  <2>1. i \in 1..a \/ \E j \in 1..b : i = a + j
    BY <1>2, SplitIndex
  <2> QED
    BY <1>2, <2>1
<1>4. k = Len(s.rows) + Len(s.buffer) /\ \A i \in 1..Len(s.buffer) : FALSE
  BY <1>2
<1> QED
  BY <1>1, <1>3, <1>4 DEF Counted, s

\* The pointwise count is the equation of FramesConserved.
LEMMA CountedNumbers ==
  ASSUME NEW d \in Dataset, NEW k, Counted(d, k)
  PROVE  Tiled(d) /\ Numbers(d.rows \o d.buffer) = [i \in 1..k |-> i]
<1> DEFINE a == Len(d.rows)
           b == Len(d.buffer)
           s == d.rows \o d.buffer
<1>1. d.rows \in Seq(Frame) /\ d.buffer \in Seq(Frame)
  BY DEF Dataset
<1>c. /\ k = a + b /\ a \in Nat /\ b \in Nat
      /\ \A i \in 1..a : d.rows[i].n = i
      /\ \A i \in 1..b : d.buffer[i].n = a + i
  BY <1>1 DEF Counted
<1>e. /\ Len(s) = a + b
      /\ \A i \in 1..a : s[i] = d.rows[i]
      /\ \A i \in 1..b : s[a + i] = d.buffer[i]
  BY <1>1, Appending
<1> HIDE DEF a, b, s
<1>2. /\ a \in Nat /\ b \in Nat /\ k = a + b /\ Len(s) = a + b
      /\ \A i \in 1..a : s[i] = d.rows[i] /\ d.rows[i].n = i
      /\ \A i \in 1..b : s[a + i] = d.buffer[i] /\ d.buffer[i].n = a + i
  BY <1>c, <1>e
<1>3. ASSUME NEW i \in 1..k PROVE s[i].n = i
  <2>1. i \in 1..a \/ \E j \in 1..b : i = a + j
    BY <1>2, SplitIndex
  <2> QED
    BY <1>2, <2>1
<1>4. Numbers(s) = [i \in 1..k |-> i]
  BY <1>2, <1>3 DEF Numbers
<1> QED
  BY <1>4 DEF Counted, s
------------------------------------------------------------------------------
(* Takes *)

\* A saved episode is not empty and of one take.
Divided(d) ==
  \A e \in 1..Len(d.episodes) :
    /\ d.episodes[e].from < d.episodes[e].to
    /\ \E t \in Nat : \A i \in d.episodes[e].from + 1 .. d.episodes[e].to : d.rows[i].take = t

\* What leaves rows and episodes alone leaves them divided.
LEMMA SameDivided ==
  ASSUME NEW d, NEW x, x.rows = d.rows, x.episodes = d.episodes, Divided(d) PROVE Divided(x)
<1>1. ASSUME NEW e \in 1..Len(d.episodes)
      PROVE  /\ x.episodes[e].from < x.episodes[e].to
             /\ \E t \in Nat : \A i \in x.episodes[e].from + 1 .. x.episodes[e].to : x.rows[i].take = t
  <2>1. PICK t \in Nat : \A i \in d.episodes[e].from + 1 .. d.episodes[e].to : d.rows[i].take = t
    BY DEF Divided
  <2>2. \A i \in x.episodes[e].from + 1 .. x.episodes[e].to : x.rows[i].take = t
    BY <2>1
  <2>3. x.episodes[e].from < x.episodes[e].to
    BY DEF Divided
  <2> QED
    BY <2>2, <2>3
<1> QED
  BY <1>1 DEF Divided

\* The episode under way is of take t only.
OfTake(d, t) == \A i \in 1..Len(d.buffer) : d.buffer[i].take = t

\* A frame of the same take keeps the episode under way of one take.
LEMMA AddedOfTake ==
  ASSUME NEW d \in Dataset, NEW f \in Frame, OfTake(d, f.take) PROVE OfTake(AddFrame(d, f), f.take)
<1> DEFINE b == Len(d.buffer)
           x == AddFrame(d, f)
<1>p. /\ Len(x.buffer) = b + 1 /\ x.buffer[b + 1] = f
      /\ \A i \in 1..b : x.buffer[i] = d.buffer[i]
  BY AddedParts
<1>1. /\ b \in Nat /\ Len(x.buffer) = b + 1 /\ x.buffer[b + 1] = f
      /\ \A i \in 1..b : x.buffer[i] = d.buffer[i] /\ d.buffer[i].take = f.take
  BY <1>p, Lengths DEF OfTake
<1> HIDE DEF b, x
<1>2. \A i \in 1..Len(x.buffer) : i \in 1..b \/ i = b + 1
  BY <1>1
<1>3. \A i \in 1..Len(x.buffer) : x.buffer[i].take = f.take
  BY <1>1, <1>2
<1> QED
  BY <1>3 DEF OfTake, x

\* A save of an episode of one take keeps the rows divided.
LEMMA SavedDivided ==
  ASSUME NEW d \in Dataset, HasPending(d), NEW k, Counted(d, k) \/ Tiled(d),
         \A e \in 1..Len(d.episodes) : d.episodes[e].to <= Len(d.rows),
         Divided(d), NEW t \in Nat, OfTake(d, t)
  PROVE  Divided(Saved(d))
<1> DEFINE a == Len(d.rows)
           b == Len(d.buffer)
           l == Len(d.episodes)
           s == Saved(d)
<1>1. d.buffer \in Seq(Frame) /\ d.buffer # <<>> /\ d.episodes \in Seq(Interval) /\ Tiled(d)
  BY DEF Dataset, HasPending, Counted
<1>c. /\ \A i \in 1..b : d.buffer[i].take = t
      /\ b # 0
      /\ a = Len(d.rows) /\ b = Len(d.buffer) /\ l = Len(d.episodes) /\ s = Saved(d)
      /\ a \in Nat /\ b \in Nat /\ l \in Nat
  BY <1>1, Lengths DEF OfTake
<1>3. \A e \in 1..l :
        /\ d.episodes[e].from \in Nat /\ d.episodes[e].to \in Nat /\ d.episodes[e].to <= a
        /\ d.episodes[e].from < d.episodes[e].to
        /\ \E u \in Nat : \A i \in d.episodes[e].from + 1 .. d.episodes[e].to : d.rows[i].take = u
  <2> SUFFICES ASSUME NEW e \in 1..l
               PROVE  d.episodes[e].from \in Nat /\ d.episodes[e].to \in Nat
    BY DEF Divided
  <2>1. d.episodes[e] \in Interval
    BY <1>1
  <2> QED
    BY <2>1 DEF Interval
<1>e. /\ Len(s.rows) = a + b
      /\ \A i \in 1..a : s.rows[i] = d.rows[i]
      /\ \A i \in 1..b : s.rows[a + i] = d.buffer[i]
      /\ Len(s.episodes) = l + 1 /\ \A e \in 1..l : s.episodes[e] = d.episodes[e]
      /\ s.episodes[l + 1].from = a /\ s.episodes[l + 1].to = a + b
  BY <1>1, SavedParts
<1> HIDE DEF a, b, l, s
<1>2. /\ a \in Nat /\ b \in Nat /\ b # 0 /\ l \in Nat /\ Len(s.rows) = a + b
      /\ \A i \in 1..a : s.rows[i] = d.rows[i]
      /\ \A i \in 1..b : s.rows[a + i] = d.buffer[i] /\ d.buffer[i].take = t
      /\ Len(s.episodes) = l + 1 /\ \A e \in 1..l : s.episodes[e] = d.episodes[e]
      /\ s.episodes[l + 1].from = a /\ s.episodes[l + 1].to = a + b
  BY <1>c, <1>e
<1>4. ASSUME NEW e \in 1..l
      PROVE  /\ s.episodes[e].from < s.episodes[e].to
             /\ \E u \in Nat : \A i \in s.episodes[e].from + 1 .. s.episodes[e].to : s.rows[i].take = u
  <2> DEFINE from == d.episodes[e].from
             to == d.episodes[e].to
  <2>1. /\ from \in Nat /\ to \in Nat /\ to <= a /\ from < to
        /\ s.episodes[e].from = from /\ s.episodes[e].to = to
    BY <1>2, <1>3
  <2>2. PICK u \in Nat : \A i \in from + 1 .. to : d.rows[i].take = u
    BY <1>3
  <2> HIDE DEF from, to
  <2>3. \A i \in from + 1 .. to : i \in 1..a
    BY <1>2, <2>1
  <2>4. \A i \in from + 1 .. to : s.rows[i].take = u
    BY <1>2, <2>2, <2>3
  <2> QED
    BY <2>1, <2>4
<1>5. /\ s.episodes[l + 1].from < s.episodes[l + 1].to
      /\ \A i \in s.episodes[l + 1].from + 1 .. s.episodes[l + 1].to : s.rows[i].take = t
  <2>1. a < a + b
    BY <1>2
  <2>2. ASSUME NEW i \in a + 1 .. a + b PROVE s.rows[i].take = t
    <3>1. PICK j \in 1..b : i = a + j
      <4>1. a \in Nat /\ b \in Nat
        BY <1>2
      <4>2. \A m \in a + 1 .. a + b : \E j \in 1..b : m = a + j
        BY <4>1, InLast
      <4> QED
        BY <4>2
    <3> QED
      BY <1>2, <3>1
  <2> QED
    BY <1>2, <2>1, <2>2
<1>6. \A e \in 1..Len(s.episodes) : e \in 1..l \/ e = l + 1
  BY <1>2
<1> QED
  BY <1>4, <1>5, <1>6 DEF Divided, s

\* What a reader finds as episode e.
LEMMA EpisodeParts ==
  ASSUME NEW d \in Dataset, NEW e \in 1..Len(d.episodes), d.episodes[e].from <= d.episodes[e].to,
         d.episodes[e].to <= Len(d.rows)
  PROVE  /\ d.episodes[e].from \in Nat /\ d.episodes[e].to \in Nat
         /\ Episode(d, e) \in Seq(Frame)
         /\ Len(Episode(d, e)) = d.episodes[e].to - d.episodes[e].from
         /\ DOMAIN Episode(d, e) = 1..(d.episodes[e].to - d.episodes[e].from)
         /\ \A i \in 1..(d.episodes[e].to - d.episodes[e].from) :
              Episode(d, e)[i] = d.rows[d.episodes[e].from + i]
<1> DEFINE r == d.rows
           from == d.episodes[e].from
           to == d.episodes[e].to
           p == SubSeq(r, from + 1, to)
<1>1. r \in Seq(Frame) /\ from \in Nat /\ to \in Nat
  <2>1. d.episodes[e] \in Interval /\ r \in Seq(Frame)
    BY DEF Dataset
  <2> QED
    BY <2>1 DEF Interval
<1>2. from <= to /\ to <= Len(r) /\ Episode(d, e) = p
  BY DEF Episode
<1> HIDE DEF r, from, to
<1>3. from + 1 \in 1..(Len(r) + 1) /\ to \in 0..Len(r)
  <2>1. Len(r) \in Nat
    BY <1>1
  <2> DEFINE n == Len(r)
  <2>2. n \in Nat /\ from \in Nat /\ to \in Nat /\ from <= to /\ to <= n
    BY <1>1, <1>2, <2>1
  <2> HIDE DEF n
  <2>3. from + 1 \in 1..(n + 1) /\ to \in 0..n
    BY <2>2
  <2> QED
    BY <2>3 DEF n
<1>4. /\ p \in Seq(Frame) /\ Len(p) = to - from
      /\ \A i \in 1..(to - from) : p[i] = r[(from + 1) + i - 1]
  BY <1>1, <1>2, <1>3
<1>5. \A i \in 1..(to - from) : (from + 1) + i - 1 = from + i
  BY <1>1
<1> HIDE DEF p
<1>6. DOMAIN p = 1..(to - from) /\ \A i \in 1..(to - from) : p[i] = r[from + i]
  BY <1>4, <1>5
<1> QED
  BY <1>1, <1>2, <1>4, <1>6 DEF r, from, to

\* An episode of divided rows has exactly one take.
LEMMA DividedGivesOne ==
  ASSUME NEW d \in Dataset, Divided(d),
         \A e \in 1..Len(d.episodes) : d.episodes[e].to <= Len(d.rows),
         NEW e \in 1..Len(d.episodes)
  PROVE  Cardinality(TakesOf(Episode(d, e))) = 1
<1> DEFINE from == d.episodes[e].from
           to == d.episodes[e].to
           p == Episode(d, e)
<1>1. PICK t \in Nat : \A i \in from + 1 .. to : d.rows[i].take = t
  BY DEF Divided
<1>2. from < to /\ to <= Len(d.rows)
  BY DEF Divided
<1>3. d.episodes[e] \in Interval
  BY DEF Dataset
<1>4. from \in Nat /\ to \in Nat /\ from <= to
  BY <1>2, <1>3 DEF Interval
<1>5. /\ DOMAIN p = 1..(to - from)
      /\ \A i \in 1..(to - from) : p[i] = d.rows[from + i]
  BY <1>2, <1>4, EpisodeParts
<1> HIDE DEF from, to, p
<1>6. 1 \in DOMAIN p /\ \A i \in DOMAIN p : from + i \in from + 1 .. to
  BY <1>2, <1>4, <1>5
<1>7. \A i \in DOMAIN p : p[i].take = t
  BY <1>1, <1>5, <1>6
<1>8. TakesOf(p) = {t}
  BY <1>6, <1>7 DEF TakesOf
<1> QED
  BY <1>8, FS_Singleton DEF p
------------------------------------------------------------------------------
(* Types *)

\* Sentry begins with its types, ...
LEMMA InitType == Init => TypeOK
<1> SUFFICES ASSUME Init PROVE TypeOK
  OBVIOUS
<1>1. data \in Dataset
  BY DEF Init, RecorderInit, NewDataset, Dataset
<1> QED
  BY <1>1 DEF Init, RecorderInit, TypeOK, Dataset

\* ... and every step keeps them.
LEMMA StepType == TypeOK /\ [Next]_vars => TypeOK'
<1> SUFFICES ASSUME TypeOK, [Next]_vars PROVE TypeOK'
  OBVIOUS
<1>0. data \in Dataset
  BY DEF TypeOK, Dataset
<1> DEFINE Control == 
      /\ pc \in {"idle", "loop", "finally", "saved", "failed", "counting", "closing", "final",
                 "down", "raised"}
      /\ queued \in Nat /\ sincePush \in Nat /\ frames \in Nat /\ take \in Nat
      /\ needsPush \in BOOLEAN /\ tail \in BOOLEAN /\ poisoned \in BOOLEAN
<1>s. SUFFICES data' \in Dataset /\ Control'
  BY DEF TypeOK, Dataset
<1>c. Control
  BY DEF TypeOK
<1>1. CASE BeginSegment
  <2>1. data' = data /\ take' \in Nat
    BY <1>1, <1>c DEF BeginSegment
  <2> QED
    BY <1>0, <1>1, <1>c, <2>1 DEF BeginSegment, hubVars
<1>2. CASE Tick
  <2>1. NextFrame \in Frame
    BY <1>c DEF NextFrame, Frame
  <2>2. data' \in Dataset
    BY <1>0, <1>2, <2>1, AddFrameFields DEF Tick, RecordFrame
  <2> QED
    BY <1>2, <1>c, <2>2 DEF Tick, RecordFrame, CountFrame, hubVars, sentryVars
<1>3. CASE Rotate
  <2>1. data' \in Dataset
    BY <1>0, <1>3, SavedFields, FailedFields DEF Rotate, SaveEpisode, SaveRaises
  <2> QED
    BY <1>3, <1>c, <2>1 DEF Rotate, hubVars, takeVars, sentryVars
<1>4. CASE LeaveLoop
  BY <1>0, <1>4, <1>c DEF LeaveLoop, hubVars, takeVars
<1>5. CASE SaveTail
  <2>1. data' \in Dataset
    BY <1>0, <1>5, SavedFields, FailedFields DEF SaveTail, SaveEpisode, SaveRaises
  <2> QED
    BY <1>5, <1>c, <2>1 DEF SaveTail, hubVars, takeVars, sentryVars
<1>6. CASE Poison
  BY <1>0, <1>6, <1>c, DiscardedFields DEF Poison, hubVars, takeVars
<1>7. CASE SetNeedsPush
  BY <1>0, <1>7, <1>c DEF SetNeedsPush, hubVars, takeVars, sentryVars
<1>8. CASE CountEpisode
  BY <1>0, <1>8, <1>c DEF CountEpisode, SubmitPush, takeVars
<1>9. CASE Teardown
  BY <1>0, <1>9, <1>c DEF Teardown, hubVars, takeVars, sentryVars
<1>10. CASE Close /\ UNCHANGED sentryVars
  BY <1>0, <1>10, <1>c, DiscardedFields DEF Close, hubVars, takeVars, sentryVars
<1>11. CASE FinalPush(needsPush /\ ~poisoned) /\ UNCHANGED sentryVars
  BY <1>0, <1>11, <1>c DEF FinalPush, takeVars, sentryVars
<1>12. CASE BeginPush(poisoned) /\ UNCHANGED sentryVars
  BY <1>0, <1>12, <1>c DEF BeginPush, takeVars, sentryVars
<1>13. CASE (EndPush \/ FailPush) /\ UNCHANGED sentryVars
  BY <1>0, <1>13, <1>c DEF EndPush, FailPush, takeVars, sentryVars
<1>14. CASE UNCHANGED vars
  BY <1>0, <1>14, <1>c DEF vars, recorderVars, sentryVars
<1> QED
  BY <1>1, <1>2, <1>3, <1>4, <1>5, <1>6, <1>7, <1>8, <1>9, <1>10, <1>11, <1>12, <1>13, <1>14
     DEF Next, Strategy, Executor, Over, vars

\* The dataset, the counters and the flags have their types.
THEOREM TypeCorrect == Spec => []TypeOK
BY InitType, StepType, PTL DEF Spec
------------------------------------------------------------------------------
(* What a step does to the recording *)

\* Where the episode under way has no frame.
Between == {"idle", "saved", "counting"}

Quiet ==
  /\ data' = data \/ data' = Finalized(data)
  /\ frames' = frames
  /\ Unbroken' => Unbroken
  /\ take' = take \/ (pc = "idle" /\ take \in Nat)
  /\ pc' \in Between => pc \in Between \/ ~HasPending(data)

Records ==
  /\ data' = AddFrame(data, NextFrame)
  /\ frames' = frames + 1 /\ take' = take /\ poisoned' = poisoned /\ pc' = "loop"

Saves ==
  /\ HasPending(data) /\ data' = Saved(data)
  /\ frames' = frames /\ take' = take /\ poisoned' = poisoned

\* Every step leaves the recording alone, adds a frame, saves an episode, or breaks it.
LEMMA StepKinds ==
  ASSUME TypeOK, [Next]_vars PROVE Quiet \/ Records \/ Saves \/ ~Unbroken'
<1>0. data \in Dataset /\ take \in Nat
  BY DEF TypeOK, Dataset
<1>1. CASE BeginSegment
  BY <1>0, <1>1 DEF BeginSegment, Quiet, Between, Unbroken
<1>2. CASE Tick
  BY <1>2 DEF Tick, RecordFrame, CountFrame, Records, sentryVars
<1>3. CASE Rotate
  <2>1. CASE SaveEpisode
    BY <1>3, <2>1 DEF Rotate, SaveEpisode, Saves, takeVars, sentryVars
  <2>2. CASE SaveRaises /\ pc' = "failed" /\ HasPending(data)
    <3>1. ~data'.sized
      BY <1>0, <2>2, FailedFields DEF SaveRaises
    <3> QED
      BY <3>1 DEF Unbroken
  <2>3. CASE SaveRaises /\ pc' = "failed" /\ ~HasPending(data)
    <3>1. data' = data
      BY <1>0, <2>3, FailedFields DEF SaveRaises
    <3> QED
      BY <1>3, <2>3, <3>1 DEF Rotate, Quiet, Between, Unbroken, takeVars, sentryVars
  <2> QED
    BY <1>3, <2>1, <2>2, <2>3 DEF Rotate
<1>4. CASE LeaveLoop
  BY <1>4 DEF LeaveLoop, Quiet, Between, Unbroken, takeVars
<1>5. CASE SaveTail
  <2>1. CASE SaveEpisode
    BY <1>5, <2>1 DEF SaveTail, SaveEpisode, Saves, takeVars, sentryVars
  <2>2. CASE ~HasPending(data) /\ pc' = "idle" /\ UNCHANGED data
    BY <1>5, <2>2 DEF SaveTail, Quiet, Unbroken, takeVars, sentryVars
  <2>3. CASE HasPending(data) /\ SaveRaises
    <3>1. ~data'.sized
      BY <1>0, <2>3, FailedFields DEF SaveRaises
    <3> QED
      BY <3>1 DEF Unbroken
  <2> QED
    BY <1>5, <2>1, <2>2, <2>3 DEF SaveTail
<1>6. CASE Poison
  BY <1>6 DEF Poison, Unbroken
<1>7. CASE SetNeedsPush
  BY <1>7 DEF SetNeedsPush, Quiet, Between, Unbroken, takeVars, sentryVars
<1>8. CASE CountEpisode
  BY <1>8 DEF CountEpisode, Quiet, Between, Unbroken, takeVars
<1>9. CASE Teardown
  BY <1>9 DEF Teardown, Quiet, Between, Unbroken, takeVars, sentryVars
<1>10. CASE Close /\ UNCHANGED sentryVars
  BY <1>0, <1>10, DiscardedFields DEF Close, Quiet, Between, Unbroken, takeVars, sentryVars
<1>11. CASE FinalPush(needsPush /\ ~poisoned) /\ UNCHANGED sentryVars
  BY <1>11 DEF FinalPush, Quiet, Between, Unbroken, takeVars, sentryVars
<1>12. CASE BeginPush(poisoned) /\ UNCHANGED sentryVars
  BY <1>12 DEF BeginPush, Quiet, Between, Unbroken, takeVars, sentryVars
<1>13. CASE (EndPush \/ FailPush) /\ UNCHANGED sentryVars
  BY <1>13 DEF EndPush, FailPush, Quiet, Between, Unbroken, takeVars, sentryVars
<1>14. CASE UNCHANGED vars
  BY <1>14 DEF vars, recorderVars, sentryVars, Quiet, Between, Unbroken
<1>15. CASE Over /\ UNCHANGED sentryVars
  BY <1>15 DEF Over, recorderVars, sentryVars, Quiet, Between, Unbroken
<1> QED
  BY <1>1, <1>2, <1>3, <1>4, <1>5, <1>6, <1>7, <1>8, <1>9, <1>10, <1>11, <1>12, <1>13, <1>14, <1>15
    DEF Next, Strategy, Executor
------------------------------------------------------------------------------
(* Frames are conserved *)

CountInv == Unbroken => Counted(data, frames)

\* Sentry begins with nothing counted, ...
LEMMA InitCount == Init => CountInv
BY NewCounted DEF Init, RecorderInit, CountInv

\* ... every step keeps the count, ...
LEMMA StepCount == TypeOK /\ CountInv /\ [Next]_vars => CountInv'
<1> SUFFICES ASSUME TypeOK, CountInv, [Next]_vars, Unbroken' PROVE Counted(data', frames')
  BY DEF CountInv
<1>0. data \in Dataset /\ frames \in Nat /\ take \in Nat
  BY DEF TypeOK, Dataset
<1>1. CASE Quiet
  <2>1. /\ data'.rows = data.rows /\ data'.buffer = data.buffer
        /\ data'.episodes = data.episodes /\ frames' = frames /\ Unbroken
    BY <1>0, <1>1, DiscardedFields DEF Quiet
  <2> QED
    BY <2>1, SameCounted DEF CountInv
<1>2. CASE Records
  <2>1. NextFrame \in Frame /\ NextFrame.n = frames + 1
    BY <1>0, NextFrameFields
  <2>2. data' = AddFrame(data, NextFrame) /\ frames' = frames + 1 /\ Unbroken
    BY <1>0, <1>2, <2>1, AddFrameFields DEF Records, Unbroken
  <2> QED
    BY <1>0, <2>1, <2>2, AddedCounted DEF CountInv
<1>3. CASE Saves
  <2>1. data' = Saved(data) /\ frames' = frames /\ Unbroken
    BY <1>0, <1>3, SavedFields DEF Saves, Unbroken
  <2> QED
    BY <1>0, <2>1, SavedCounted DEF CountInv
<1> QED
  BY <1>1, <1>2, <1>3, StepKinds

\* ... and the count is the conservation of frames.
LEMMA CountGivesFrames == TypeOK /\ CountInv => FramesConserved
<1>1. TypeOK => data \in Dataset
  BY DEF TypeOK, Dataset
<1> QED
  BY <1>1, CountedNumbers DEF CountInv, FramesConserved

\* Sentry: until a save fails the rows and the episode under way are the frames recorded so
\* far, each once and in order, and the metadata divides the rows, for any number of segments.
THEOREM FramesAreConserved == Spec => []FramesConserved
<1>1. Init => TypeOK /\ CountInv
  BY InitType, InitCount
<1>2. TypeOK /\ CountInv /\ [Next]_vars => (TypeOK /\ CountInv)'
  BY StepType, StepCount
<1>3. TypeOK /\ CountInv => FramesConserved
  BY CountGivesFrames
<1> QED
  BY <1>1, <1>2, <1>3, PTL DEF Spec
------------------------------------------------------------------------------
(* An episode belongs to one segment *)

\* The episode under way is of the segment under way and empty between segments; a saved one
\* is not empty and of one segment.
TakeInv ==
  Unbroken =>
    /\ pc \in Between => data.buffer = <<>>
    /\ OfTake(data, take)
    /\ Divided(data)

\* Sentry begins with nothing in the buffer, ...
LEMMA InitTake == Init => TakeInv
BY DEF Init, RecorderInit, NewDataset, TakeInv, Divided, OfTake

\* ... every step keeps the episodes of one segment, ...
LEMMA StepTake == TypeOK /\ CountInv /\ TakeInv /\ [Next]_vars => TakeInv'
<1> SUFFICES ASSUME TypeOK, CountInv, TakeInv, [Next]_vars, Unbroken' PROVE TakeInv'
  BY DEF TakeInv
<1>0. data \in Dataset /\ frames \in Nat /\ take \in Nat
  BY DEF TypeOK, Dataset
<1>1. CASE Quiet
  <2>1. /\ data'.rows = data.rows /\ data'.buffer = data.buffer
        /\ data'.episodes = data.episodes /\ Unbroken
    BY <1>0, <1>1, DiscardedFields DEF Quiet
  <2>2. pc' \in Between => data'.buffer = <<>>
    BY <1>1, <2>1 DEF Quiet, TakeInv, HasPending, Unbroken
  <2>3. OfTake(data', take')
    <3>1. CASE take' = take
      BY <2>1, <3>1 DEF TakeInv, OfTake
    <3>2. CASE pc = "idle"
      BY <2>1, <3>2 DEF TakeInv, Between, OfTake
    <3> QED
      BY <1>1, <3>1, <3>2 DEF Quiet
  <2>4. Divided(data')
    BY <2>1, SameDivided DEF TakeInv
  <2> QED
    BY <2>2, <2>3, <2>4 DEF TakeInv
<1>2. CASE Records
  <2>1. NextFrame \in Frame /\ NextFrame.take = take
    BY <1>0, NextFrameFields
  <2>2. /\ data' = AddFrame(data, NextFrame) /\ Unbroken
        /\ data'.rows = data.rows /\ data'.episodes = data.episodes
    BY <1>0, <1>2, <2>1, AddFrameFields DEF Records, Unbroken
  <2>3. OfTake(data', take)
    BY <1>0, <2>1, <2>2, AddedOfTake DEF TakeInv
  <2>4. pc' \notin Between /\ take' = take
    BY <1>2 DEF Records, Between
  <2> QED
    BY <2>2, <2>3, <2>4, SameDivided DEF TakeInv
<1>3. CASE Saves
  <2>1. data' = Saved(data) /\ Unbroken /\ HasPending(data) /\ data'.buffer = <<>>
    BY <1>0, <1>3, SavedFields DEF Saves, Unbroken
  <2>2. /\ Divided(data) /\ OfTake(data, take) /\ Tiled(data)
        /\ \A e \in 1..Len(data.episodes) : data.episodes[e].to <= Len(data.rows)
    BY <2>1 DEF TakeInv, CountInv, Counted
  <2>3. Divided(data')
    BY <1>0, <2>1, <2>2, SavedDivided
  <2> QED
    BY <2>1, <2>3 DEF TakeInv, OfTake
<1> QED
  BY <1>1, <1>2, <1>3, StepKinds

\* ... each of exactly one.
LEMMA TakeGivesOne == TypeOK /\ CountInv /\ TakeInv => OneTake
<1> SUFFICES ASSUME TypeOK, CountInv, TakeInv, Unbroken, NEW e \in DOMAIN data.episodes
             PROVE  Cardinality(TakesOf(Episode(data, e))) = 1
  BY DEF OneTake
<1>1. data \in Dataset /\ e \in 1..Len(data.episodes)
  BY DEF TypeOK, Dataset
<1>2. Divided(data) /\ \A i \in 1..Len(data.episodes) : data.episodes[i].to <= Len(data.rows)
  BY DEF TakeInv, CountInv, Counted
<1> QED
  BY <1>1, <1>2, DividedGivesOne

\* An episode holds frames of one segment only, for any number of rotations, segments and tails.
THEOREM EpisodesOfOneTake == Spec => []OneTake
<1>1. Init => TypeOK /\ CountInv /\ TakeInv
  BY InitType, InitCount, InitTake
<1>2. TypeOK /\ CountInv /\ TakeInv /\ [Next]_vars => (TypeOK /\ CountInv /\ TakeInv)'
  BY StepType, StepCount, StepTake
<1>3. TypeOK /\ CountInv /\ TakeInv => OneTake
  BY TakeGivesOne
<1> QED
  BY <1>1, <1>2, <1>3, PTL DEF Spec
------------------------------------------------------------------------------
(* Saves against pushes *)

\* A push under way uploads what is saved, for saves wait for it; a dataset the Hub has not
\* is owed a push, until the save that changed it has marked so.
PushInv ==
  /\ uploading = None \/ (uploading \in Upload /\ uploading.episodes = data.episodes)
  /\ data.episodes = <<>> => hub.episodes = <<>>
  /\ ~data.sized => pc = "failed"
  /\ ~poisoned /\ pc # "failed" /\ hub.episodes # data.episodes =>
       needsPush \/ pc = "saved"
  /\ (pc = "down" /\ ~poisoned => hub.episodes = data.episodes)

\* A step that neither saves nor pushes keeps PushInv.
LEMMA SamePush ==
  ASSUME PushInv, data'.episodes = data.episodes, data'.sized = data.sized,
         UNCHANGED <<uploading, hub>>,
         (needsPush \/ pc = "saved") => (needsPush' \/ pc' = "saved"),
         pc = "failed" <=> pc' = "failed", poisoned => poisoned', pc' = "down" => pc = "down"
  PROVE  PushInv'
BY DEF PushInv

\* Sentry begins with a Hub that has what is saved, ...
LEMMA InitPush == Init => PushInv
BY DEF Init, RecorderInit, NewDataset, Contents, PushInv

\* ... and every step that changes what is saved owes a push.
LEMMA StepPush == TypeOK /\ PushInv /\ [Next]_vars => PushInv'
<1> SUFFICES ASSUME TypeOK, PushInv, [Next]_vars PROVE PushInv'
  OBVIOUS
<1>0. data \in Dataset
  BY DEF TypeOK, Dataset
<1>s. ASSUME SaveEpisode, pc' = "saved", UNCHANGED hub, UNCHANGED uploading, pc # "failed"
      PROVE  PushInv'
  <2>1. data'.sized /\ uploading = None
    BY <1>0, <1>s, SavedFields DEF SaveEpisode, LockFree, HasPending
  <2>2. data'.episodes # <<>>
    <3>1. data'.episodes = Append(data.episodes, NewInterval(data))
      BY <1>0, <1>s, SavedFields DEF SaveEpisode
    <3>2. data.episodes \in Seq(Interval) /\ NewInterval(data) \in Interval
      BY <1>0, NewIntervalType DEF Dataset
    <3> QED
      BY <3>1, <3>2
  <2> QED
    BY <1>s, <2>1, <2>2 DEF PushInv
<1>r. ASSUME SaveRaises, pc' = "failed", UNCHANGED hub, UNCHANGED uploading
      PROVE  PushInv'
  <2>1. uploading = None /\ data' \in Failed(data)
    BY <1>r DEF SaveRaises, LockFree
  <2>2. data'.episodes = <<>> => data.episodes = <<>>
    BY <1>0, <2>1, FailedEpisodes
  <2> QED
    BY <1>r, <2>1, <2>2 DEF PushInv
<1>1. CASE BeginSegment
  BY <1>1, SamePush DEF BeginSegment, hubVars
<1>2. CASE Tick
  <2>1. NextFrame \in Frame
    BY DEF NextFrame, Frame, TypeOK
  <2>2. data'.episodes = data.episodes /\ data'.sized = data.sized
    BY <1>0, <1>2, <2>1, AddFrameFields DEF Tick, RecordFrame
  <2> QED
    BY <1>2, <2>2, SamePush DEF Tick, hubVars, sentryVars
<1>3. CASE Rotate
  BY <1>3, <1>s, <1>r DEF Rotate, hubVars
<1>4. CASE LeaveLoop
  BY <1>4, SamePush DEF LeaveLoop, hubVars
<1>5. CASE SaveTail
  <2>1. CASE ~HasPending(data) /\ pc' = "idle" /\ UNCHANGED data
    BY <1>5, <2>1, SamePush DEF SaveTail, hubVars, sentryVars
  <2> QED
    BY <1>5, <1>s, <1>r, <2>1 DEF SaveTail, hubVars
<1>6. CASE Poison
  <2>1. data'.episodes = data.episodes /\ data'.sized
    BY <1>0, <1>6, DiscardedFields DEF Poison
  <2> QED
    BY <1>6, <2>1 DEF Poison, hubVars, PushInv
<1>7. CASE SetNeedsPush
  BY <1>7, SamePush DEF SetNeedsPush, hubVars, sentryVars
<1>8. CASE CountEpisode
  BY <1>8, SamePush DEF CountEpisode
<1>9. CASE Teardown
  BY <1>9, SamePush DEF Teardown, hubVars, sentryVars
<1>10. CASE Close /\ UNCHANGED sentryVars
  <2>1. data'.episodes = data.episodes /\ data'.sized = data.sized
    BY <1>0, <1>10, DiscardedFields DEF Close
  <2> QED
    BY <1>10, <2>1, SamePush DEF Close, hubVars, sentryVars
<1>11. CASE FinalPush(needsPush /\ ~poisoned) /\ UNCHANGED sentryVars
  <2>1. Contents(data).episodes = data.episodes
    BY DEF Contents
  <2> QED
    BY <1>11, <2>1 DEF FinalPush, sentryVars, PushInv
<1>12. CASE BeginPush(poisoned) /\ UNCHANGED sentryVars
  <2>1. Contents(data) \in Upload /\ Contents(data).episodes = data.episodes
    BY <1>0 DEF Contents, Upload, Dataset
  <2> QED
    BY <1>12, <2>1 DEF BeginPush, sentryVars, PushInv
<1>13. CASE EndPush /\ UNCHANGED sentryVars
  <2>1. uploading \in Upload /\ uploading.episodes = data.episodes
    BY <1>13 DEF EndPush, PushInv
  <2>2. hub'.episodes = data.episodes
    BY <1>13, <2>1 DEF EndPush, Uploaded, Upload
  <2> QED
    BY <1>13, <2>2 DEF EndPush, sentryVars, PushInv
<1>14. CASE FailPush /\ UNCHANGED sentryVars
  BY <1>14 DEF FailPush, sentryVars, PushInv
<1>15. CASE UNCHANGED vars
  BY <1>15, SamePush DEF vars, recorderVars, sentryVars
<1> QED
  BY <1>1, <1>2, <1>3, <1>4, <1>5, <1>6, <1>7, <1>8, <1>9, <1>10, <1>11, <1>12, <1>13, <1>14,
     <1>15 DEF Next, Strategy, Executor, Over, vars

\* At the end of the program the Hub has every episode, whatever the order of saves, queued,
\* running and failing pushes, unless the final push failed.
THEOREM HubStaysCurrent == Spec => []HubCurrent
<1>1. Init => TypeOK /\ PushInv
  BY InitType, InitPush
<1>2. TypeOK /\ PushInv /\ [Next]_vars => (TypeOK /\ PushInv)'
  BY StepType, StepPush
<1>3. PushInv => HubCurrent
  BY DEF PushInv, HubCurrent, Unbroken
<1> QED
  BY <1>1, <1>2, <1>3, PTL DEF Spec

\* A step begins no upload once a failed save has poisoned the dataset.
LEMMA StepPoison == [Next]_vars => NoUploadIfPoisoned
<1> SUFFICES ASSUME [Next]_vars, poisoned
             PROVE  uploading' \in {uploading, None} /\ (uploading = None => hub' = hub)
  BY DEF NoUploadIfPoisoned
<1>1. CASE Strategy
  BY <1>1 DEF Strategy, BeginSegment, Tick, Rotate, LeaveLoop, SaveTail, Poison, SetNeedsPush,
              CountEpisode, Teardown, Close, FinalPush, hubVars
<1>2. CASE Executor
  BY <1>2 DEF Executor, BeginPush, EndPush, FailPush
<1>3. CASE UNCHANGED vars
  BY <1>3 DEF vars, recorderVars
<1> QED
  BY <1>1, <1>2, <1>3 DEF Next, Over, vars

\* Once a failed save has poisoned the dataset no upload begins, pushes that were queued
\* before it included.
THEOREM PoisonAlwaysHolds == Spec => PoisonHolds
<1>1. [Next]_vars => [NoUploadIfPoisoned]_vars
  BY StepPoison
<1> QED
  BY <1>1, PTL DEF Spec, PoisonHolds
------------------------------------------------------------------------------
(* Nothing is left in the buffer *)

TailInv == pc \notin {"loop", "finally", "failed"} /\ data.sized => data.buffer = <<>>

\* Sentry begins with an empty buffer, ...
LEMMA InitTail == Init => TailInv
BY DEF Init, RecorderInit, NewDataset, TailInv

\* ... and leaves the recording only by a save.
LEMMA StepTail == TypeOK /\ TailInv /\ [Next]_vars => TailInv'
<1> SUFFICES ASSUME TypeOK, TailInv, [Next]_vars PROVE TailInv'
  OBVIOUS
<1>0. data \in Dataset
  BY DEF TypeOK, Dataset
<1>1. CASE UNCHANGED data /\ (pc' = pc \/ pc \notin {"loop", "finally", "failed"})
  BY <1>1 DEF TailInv
<1>2. CASE pc' \in {"loop", "finally", "failed"}
  BY <1>2 DEF TailInv
<1>3. CASE SaveEpisode
  BY <1>0, <1>3, SavedFields DEF SaveEpisode, TailInv
<1>4. CASE SaveTail
  <2>1. CASE ~HasPending(data) /\ UNCHANGED data
    BY <2>1 DEF TailInv, HasPending
  <2> QED
    BY <1>2, <1>3, <1>4, <2>1 DEF SaveTail
<1>5. CASE Poison
  BY <1>0, <1>5, DiscardedFields DEF Poison, TailInv
<1>6. CASE Close
  BY <1>0, <1>6, DiscardedFields DEF Close, TailInv
<1>7. BeginSegment \/ Tick \/ Rotate \/ LeaveLoop => pc' \in {"loop", "finally", "failed"} \/ SaveEpisode
  BY DEF BeginSegment, Tick, Rotate, LeaveLoop
<1>8. SetNeedsPush \/ CountEpisode \/ Teardown \/ FinalPush(needsPush /\ ~poisoned) =>
        UNCHANGED data /\ pc \notin {"loop", "finally", "failed"}
  BY DEF SetNeedsPush, CountEpisode, Teardown, FinalPush
<1>9. Executor \/ UNCHANGED vars \/ Over => UNCHANGED data /\ pc' = pc
  BY DEF Executor, BeginPush, EndPush, FailPush, vars, recorderVars, Over
<1> QED
  BY <1>1, <1>2, <1>3, <1>4, <1>5, <1>6, <1>7, <1>8, <1>9 DEF Next, Strategy, Over, vars
------------------------------------------------------------------------------
(* What the strategies behind Sentry have in common *)

\* Types that a step of any of them keeps.
DataType == data \in Dataset /\ frames \in Nat /\ take \in Nat

\* What a step of them does to the dataset, apart from a flush of the ring.
Moves ==
  /\ \/ UNCHANGED data
     \/ data' = AddFrame(data, NextFrame)
     \/ data' \in {Saved(data), Finalized(data), Discarded(data)} \union Failed(data)
  /\ frames' \in {frames, frames + 1} /\ take' \in {take, take + 1}

\* Whatever the dataset goes through, it stays one.
LEMMA MovesType == DataType /\ Moves => DataType'
<1> SUFFICES ASSUME DataType, Moves PROVE DataType'
  OBVIOUS
<1>1. NextFrame \in Frame
  BY NextFrameFields DEF DataType
<1>2. data' \in Dataset
  <2>1. data \in Dataset
    BY DEF DataType
  <2>2. AddFrame(data, NextFrame) \in Dataset
    BY <1>1, <2>1, AddFrameFields
  <2>3. {Saved(data), Finalized(data), Discarded(data)} \subseteq Dataset
    BY <2>1, SavedFields, DiscardedFields
  <2>4. Failed(data) \subseteq Dataset
    BY <2>1, FailedFields
  <2> QED
    BY <2>1, <2>2, <2>3, <2>4 DEF Moves
<1> QED
  BY <1>2 DEF DataType, Moves

\* A push is owed as soon as the Hub differs; only DAgger keeps count of it.
Owed == strategy \in {"highlight", "episodic"} \/ needsPush = TRUE \/ pc \in {"saved", "owing"}
Wanted == strategy \in {"highlight", "episodic"} \/ needsPush = TRUE

\* A push under way uploads what is saved, for saves wait for it; a dataset the Hub has not
\* is owed a push.
HubInv ==
  /\ uploading = None \/ (uploading \in Upload /\ uploading.episodes = data.episodes)
  /\ data.episodes = <<>> => hub.episodes = <<>>
  /\ data.sized /\ hub.episodes # data.episodes => Owed
  /\ pc = "down" /\ data.sized => hub.episodes = data.episodes

HubQuiet ==
  /\ UNCHANGED hub /\ UNCHANGED uploading
  /\ data'.episodes = data.episodes
  /\ Owed => Owed'
  /\ data'.sized => data.sized \/ Owed'
  /\ pc' = "down" => pc = "down" /\ (data'.sized => data.sized)

HubSaves ==
  /\ UNCHANGED hub /\ UNCHANGED uploading
  /\ pc' # "down"
  /\ \/ SaveEpisode /\ Owed'
     \/ SaveRaises /\ (Owed => Owed')

HubPushes ==
  \/ UNCHANGED pc /\ (BeginPush(FALSE) \/ EndPush \/ FailPush)
  \/ FinalPush(Wanted)

\* A step that is one of these keeps the Hub current or a push owed.
LEMMA HubStep ==
  DataType /\ HubInv /\ UNCHANGED strategy /\ (HubQuiet \/ HubSaves \/ HubPushes) => HubInv'
<1> SUFFICES ASSUME DataType, HubInv, UNCHANGED strategy, HubQuiet \/ HubSaves \/ HubPushes
             PROVE  HubInv'
  OBVIOUS
<1>0. data \in Dataset
  BY DEF DataType
<1>1. CASE HubQuiet
  BY <1>1 DEF HubQuiet, HubInv
<1>2. CASE HubSaves /\ SaveEpisode /\ Owed'
  <2>1. data'.sized /\ uploading = None
    BY <1>0, <1>2, SavedFields DEF SaveEpisode, LockFree, HasPending
  <2>2. data'.episodes # <<>>
    <3>1. data'.episodes = Append(data.episodes, NewInterval(data))
      BY <1>0, <1>2, SavedFields DEF SaveEpisode
    <3>2. data.episodes \in Seq(Interval) /\ NewInterval(data) \in Interval
      BY <1>0, NewIntervalType DEF Dataset
    <3> QED
      BY <3>1, <3>2
  <2> QED
    BY <1>2, <2>1, <2>2 DEF HubInv, HubSaves
<1>3. CASE HubSaves /\ SaveRaises /\ (Owed => Owed')
  <2>1. uploading = None /\ data' \in Failed(data)
    BY <1>3 DEF SaveRaises, LockFree
  <2>2. data'.episodes = <<>> => data.episodes = <<>>
    BY <1>0, <2>1, FailedEpisodes
  <2>3. data'.sized => data' = data
    BY <1>0, <2>1, FailedFields
  <2> QED
    BY <1>3, <2>1, <2>2, <2>3 DEF HubInv, HubSaves
<1>4. CASE HubPushes
  <2>1. CASE UNCHANGED pc /\ BeginPush(FALSE)
    <3>1. Contents(data) \in Upload /\ Contents(data).episodes = data.episodes
      BY <1>0 DEF Contents, Upload, Dataset
    <3> QED
      BY <2>1, <3>1 DEF BeginPush, HubInv, Owed
  <2>2. CASE UNCHANGED pc /\ EndPush
    <3>1. uploading \in Upload /\ uploading.episodes = data.episodes
      BY <2>2 DEF EndPush, HubInv
    <3>2. hub'.episodes = data.episodes
      BY <2>2, <3>1 DEF EndPush, Uploaded, Upload
    <3> QED
      BY <2>2, <3>2 DEF EndPush, HubInv
  <2>3. CASE UNCHANGED pc /\ FailPush
    BY <2>3 DEF FailPush, HubInv, Owed
  <2>4. CASE FinalPush(Wanted)
    <3>1. Contents(data).episodes = data.episodes
      BY DEF Contents
    <3> QED
      BY <2>4, <3>1 DEF FinalPush, HubInv, Owed, Wanted
  <2> QED
    BY <1>4, <2>1, <2>2, <2>3, <2>4 DEF HubPushes
<1> QED
  BY <1>1, <1>2, <1>3, <1>4 DEF HubSaves
------------------------------------------------------------------------------
(* DAgger *)

\* The instance has its own copies of what Recorder defines.
LEMMA DaggerData ==
  ASSUME NEW c \in BOOLEAN, NEW d
  PROVE  /\ \A f : Dagger(c)!AddFrame(d, f) = AddFrame(d, f)
         /\ Dagger(c)!TotalFrames(d) = TotalFrames(d)
         /\ Dagger(c)!HasPending(d) <=> HasPending(d)
         /\ Dagger(c)!WithRows(d) = WithRows(d)
         /\ Dagger(c)!Committed(d) = Committed(d)
         /\ Dagger(c)!Saved(d) = Saved(d)
         /\ Dagger(c)!Failed(d) = Failed(d)
         /\ Dagger(c)!Finalized(d) = Finalized(d)
         /\ Dagger(c)!Contents(d) = Contents(d)
<1>1. \A f : Dagger(c)!AddFrame(d, f) = AddFrame(d, f)
  BY DEF Dagger!AddFrame, AddFrame
<1>2. Dagger(c)!TotalFrames(d) = TotalFrames(d)
  BY DEF Dagger!TotalFrames, TotalFrames
<1>3. Dagger(c)!HasPending(d) <=> HasPending(d)
  BY DEF Dagger!HasPending, HasPending
<1>4. Dagger(c)!WithRows(d) = WithRows(d)
  BY DEF Dagger!WithRows, WithRows
<1>5. Dagger(c)!Committed(d) = Committed(d)
  BY <1>2, <1>4 DEF Dagger!Committed, Committed
<1>6. Dagger(c)!Saved(d) = Saved(d)
  BY <1>5 DEF Dagger!Saved, Saved
<1>7. Dagger(c)!Failed(d) = Failed(d)
  BY <1>3, <1>4, <1>5 DEF Dagger!Failed, Failed
<1>8. Dagger(c)!Finalized(d) = Finalized(d)
  BY DEF Dagger!Finalized, Finalized
<1>9. Dagger(c)!Contents(d) = Contents(d)
  BY DEF Dagger!Contents, Contents
<1> QED
  BY <1>1, <1>2, <1>3, <1>4, <1>5, <1>6, <1>7, <1>8, <1>9

\* ... and so are the steps of the recorder.
LEMMA DaggerActions ==
  ASSUME NEW c \in BOOLEAN
  PROVE  /\ Dagger(c)!RecordFrame <=> RecordFrame
         /\ Dagger(c)!SaveEpisode <=> SaveEpisode
         /\ Dagger(c)!SaveRaises <=> SaveRaises
         /\ Dagger(c)!Close <=> Close
         /\ Dagger(c)!FinalPush(needsPush) <=> FinalPush(needsPush)
         /\ Dagger(c)!BeginPush(FALSE) <=> BeginPush(FALSE)
         /\ Dagger(c)!EndPush <=> EndPush
         /\ Dagger(c)!FailPush <=> FailPush
         /\ Dagger(c)!Over <=> Over
<1>1. Dagger(c)!RecordFrame <=> RecordFrame
  BY DaggerData DEF Dagger!RecordFrame, RecordFrame, Dagger!CountFrame, CountFrame,
                    Dagger!NextFrame, NextFrame
<1>2. Dagger(c)!SaveEpisode <=> SaveEpisode
  BY DaggerData DEF Dagger!SaveEpisode, SaveEpisode, Dagger!LockFree, LockFree
<1>3. Dagger(c)!SaveRaises <=> SaveRaises
  BY DaggerData DEF Dagger!SaveRaises, SaveRaises, Dagger!LockFree, LockFree
<1>4. Dagger(c)!Close <=> Close
  BY DaggerData DEF Dagger!Close, Close, Dagger!hubVars, hubVars, Dagger!takeVars, takeVars
<1>5. Dagger(c)!FinalPush(needsPush) <=> FinalPush(needsPush)
  BY DaggerData DEF Dagger!FinalPush, FinalPush, Dagger!takeVars, takeVars
<1>6. Dagger(c)!BeginPush(FALSE) <=> BeginPush(FALSE)
  BY DaggerData DEF Dagger!BeginPush, BeginPush, Dagger!LockFree, LockFree, Dagger!takeVars, takeVars
<1>7. Dagger(c)!EndPush <=> EndPush
  BY DEF Dagger!EndPush, EndPush, Dagger!Uploaded, Uploaded, Dagger!takeVars, takeVars
<1>8. Dagger(c)!FailPush <=> FailPush
  BY DEF Dagger!FailPush, FailPush, Dagger!takeVars, takeVars
<1>9. Dagger(c)!Over <=> Over
  BY DEF Dagger!Over, Over, Dagger!recorderVars, recorderVars
<1> QED
  BY <1>1, <1>2, <1>3, <1>4, <1>5, <1>6, <1>7, <1>8, <1>9

\* A correction ends in a pause.
LEMMA EndOfCorrection ==
  ASSUME NEW c \in BOOLEAN, NEW key, <<"correcting", key>> \in DOMAIN Dagger(c)!Transition
  PROVE  Dagger(c)!Transition[<<"correcting", key>>] = "paused"
BY DEF Dagger!Transition

\* What a step of DAgger is, in terms of the dataset, the take, the phase and the tagged frames,
\* as long as no save has failed.
InLoop == {"top", "ended", "saved", "upload", "act", "rotate"}

\* Where nothing may be left in the buffer.
Settled(c) ==
  \/ pc \in {"owing", "exit", "closing", "final", "down", "raised"}
  \/ ~c /\ pc \in InLoop \ {"ended"} /\ phase # "correcting"

DaggerQuiet(c) ==
  /\ data.sized
  /\ data'.rows = data.rows /\ data'.buffer = data.buffer /\ data'.episodes = data.episodes
  /\ frames' = frames /\ take' = take /\ phase' = phase /\ human' = human
  /\ pc' \in InLoop => pc \in InLoop
  /\ pc' = "ended" => pc = "ended"
  /\ Settled(c)' => Settled(c) \/ ~HasPending(data)

DaggerConsumes(c) ==
  /\ data' = data /\ frames' = frames /\ human' = human
  /\ pc = "top"
  /\ pc' = IF ~c /\ phase = "correcting" /\ phase' # "correcting" THEN "ended" ELSE "upload"
  /\ take' = IF phase' = "correcting" /\ phase # "correcting" THEN take + 1 ELSE take

DaggerRecords(c) ==
  /\ data' = AddFrame(data, NextFrame) /\ frames' = frames + 1 /\ take' = take
  /\ pc = "act" /\ pc' \in {"top", "rotate"} /\ phase' = phase
  /\ \/ phase = "correcting" /\ human' = human \union {frames + 1}
     \/ c /\ phase # "correcting" /\ human' = human

DaggerSaves ==
  /\ HasPending(data) /\ data' = Saved(data)
  /\ frames' = frames /\ take' = take /\ phase' = phase /\ human' = human
  /\ \/ pc = "finally" /\ pc' = "owing"
     \/ pc' = "saved" /\ (pc = "ended" \/ phase # "correcting")

DaggerKinds(c) == DaggerQuiet(c) \/ DaggerConsumes(c) \/ DaggerRecords(c) \/ DaggerSaves

\* A save that raises and leaves the buffer sized had nothing to save.
LEMMA RaisesQuiet ==
  ASSUME DataType, SaveRaises, data'.sized PROVE data' = data /\ ~HasPending(data)
BY FailedFields DEF DataType, SaveRaises

\* As long as no save has failed, a step of DAgger is of one of the kinds.
LEMMA DaggerStepKinds ==
  ASSUME NEW c \in BOOLEAN, DataType, Dagger(c)!Next, data'.sized PROVE DaggerKinds(c)
<1>0. data \in Dataset
  BY DEF DataType
<1> USE DaggerActions
<1> USE DEF Dagger!hubVars, Dagger!takeVars, Dagger!daggerVars
<1>1. CASE Dagger(c)!Leave
  BY <1>1 DEF Dagger!Leave, DaggerKinds, DaggerQuiet, InLoop, Settled
<1>2. CASE Dagger(c)!Consume
  <2> DEFINE key == <<phase, pending>>
             new == IF key \in DOMAIN Dagger(c)!Transition THEN Dagger(c)!Transition[key] ELSE phase
  <2>1. /\ pc = "top" /\ phase' = new
        /\ IF new = "correcting" /\ phase # new
           THEN tick' = 0 /\ take' = take + 1
           ELSE UNCHANGED <<tick, take>>
        /\ pc' = IF ~c /\ phase = "correcting" /\ new = "paused" THEN "ended" ELSE "upload"
        /\ data' = data /\ frames' = frames /\ human' = human
    BY <1>2 DEF Dagger!Consume
  <2>2. phase = "correcting" /\ new # "correcting" => new = "paused"
    <3> SUFFICES ASSUME phase = "correcting", new # "correcting" PROVE new = "paused"
      OBVIOUS
    <3>1. key = <<"correcting", pending>> /\ key \in DOMAIN Dagger(c)!Transition
      OBVIOUS
    <3>2. new = Dagger(c)!Transition[key]
      BY <3>1
    <3> HIDE DEF key, new
    <3> QED
      BY <3>1, <3>2, EndOfCorrection
  <2> HIDE DEF new
  <2>3. DaggerConsumes(c)
    BY <2>1, <2>2 DEF DaggerConsumes
  <2> QED
    BY <2>3 DEF DaggerKinds
<1>3. CASE Dagger(c)!SaveCorrection
  <2>1. CASE SaveEpisode /\ pc' = "saved"
    BY <1>3, <2>1 DEF Dagger!SaveCorrection, SaveEpisode, DaggerKinds, DaggerSaves
  <2>2. CASE SaveRaises /\ pc' = "finally"
    BY <1>3, <2>2, RaisesQuiet DEF Dagger!SaveCorrection, DaggerKinds, DaggerQuiet, InLoop, Settled
  <2> QED
    BY <1>3, <2>1, <2>2 DEF Dagger!SaveCorrection
<1>4. CASE Dagger(c)!Register
  BY <1>4 DEF Dagger!Register, DaggerKinds, DaggerQuiet, InLoop, Settled
<1>5. CASE Dagger(c)!Upload
  BY <1>5 DEF Dagger!Upload, DaggerKinds, DaggerQuiet, InLoop, Settled
<1>6. CASE Dagger(c)!Correct
  <2>1. CASE tick = 0
    BY <1>6, <2>1 DEF Dagger!Correct, Dagger!Rotating, RecordFrame, CountFrame, DaggerKinds,
                      DaggerRecords
  <2>2. CASE tick # 0
    BY <1>6, <2>2 DEF Dagger!Correct, Dagger!Rotating, DaggerKinds, DaggerQuiet, InLoop, Settled
  <2> QED
    BY <2>1, <2>2
<1>7. CASE Dagger(c)!Drive
  <2>1. CASE UNCHANGED data /\ UNCHANGED <<frames, take, discarded>>
    BY <1>7, <2>1 DEF Dagger!Drive, Dagger!Rotating, DaggerKinds, DaggerQuiet, InLoop, Settled
  <2>2. CASE RecordFrame /\ c
    BY <1>7, <2>2 DEF Dagger!Drive, Dagger!Rotating, RecordFrame, CountFrame, DaggerKinds,
                      DaggerRecords
  <2> QED
    BY <1>7, <2>1, <2>2 DEF Dagger!Drive
<1>8. CASE Dagger(c)!Rotate
  <2>1. CASE UNCHANGED data /\ pc' = "top"
    BY <1>8, <2>1 DEF Dagger!Rotate, DaggerKinds, DaggerQuiet, InLoop, Settled
  <2>2. CASE Dagger(c)!MayRotate /\ SaveEpisode /\ pc' = "saved"
    BY <1>8, <2>2 DEF Dagger!Rotate, Dagger!MayRotate, SaveEpisode, DaggerKinds, DaggerSaves
  <2>3. CASE SaveRaises /\ pc' = "finally"
    BY <1>8, <2>3, RaisesQuiet DEF Dagger!Rotate, DaggerKinds, DaggerQuiet, InLoop, Settled
  <2> QED
    BY <1>8, <2>1, <2>2, <2>3 DEF Dagger!Rotate
<1>9. CASE Dagger(c)!SaveTail
  <2>1. CASE SaveEpisode /\ pc' = "owing"
    BY <1>9, <2>1 DEF Dagger!SaveTail, SaveEpisode, DaggerKinds, DaggerSaves
  <2>2. CASE SaveRaises /\ pc' = "exit"
    BY <1>9, <2>2, RaisesQuiet DEF Dagger!SaveTail, DaggerKinds, DaggerQuiet, InLoop, Settled
  <2> QED
    BY <1>9, <2>1, <2>2 DEF Dagger!SaveTail
<1>10. CASE Dagger(c)!Exit
  BY <1>0, <1>10, DaggerData, DiscardedFields
     DEF Dagger!Exit, DaggerKinds, DaggerQuiet, InLoop, Settled
<1>11. CASE Close /\ UNCHANGED Dagger(c)!daggerVars
  BY <1>0, <1>11, DiscardedFields DEF Close, takeVars, DaggerKinds, DaggerQuiet, InLoop, Settled
<1>12. CASE FinalPush(needsPush) /\ UNCHANGED Dagger(c)!daggerVars
  BY <1>12 DEF FinalPush, takeVars, DaggerKinds, DaggerQuiet, InLoop, Settled
<1>13. CASE (BeginPush(FALSE) \/ EndPush \/ FailPush) /\ UNCHANGED Dagger(c)!daggerVars
  BY <1>13 DEF BeginPush, EndPush, FailPush, takeVars, DaggerKinds, DaggerQuiet, InLoop, Settled
<1>14. CASE Dagger(c)!Input
  BY <1>14 DEF Dagger!Input, Dagger!AskUpload, Dagger!Request, Dagger!recorderVars, DaggerKinds,
               DaggerQuiet, InLoop, Settled
<1>15. CASE Over /\ UNCHANGED Dagger(c)!daggerVars
  BY <1>15 DEF Over, recorderVars, DaggerKinds, DaggerQuiet, InLoop, Settled
<1>16. CASE Dagger(c)!RegisterTail
  BY <1>16 DEF Dagger!RegisterTail, DaggerKinds, DaggerQuiet, InLoop, Settled
<1> QED
  BY <1>1, <1>2, <1>3, <1>4, <1>5, <1>6, <1>7, <1>8, <1>9, <1>10, <1>11, <1>12, <1>13, <1>14,
     <1>15, <1>16 DEF Dagger!Next, Dagger!Loop, Dagger!Executor

\* A step of DAgger does to the dataset what Moves allows, ...
LEMMA DaggerMoves == ASSUME NEW c \in BOOLEAN, DataType, Dagger(c)!Next PROVE Moves
<1> USE DaggerActions
<1> USE DEF Dagger!hubVars, Dagger!takeVars, Dagger!daggerVars
<1>1. CASE Dagger(c)!Leave \/ Dagger(c)!Register \/ Dagger(c)!Upload \/ Dagger(c)!RegisterTail
  BY <1>1 DEF Dagger!Leave, Dagger!Register, Dagger!Upload, Dagger!RegisterTail, Moves
<1>2. CASE Dagger(c)!Consume
  BY <1>2 DEF Dagger!Consume, Moves
<1>3. CASE Dagger(c)!SaveCorrection
  BY <1>3 DEF Dagger!SaveCorrection, SaveEpisode, SaveRaises, Moves
<1>4. CASE Dagger(c)!Correct
  BY <1>4 DEF Dagger!Correct, RecordFrame, CountFrame, Moves
<1>5. CASE Dagger(c)!Drive
  BY <1>5 DEF Dagger!Drive, RecordFrame, CountFrame, Moves
<1>6. CASE Dagger(c)!Rotate
  BY <1>6 DEF Dagger!Rotate, SaveEpisode, SaveRaises, Moves
<1>7. CASE Dagger(c)!SaveTail
  BY <1>7 DEF Dagger!SaveTail, SaveEpisode, SaveRaises, Moves
<1>8. CASE Dagger(c)!Exit
  BY <1>8, DaggerData DEF Dagger!Exit, Moves
<1>9. CASE Close \/ FinalPush(needsPush) \/ BeginPush(FALSE) \/ EndPush \/ FailPush
  BY <1>9 DEF Close, FinalPush, BeginPush, EndPush, FailPush, takeVars, Moves
<1>10. CASE Dagger(c)!Input
  BY <1>10 DEF Dagger!Input, Dagger!AskUpload, Dagger!Request, Dagger!recorderVars, Moves
<1>11. CASE Over
  BY <1>11 DEF Over, recorderVars, Moves
<1> QED
  BY <1>1, <1>2, <1>3, <1>4, <1>5, <1>6, <1>7, <1>8, <1>9, <1>10, <1>11
     DEF Dagger!Next, Dagger!Loop, Dagger!Executor

\* ... and to the Hub what HubStep asks for: a save sets _needs_push behind it.
LEMMA DaggerHub ==
  ASSUME NEW c \in BOOLEAN, DataType, Dagger(c)!Next, DaggerRuns, UNCHANGED strategy
  PROVE  HubQuiet \/ HubSaves \/ HubPushes
<1>0. data \in Dataset
  BY DEF DataType
<1>w. Wanted <=> needsPush = TRUE
  BY DEF Wanted, DaggerRuns
<1> USE DaggerActions
<1> USE DEF Dagger!hubVars, Dagger!takeVars, Dagger!daggerVars
<1>1. CASE Dagger(c)!Leave
  BY <1>1 DEF Dagger!Leave, HubQuiet, Owed
<1>2. CASE Dagger(c)!Consume
  BY <1>2 DEF Dagger!Consume, HubQuiet, Owed
<1>3. CASE Dagger(c)!SaveCorrection
  BY <1>3 DEF Dagger!SaveCorrection, HubSaves, Owed
<1>4. CASE Dagger(c)!Register
  BY <1>4 DEF Dagger!Register, HubQuiet, Owed
<1>5. CASE Dagger(c)!Upload
  BY <1>5 DEF Dagger!Upload, HubQuiet, Owed
<1>r. RecordFrame => data'.episodes = data.episodes /\ data'.sized = data.sized
  BY <1>0, NextFrameFields, AddFrameFields DEF RecordFrame, DataType
<1>6. CASE Dagger(c)!Correct
  BY <1>6, <1>r DEF Dagger!Correct, Dagger!Rotating, HubQuiet, Owed
<1>7. CASE Dagger(c)!Drive
  BY <1>7, <1>r DEF Dagger!Drive, Dagger!Rotating, HubQuiet, Owed
<1>8. CASE Dagger(c)!Rotate
  BY <1>8 DEF Dagger!Rotate, HubQuiet, HubSaves, Owed
<1>9. CASE Dagger(c)!SaveTail
  BY <1>9 DEF Dagger!SaveTail, HubSaves, Owed
<1>10. CASE Dagger(c)!Exit
  BY <1>0, <1>10, DaggerData, DiscardedFields DEF Dagger!Exit, HubQuiet, Owed
<1>11. CASE Close
  BY <1>0, <1>11, DiscardedFields DEF Close, hubVars, HubQuiet, Owed
<1>12. CASE FinalPush(needsPush)
  BY <1>12, <1>w DEF FinalPush, HubPushes
<1>13. CASE BeginPush(FALSE) \/ EndPush \/ FailPush
  BY <1>13 DEF BeginPush, EndPush, FailPush, HubPushes
<1>14. CASE Dagger(c)!Input
  BY <1>14 DEF Dagger!Input, Dagger!AskUpload, Dagger!Request, Dagger!recorderVars, HubQuiet, Owed
<1>15. CASE Over
  BY <1>15 DEF Over, recorderVars, HubQuiet, Owed
<1>16. CASE Dagger(c)!RegisterTail
  BY <1>16 DEF Dagger!RegisterTail, HubQuiet, Owed
<1> QED
  BY <1>1, <1>2, <1>3, <1>4, <1>5, <1>6, <1>7, <1>8, <1>9, <1>10, <1>11, <1>12, <1>13, <1>14,
     <1>15, <1>16 DEF Dagger!Next, Dagger!Loop, Dagger!Executor

\* DAgger: the frames count through until a save fails.
DaggerCount == data.sized => Counted(data, frames)

\* Every step of DAgger keeps the count.
LEMMA DaggerStepCount ==
  ASSUME NEW c \in BOOLEAN, DataType, DaggerCount, Dagger(c)!Next PROVE DaggerCount'
<1> SUFFICES ASSUME data'.sized PROVE Counted(data', frames')
  BY DEF DaggerCount
<1>0. data \in Dataset /\ frames \in Nat /\ take \in Nat
  BY DEF DataType
<1>k. DaggerKinds(c)
  BY DaggerStepKinds
<1>1. CASE DaggerQuiet(c)
  BY <1>1, SameCounted DEF DaggerQuiet, DaggerCount
<1>2. CASE DaggerConsumes(c)
  BY <1>2 DEF DaggerConsumes, DaggerCount
<1>3. CASE DaggerRecords(c)
  <2>1. NextFrame \in Frame /\ NextFrame.n = frames + 1
    BY <1>0, NextFrameFields
  <2>2. data' = AddFrame(data, NextFrame) /\ frames' = frames + 1 /\ data.sized
    BY <1>0, <1>3, <2>1, AddFrameFields DEF DaggerRecords
  <2> QED
    BY <1>0, <2>1, <2>2, AddedCounted DEF DaggerCount
<1>4. CASE DaggerSaves
  BY <1>0, <1>4, SavedCounted DEF DaggerSaves, HasPending, DaggerCount
<1> QED
  BY <1>k, <1>1, <1>2, <1>3, <1>4 DEF DaggerKinds

\* The buffer is empty where nothing may be left in it, and with corrections only it is of
\* the correction under way and every episode is of one.
SettledInv(c) ==
  data.sized =>
    /\ Settled(c) => data.buffer = <<>>
    /\ ~c => OfTake(data, take) /\ Divided(data)

\* Every step of DAgger keeps the buffer settled, and with corrections only its one take.
LEMMA DaggerStepSettled ==
  ASSUME NEW c \in BOOLEAN, DataType, DaggerCount, SettledInv(c), Dagger(c)!Next
  PROVE  SettledInv(c)'
<1> SUFFICES ASSUME data'.sized
             PROVE  /\ Settled(c)' => data'.buffer = <<>>
                    /\ ~c => OfTake(data', take') /\ Divided(data')
  BY DEF SettledInv
<1>0. data \in Dataset /\ frames \in Nat /\ take \in Nat
  BY DEF DataType
<1>k. DaggerKinds(c)
  BY DaggerStepKinds
<1>1. CASE DaggerQuiet(c)
  <2>1. Settled(c)' => data'.buffer = <<>>
    BY <1>1 DEF DaggerQuiet, SettledInv, HasPending
  <2>2. ~c => OfTake(data', take')
    BY <1>1 DEF DaggerQuiet, SettledInv, OfTake
  <2>3. ~c => Divided(data')
    BY <1>1, SameDivided DEF DaggerQuiet, SettledInv
  <2> QED
    BY <2>1, <2>2, <2>3
<1>2. CASE DaggerConsumes(c)
  <2>1. Settled(c)' => Settled(c)
    BY <1>2 DEF DaggerConsumes, Settled, InLoop
  <2>2. ~c => OfTake(data', take')
    <3>1. CASE take' = take
      BY <1>2, <3>1 DEF DaggerConsumes, SettledInv
    <3>2. CASE ~c /\ phase # "correcting"
      <4>1. Settled(c)
        BY <1>2, <3>2 DEF DaggerConsumes, Settled, InLoop
      <4> QED
        BY <1>2, <4>1 DEF DaggerConsumes, SettledInv, OfTake
    <3> QED
      BY <1>2, <3>1, <3>2 DEF DaggerConsumes
  <2> QED
    BY <1>2, <2>1, <2>2 DEF DaggerConsumes, SettledInv
<1>3. CASE DaggerRecords(c)
  <2>1. NextFrame \in Frame /\ NextFrame.take = take
    BY <1>0, NextFrameFields
  <2>2. /\ data' = AddFrame(data, NextFrame) /\ data.sized /\ take' = take
        /\ data'.rows = data.rows /\ data'.episodes = data.episodes
    BY <1>0, <1>3, <2>1, AddFrameFields DEF DaggerRecords
  <2>3. ~c => OfTake(data', take)
    BY <1>0, <2>1, <2>2, AddedOfTake DEF SettledInv
  <2>4. ~c => Divided(data')
    BY <2>2, SameDivided DEF SettledInv
  <2>5. ~Settled(c)'
    BY <1>3 DEF DaggerRecords, Settled, InLoop
  <2> QED
    BY <2>2, <2>3, <2>4, <2>5
<1>4. CASE DaggerSaves
  <2>1. data' = Saved(data) /\ HasPending(data) /\ data.sized /\ data'.buffer = <<>>
    BY <1>0, <1>4, SavedFields DEF DaggerSaves, HasPending
  <2>2. /\ Tiled(data)
        /\ \A e \in 1..Len(data.episodes) : data.episodes[e].to <= Len(data.rows)
    BY <2>1 DEF DaggerCount, Counted
  <2>3. ~c => Divided(data')
    <3> SUFFICES ASSUME ~c PROVE Divided(data')
      OBVIOUS
    <3>1. Divided(data) /\ OfTake(data, take)
      BY <2>1 DEF SettledInv
    <3> QED
      BY <1>0, <2>1, <2>2, <3>1, SavedDivided
  <2> QED
    BY <2>1, <2>3 DEF OfTake
<1> QED
  BY <1>k, <1>1, <1>2, <1>3, <1>4 DEF DaggerKinds
------------------------------------------------------------------------------
(* Frames of a correction are in one episode *)

\* Of the frames with a number in h: those in the rows are of takes below t, ...
RowsBelow(d, h, t) == \A i \in 1..Len(d.rows) : d.rows[i].n \in h => d.rows[i].take < t

\* ... those in the buffer of takes below t, ...
BufferBelow(d, h, t) == \A i \in 1..Len(d.buffer) : d.buffer[i].n \in h => d.buffer[i].take < t

\* ... those in the buffer of other takes than those in the rows, ...
Foreign(d, h) ==
  \A i \in 1..Len(d.rows), j \in 1..Len(d.buffer) :
    d.rows[i].n \in h /\ d.buffer[j].n \in h => d.rows[i].take # d.buffer[j].take

\* ... and those in two episodes of different takes.
Apart(d, h) ==
  \A e1, e2 \in 1..Len(d.episodes) :
    \A i \in d.episodes[e1].from + 1 .. d.episodes[e1].to,
       j \in d.episodes[e2].from + 1 .. d.episodes[e2].to :
      d.rows[i].n \in h /\ d.rows[j].n \in h /\ d.rows[i].take = d.rows[j].take => e1 = e2

\* The four are about rows, buffer and episodes only.
LEMMA SameWhole ==
  ASSUME NEW d, NEW x, x.rows = d.rows, x.buffer = d.buffer, x.episodes = d.episodes,
         NEW h, NEW t
  PROVE  /\ RowsBelow(d, h, t) => RowsBelow(x, h, t)
         /\ BufferBelow(d, h, t) => BufferBelow(x, h, t)
         /\ Foreign(d, h) => Foreign(x, h)
         /\ Apart(d, h) => Apart(x, h)
BY DEF RowsBelow, BufferBelow, Foreign, Apart

\* What is below a take is below the next.
LEMMA LaterTake ==
  ASSUME NEW d \in Dataset, NEW h, NEW t \in Nat
  PROVE  /\ RowsBelow(d, h, t) => RowsBelow(d, h, t + 1)
         /\ BufferBelow(d, h, t) => BufferBelow(d, h, t + 1)
<1>1. \A i \in 1..Len(d.rows) : d.rows[i].take \in Nat
  BY Elements
<1>2. \A i \in 1..Len(d.buffer) : d.buffer[i].take \in Nat
  BY Elements
<1> QED
  BY <1>1, <1>2 DEF RowsBelow, BufferBelow

\* A frame whose number is not in h changes nothing.
LEMMA AddedOther ==
  ASSUME NEW d \in Dataset, NEW f \in Frame, NEW h, f.n \notin h, NEW t
  PROVE  /\ RowsBelow(d, h, t) => RowsBelow(AddFrame(d, f), h, t)
         /\ BufferBelow(d, h, t) => BufferBelow(AddFrame(d, f), h, t)
         /\ Foreign(d, h) => Foreign(AddFrame(d, f), h)
         /\ Apart(d, h) => Apart(AddFrame(d, f), h)
<1> DEFINE b == Len(d.buffer)
           x == AddFrame(d, f)
<1>1. x.rows = d.rows /\ x.episodes = d.episodes
  BY AddFrameFields
<1>p. /\ Len(x.buffer) = b + 1 /\ x.buffer[b + 1] = f
      /\ \A i \in 1..b : x.buffer[i] = d.buffer[i]
  BY AddedParts
<1>2. /\ b \in Nat /\ Len(x.buffer) = b + 1 /\ x.buffer[b + 1] = f
      /\ \A i \in 1..b : x.buffer[i] = d.buffer[i]
  BY <1>p, Lengths
<1>3. b = Len(d.buffer)
  OBVIOUS
<1> HIDE DEF b, x
<1>4. \A i \in 1..Len(x.buffer) : i \in 1..b \/ i = b + 1
  BY <1>2
<1>5. BufferBelow(d, h, t) => BufferBelow(x, h, t)
  BY <1>2, <1>3, <1>4 DEF BufferBelow
<1>6. Foreign(d, h) => Foreign(x, h)
  BY <1>1, <1>2, <1>3, <1>4 DEF Foreign
<1>7. RowsBelow(d, h, t) => RowsBelow(x, h, t)
  BY <1>1 DEF RowsBelow
<1>8. Apart(d, h) => Apart(x, h)
  BY <1>1 DEF Apart
<1> QED
  BY <1>5, <1>6, <1>7, <1>8 DEF x

\* A tagged frame joins those of its take, none of which are saved.
LEMMA AddedTagged ==
  ASSUME NEW d \in Dataset, NEW k \in Nat, Counted(d, k), NEW f \in Frame, f.n = k + 1,
         NEW h, RowsBelow(d, h, f.take), BufferBelow(d, h, f.take + 1), Foreign(d, h), Apart(d, h)
  PROVE  /\ RowsBelow(AddFrame(d, f), h \union {f.n}, f.take)
         /\ BufferBelow(AddFrame(d, f), h \union {f.n}, f.take + 1)
         /\ Foreign(AddFrame(d, f), h \union {f.n})
         /\ Apart(AddFrame(d, f), h \union {f.n})
<1> DEFINE a == Len(d.rows)
           b == Len(d.buffer)
           x == AddFrame(d, f)
           g == h \union {f.n}
<1>1. x.rows = d.rows /\ x.episodes = d.episodes
  BY AddFrameFields
<1>p. /\ Len(x.buffer) = b + 1 /\ x.buffer[b + 1] = f
      /\ \A i \in 1..b : x.buffer[i] = d.buffer[i]
  BY AddedParts
<1>2. /\ b \in Nat /\ Len(x.buffer) = b + 1 /\ x.buffer[b + 1] = f
      /\ \A i \in 1..b : x.buffer[i] = d.buffer[i]
  BY <1>p, Lengths
<1>3. /\ a = Len(d.rows) /\ b = Len(d.buffer) /\ a \in Nat /\ k = a + b
      /\ \A i \in 1..a : d.rows[i].n = i
      /\ \A i \in 1..b : d.buffer[i].n = a + i
  BY Lengths DEF Counted
<1>a. a \in Nat
  BY <1>3
<1>t. f.take \in Nat
  BY DEF Frame
<1> HIDE DEF a, b, x
<1>4. \A i \in 1..Len(x.buffer) : i \in 1..b \/ i = b + 1
  BY <1>2
<1>5. \A i \in 1..a : d.rows[i].n \in g <=> d.rows[i].n \in h
  BY <1>2, <1>3
<1>6. \A i \in 1..b : d.buffer[i].n \in g <=> d.buffer[i].n \in h
  BY <1>2, <1>3
<1> HIDE DEF g
<1>7. RowsBelow(x, g, f.take)
  BY <1>1, <1>3, <1>5 DEF RowsBelow
<1>8. BufferBelow(x, g, f.take + 1)
  <2>1. ASSUME NEW i \in 1..Len(x.buffer), x.buffer[i].n \in g PROVE x.buffer[i].take < f.take + 1
    <3>1. CASE i = b + 1
      BY <1>2, <1>t, <3>1
    <3>2. CASE i \in 1..b
      BY <1>2, <1>3, <1>6, <2>1, <3>2 DEF BufferBelow
    <3> QED
      BY <1>4, <3>1, <3>2
  <2> QED
    BY <2>1 DEF BufferBelow
<1>9. Foreign(x, g)
  <2>1. ASSUME NEW i \in 1..a, NEW j \in 1..Len(x.buffer), d.rows[i].n \in g, x.buffer[j].n \in g
        PROVE  d.rows[i].take # x.buffer[j].take
    <3>1. CASE j = b + 1
      <4>1. d.rows[i].take < f.take
        BY <1>3, <1>5, <2>1 DEF RowsBelow
      <4>2. d.rows[i].take # f.take
        <5> DEFINE y == d.rows[i].take
                   z == f.take
        <5>1. y < z /\ z \in Nat
          BY <1>t, <4>1
        <5> HIDE DEF y, z
        <5>2. y # z
          BY <5>1
        <5> QED
          BY <5>2 DEF y, z
      <4> QED
        BY <1>2, <3>1, <4>2
    <3>2. CASE j \in 1..b
      BY <1>2, <1>3, <1>5, <1>6, <2>1, <3>2 DEF Foreign
    <3> QED
      BY <1>4, <3>1, <3>2
  <2> QED
    BY <1>1, <1>3, <2>1 DEF Foreign
<1>10. Apart(x, g)
  <2> SUFFICES ASSUME NEW e1 \in 1..Len(d.episodes), NEW e2 \in 1..Len(d.episodes),
                      NEW i \in d.episodes[e1].from + 1 .. d.episodes[e1].to,
                      NEW j \in d.episodes[e2].from + 1 .. d.episodes[e2].to,
                      d.rows[i].n \in g, d.rows[j].n \in g, d.rows[i].take = d.rows[j].take
               PROVE  e1 = e2
    BY <1>1 DEF Apart
  <2>1. i \in 1..a /\ j \in 1..a
    <3>1. \A e \in 1..Len(d.episodes) :
            d.episodes[e].from \in Nat /\ d.episodes[e].to \in Nat
      BY Elements
    <3>2. \A e \in 1..Len(d.episodes) : d.episodes[e].to <= a
      BY <1>3 DEF Counted
    <3>3. d.episodes[e1].from \in Nat /\ d.episodes[e1].to \in Nat /\ d.episodes[e1].to <= a
          /\ d.episodes[e2].from \in Nat /\ d.episodes[e2].to \in Nat /\ d.episodes[e2].to <= a
      BY <3>1, <3>2
    <3>4. \A e \in {e1, e2} : \A m \in d.episodes[e].from + 1 .. d.episodes[e].to : m \in 1..a
      BY <1>a, <3>3, InRows
    <3>5. i \in 1..a /\ j \in 1..a
      BY <3>4
    <3> QED
      BY <3>5
  <2> QED
    BY <1>5, <2>1 DEF Apart
<1> QED
  BY <1>7, <1>8, <1>9, <1>10 DEF g, x

\* A save moves what is in the buffer into an episode of its own.
LEMMA SavedWhole ==
  ASSUME NEW d \in Dataset, Tiled(d),
         \A e \in 1..Len(d.episodes) : d.episodes[e].to <= Len(d.rows),
         NEW h, NEW t, RowsBelow(d, h, t), BufferBelow(d, h, t), Foreign(d, h), Apart(d, h)
  PROVE  /\ RowsBelow(Saved(d), h, t) /\ BufferBelow(Saved(d), h, t)
         /\ Foreign(Saved(d), h) /\ Apart(Saved(d), h)
<1> DEFINE a == Len(d.rows)
           b == Len(d.buffer)
           l == Len(d.episodes)
           s == Saved(d)
<1>1. /\ a = Len(d.rows) /\ b = Len(d.buffer) /\ l = Len(d.episodes)
      /\ a \in Nat /\ b \in Nat /\ l \in Nat
  BY Lengths
<1>2. /\ Len(s.rows) = a + b
      /\ \A i \in 1..a : s.rows[i] = d.rows[i]
      /\ \A i \in 1..b : s.rows[a + i] = d.buffer[i]
      /\ Len(s.episodes) = l + 1 /\ \A e \in 1..l : s.episodes[e] = d.episodes[e]
      /\ s.episodes[l + 1].from = a /\ s.episodes[l + 1].to = a + b
  BY SavedParts
<1>3. s.buffer = <<>>
  BY SavedFields
<1>4. \A e \in 1..l :
        d.episodes[e].from \in Nat /\ d.episodes[e].to \in Nat /\ d.episodes[e].to <= a
  BY Elements
<1> HIDE DEF a, b, l, s
<1>n. a \in Nat /\ b \in Nat
  BY <1>1
<1>5. ASSUME NEW i \in 1..Len(s.rows) PROVE i \in 1..a \/ \E j \in 1..b : i = a + j
  <2>1. i \in 1..(a + b)
    BY <1>2
  <2>2. \A m \in 1..(a + b) : m \in 1..a \/ \E j \in 1..b : m = a + j
    BY <1>n, SplitIndex
  <2> QED
    BY <2>1, <2>2
<1>6. RowsBelow(s, h, t)
  <2> SUFFICES ASSUME NEW i \in 1..Len(s.rows), s.rows[i].n \in h PROVE s.rows[i].take < t
    BY DEF RowsBelow
  <2>1. CASE i \in 1..a
    BY <1>1, <1>2, <2>1 DEF RowsBelow
  <2>2. CASE \E j \in 1..b : i = a + j
    <3>1. PICK j \in 1..b : i = a + j
      BY <2>2
    <3>2. s.rows[i] = d.buffer[j]
      BY <1>2, <3>1
    <3> QED
      BY <1>1, <3>2 DEF BufferBelow
  <2> QED
    BY <1>5, <2>1, <2>2
<1>7. BufferBelow(s, h, t) /\ Foreign(s, h)
  BY <1>3 DEF BufferBelow, Foreign
<1>8. ASSUME NEW e1 \in 1..l, NEW e2 \in 1..l,
             NEW i \in s.episodes[e1].from + 1 .. s.episodes[e1].to,
             NEW j \in s.episodes[e2].from + 1 .. s.episodes[e2].to,
             s.rows[i].n \in h, s.rows[j].n \in h, s.rows[i].take = s.rows[j].take
      PROVE  e1 = e2
  <2>1. s.episodes[e1] = d.episodes[e1] /\ s.episodes[e2] = d.episodes[e2]
    BY <1>2
  <2>2. i \in d.episodes[e1].from + 1 .. d.episodes[e1].to
        /\ j \in d.episodes[e2].from + 1 .. d.episodes[e2].to
    BY <2>1
  <2>3. i \in 1..a /\ j \in 1..a
    BY <1>1, <1>4, <2>2, InRows
  <2>4. s.rows[i] = d.rows[i] /\ s.rows[j] = d.rows[j]
    BY <1>2, <2>3
  <2> QED
    BY <1>1, <1>8, <2>2, <2>4 DEF Apart
<1>9. ASSUME NEW e \in 1..l, NEW i \in s.episodes[e].from + 1 .. s.episodes[e].to,
             NEW j \in a + 1 .. a + b, s.rows[i].n \in h, s.rows[j].n \in h
      PROVE  s.rows[i].take # s.rows[j].take
  <2>1. i \in 1..a
    <3>1. i \in d.episodes[e].from + 1 .. d.episodes[e].to
      BY <1>2
    <3> QED
      BY <1>1, <1>4, <3>1, InRows
  <2>2. PICK m \in 1..b : j = a + m
    BY <1>1, InLast
  <2>3. s.rows[i] = d.rows[i] /\ s.rows[j] = d.buffer[m]
    BY <1>2, <2>1, <2>2
  <2> QED
    BY <1>1, <1>9, <2>1, <2>3 DEF Foreign
<1>10. Apart(s, h)
  <2> SUFFICES ASSUME NEW e1 \in 1..Len(s.episodes), NEW e2 \in 1..Len(s.episodes),
                      NEW i \in s.episodes[e1].from + 1 .. s.episodes[e1].to,
                      NEW j \in s.episodes[e2].from + 1 .. s.episodes[e2].to,
                      s.rows[i].n \in h, s.rows[j].n \in h, s.rows[i].take = s.rows[j].take
               PROVE  e1 = e2
    BY DEF Apart
  <2>1. (e1 \in 1..l \/ e1 = l + 1) /\ (e2 \in 1..l \/ e2 = l + 1)
    BY <1>1, <1>2
  <2>2. CASE e1 \in 1..l /\ e2 \in 1..l
    BY <1>8, <2>2
  <2>3. CASE e1 \in 1..l /\ e2 = l + 1
    BY <1>2, <1>9, <2>3
  <2>4. CASE e1 = l + 1 /\ e2 \in 1..l
    BY <1>2, <1>9, <2>4
  <2> QED
    BY <2>1, <2>2, <2>3, <2>4
<1> QED
  BY <1>6, <1>7, <1>10 DEF s

\* The tagged frames, which are frames recorded so far, obey the order of the takes; while one is
\* under way nothing of it is in the rows.
WholeInv ==
  data.sized =>
    /\ human \subseteq 1..frames
    /\ pc = "ended" => phase # "correcting"
    /\ pc \in InLoop /\ phase = "correcting" => RowsBelow(data, human, take)
    /\ RowsBelow(data, human, take + 1)
    /\ BufferBelow(data, human, take + 1)
    /\ Foreign(data, human)
    /\ Apart(data, human)

\* Every step of DAgger keeps the tagged frames in order: a save never falls into a correction.
LEMMA DaggerStepWhole ==
  ASSUME NEW c \in BOOLEAN, DataType, DaggerCount, WholeInv, Dagger(c)!Next
  PROVE  WholeInv'
<1> SUFFICES ASSUME data'.sized
             PROVE  /\ human' \subseteq 1..frames'
                    /\ pc' = "ended" => phase' # "correcting"
                    /\ pc' \in InLoop /\ phase' = "correcting" => RowsBelow(data', human', take')
                    /\ RowsBelow(data', human', take' + 1)
                    /\ BufferBelow(data', human', take' + 1)
                    /\ Foreign(data', human')
                    /\ Apart(data', human')
  BY DEF WholeInv, InLoop
<1>0. data \in Dataset /\ frames \in Nat /\ take \in Nat
  BY DEF DataType
<1>k. DaggerKinds(c)
  BY DaggerStepKinds
<1>1. CASE DaggerQuiet(c)
  <2>1. /\ data.sized /\ frames' = frames /\ take' = take /\ human' = human /\ phase' = phase
        /\ data'.rows = data.rows /\ data'.buffer = data.buffer /\ data'.episodes = data.episodes
        /\ pc' \in InLoop => pc \in InLoop
        /\ pc' = "ended" => pc = "ended"
    BY <1>1 DEF DaggerQuiet
  <2>2. /\ human \subseteq 1..frames
        /\ pc = "ended" => phase # "correcting"
        /\ pc \in InLoop /\ phase = "correcting" => RowsBelow(data, human, take)
        /\ RowsBelow(data, human, take + 1) /\ BufferBelow(data, human, take + 1)
        /\ Foreign(data, human) /\ Apart(data, human)
    BY <2>1 DEF WholeInv
  <2>3. /\ \A t : RowsBelow(data, human, t) => RowsBelow(data', human, t)
        /\ \A t : BufferBelow(data, human, t) => BufferBelow(data', human, t)
        /\ Foreign(data', human) /\ Apart(data', human)
    BY <2>1, <2>2, SameWhole
  <2> QED
    BY <2>1, <2>2, <2>3
<1>2. CASE DaggerConsumes(c)
  <2>1. /\ data' = data /\ frames' = frames /\ human' = human /\ pc = "top" /\ data.sized
        /\ pc' = IF ~c /\ phase = "correcting" /\ phase' # "correcting" THEN "ended" ELSE "upload"
        /\ take' = IF phase' = "correcting" /\ phase # "correcting" THEN take + 1 ELSE take
    BY <1>2 DEF DaggerConsumes
  <2>2. /\ human \subseteq 1..frames
        /\ phase = "correcting" => RowsBelow(data, human, take)
        /\ RowsBelow(data, human, take + 1) /\ BufferBelow(data, human, take + 1)
        /\ Foreign(data, human) /\ Apart(data, human)
    BY <2>1 DEF WholeInv, InLoop
  <2>3. RowsBelow(data, human, (take + 1) + 1) /\ BufferBelow(data, human, (take + 1) + 1)
    <3>1. take + 1 \in Nat
      BY <1>0
    <3> QED
      BY <1>0, <2>2, <3>1, LaterTake
  <2>4. CASE phase' = "correcting" /\ phase # "correcting"
    BY <2>1, <2>2, <2>3, <2>4
  <2>5. CASE ~(phase' = "correcting" /\ phase # "correcting")
    BY <2>1, <2>2, <2>5
  <2> QED
    BY <2>4, <2>5
<1>3. CASE DaggerRecords(c)
  <2> DEFINE f == NextFrame
  <2>1. f \in Frame /\ f.n = frames + 1 /\ f.take = take
    BY <1>0, NextFrameFields
  <2>2. /\ data' = AddFrame(data, f) /\ frames' = frames + 1 /\ take' = take
        /\ pc = "act" /\ pc' \in {"top", "rotate"} /\ phase' = phase
        /\ \/ phase = "correcting" /\ human' = human \union {frames + 1}
           \/ c /\ phase # "correcting" /\ human' = human
    BY <1>3 DEF DaggerRecords
  <2> HIDE DEF f
  <2>3. data.sized
    BY <1>0, <2>1, <2>2, AddFrameFields
  <2>4. /\ human \subseteq 1..frames /\ Counted(data, frames)
        /\ phase = "correcting" => RowsBelow(data, human, take)
        /\ RowsBelow(data, human, take + 1) /\ BufferBelow(data, human, take + 1)
        /\ Foreign(data, human) /\ Apart(data, human)
    BY <2>2, <2>3 DEF WholeInv, DaggerCount, InLoop
  <2>5. 1..frames \subseteq 1..(frames + 1) /\ frames + 1 \in 1..(frames + 1) /\ frames + 1 \notin 1..frames
    BY <1>0
  <2>6. CASE phase = "correcting" /\ human' = human \union {frames + 1}
    <3>1. /\ RowsBelow(data', human', take) /\ BufferBelow(data', human', take + 1)
          /\ Foreign(data', human') /\ Apart(data', human')
      BY <1>0, <2>1, <2>2, <2>4, <2>6, AddedTagged
    <3>2. data' \in Dataset
      BY <1>0, <2>1, <2>2, AddFrameFields
    <3>3. RowsBelow(data', human', take + 1)
      BY <1>0, <3>1, <3>2, LaterTake
    <3>4. human' \subseteq 1..frames'
      BY <2>2, <2>4, <2>5, <2>6
    <3> QED
      BY <2>2, <3>1, <3>3, <3>4
  <2>7. CASE phase # "correcting" /\ human' = human
    <3>1. f.n \notin human
      BY <2>1, <2>4, <2>5
    <3>2. /\ RowsBelow(data', human, take + 1) /\ BufferBelow(data', human, take + 1)
          /\ Foreign(data', human) /\ Apart(data', human)
      BY <1>0, <2>1, <2>2, <2>4, <3>1, AddedOther
    <3>3. human' \subseteq 1..frames'
      BY <2>2, <2>4, <2>5, <2>7
    <3> QED
      BY <2>2, <2>7, <3>2, <3>3
  <2> QED
    BY <2>2, <2>6, <2>7
<1>4. CASE DaggerSaves
  <2>1. /\ data.sized /\ data' = Saved(data)
        /\ frames' = frames /\ take' = take /\ phase' = phase /\ human' = human
        /\ \/ pc = "finally" /\ pc' = "owing"
           \/ pc' = "saved" /\ (pc = "ended" \/ phase # "correcting")
    BY <1>4 DEF DaggerSaves, HasPending
  <2>2. /\ human \subseteq 1..frames
        /\ pc = "ended" => phase # "correcting"
        /\ RowsBelow(data, human, take + 1) /\ BufferBelow(data, human, take + 1)
        /\ Foreign(data, human) /\ Apart(data, human)
        /\ Tiled(data)
        /\ \A e \in 1..Len(data.episodes) : data.episodes[e].to <= Len(data.rows)
    BY <2>1 DEF WholeInv, DaggerCount, Counted
  <2>3. /\ RowsBelow(data', human, take + 1) /\ BufferBelow(data', human, take + 1)
        /\ Foreign(data', human) /\ Apart(data', human)
    BY <1>0, <2>1, <2>2, SavedWhole
  <2> QED
    BY <2>1, <2>2, <2>3 DEF InLoop
<1> QED
  BY <1>k, <1>1, <1>2, <1>3, <1>4 DEF DaggerKinds
------------------------------------------------------------------------------
(* What the invariants of DAgger give *)

\* Cardinality is the same in the instance, ...
LEMMA DaggerCardinality ==
  ASSUME NEW c \in BOOLEAN, NEW s PROVE Dagger(c)!Cardinality(s) = Cardinality(s)
BY DEF Dagger!Cardinality, Cardinality

\* ... and so are the operators of the properties.
LEMMA DaggerCopies ==
  ASSUME NEW c \in BOOLEAN, NEW d, NEW s
  PROVE  /\ Dagger(c)!Tiled(d) <=> Tiled(d)
         /\ \A e : Dagger(c)!Episode(d, e) = Episode(d, e)
         /\ Dagger(c)!Numbers(s) = Numbers(s)
         /\ Dagger(c)!TakesOf(s) = TakesOf(s)
BY DaggerData DEF Dagger!Tiled, Tiled, Dagger!Episode, Episode, Dagger!Numbers, Numbers,
                  Dagger!TakesOf, TakesOf

\* DAgger keeps every frame once and in order.
LEMMA DaggerFrames ==
  ASSUME NEW c \in BOOLEAN, DataType, DaggerCount PROVE Dagger(c)!FramesConserved
<1>1. data \in Dataset
  BY DEF DataType
<1> QED
  BY <1>1, DaggerCopies, CountedNumbers DEF DaggerCount, Dagger!FramesConserved, Dagger!Unbroken

\* A sequence of frames of one take has at most one.
LEMMA OneOrNone ==
  ASSUME NEW s, NEW t, \A i \in DOMAIN s : s[i].take = t PROVE Cardinality(TakesOf(s)) <= 1
<1>1. CASE DOMAIN s = {}
  <2>1. TakesOf(s) = {}
    BY <1>1 DEF TakesOf
  <2>2. Cardinality({}) = 0
    BY FS_EmptySet
  <2> QED
    BY <2>1, <2>2
<1>2. CASE DOMAIN s # {}
  <2>1. TakesOf(s) = {t}
    BY <1>2 DEF TakesOf
  <2>2. Cardinality({t}) = 1
    BY FS_Singleton
  <2> QED
    BY <2>1, <2>2
<1> QED
  BY <1>1, <1>2

\* No correction is in two episodes, and with corrections only no episode has two.
LEMMA DaggerWhole ==
  ASSUME NEW c \in BOOLEAN, DataType, DaggerCount, SettledInv(c), WholeInv
  PROVE  Dagger(c)!CorrectionWhole
<1> DEFINE l == Len(data.episodes)
           es == Dagger(c)!Episodes(data)
           all == Append(es, data.buffer)
<1> SUFFICES ASSUME data.sized PROVE Dagger(c)!CorrectionWhole
  BY DEF Dagger!CorrectionWhole, Dagger!Unbroken
<1>0. data \in Dataset /\ l \in Nat /\ data.buffer \in Seq(Frame)
  BY Lengths DEF DataType, Dataset
<1>1. es = [e \in 1..l |-> Episode(data, e)]
  BY DaggerCopies DEF Dagger!Episodes
<1>2. Counted(data, frames)
  BY DEF DaggerCount
<1>3. ASSUME NEW e \in 1..l
      PROVE  /\ data.episodes[e].from \in Nat /\ data.episodes[e].to \in Nat
             /\ data.episodes[e].from <= data.episodes[e].to
             /\ data.episodes[e].to <= Len(data.rows)
             /\ Episode(data, e) \in Seq(Frame)
             /\ DOMAIN Episode(data, e) = 1..(data.episodes[e].to - data.episodes[e].from)
             /\ \A i \in 1..(data.episodes[e].to - data.episodes[e].from) :
                  Episode(data, e)[i] = data.rows[data.episodes[e].from + i]
  <2>1. data.episodes[e].from <= data.episodes[e].to /\ data.episodes[e].to <= Len(data.rows)
    BY <1>2 DEF Counted, Tiled
  <2> QED
    BY <1>0, <2>1, EpisodeParts
<1>4. es \in Seq(Seq(Frame)) /\ Len(es) = l
  BY <1>0, <1>1, <1>3
<1>5. /\ DOMAIN all = 1..(l + 1) /\ all[l + 1] = data.buffer
      /\ \A e \in 1..l : all[e] = Episode(data, e)
  <2>1. data.buffer \in Seq(Frame) /\ \A e \in 1..l : es[e] = Episode(data, e)
    BY <1>0, <1>1
  <2> HIDE DEF es, l
  <2> QED
    BY <1>0, <1>4, <2>1
<1> HIDE DEF all, es
\* Every frame of episode e is one of its rows.
<1>6. ASSUME NEW e \in 1..l, NEW i \in DOMAIN all[e]
      PROVE  \E r \in data.episodes[e].from + 1 .. data.episodes[e].to :
               r \in 1..Len(data.rows) /\ all[e][i] = data.rows[r]
  <2> DEFINE from == data.episodes[e].from
             to == data.episodes[e].to
             n == Len(data.rows)
  <2>1. from \in Nat /\ to \in Nat /\ to <= n /\ n \in Nat /\ from <= to
    BY <1>0, <1>3, Lengths
  <2>2. i \in 1..(to - from) /\ all[e][i] = data.rows[from + i]
    <3>1. all[e] = Episode(data, e)
      BY <1>5
    <3>2. i \in 1..(to - from)
      BY <1>3, <3>1
    <3>3. Episode(data, e)[i] = data.rows[from + i]
      BY <1>3, <3>2
    <3> QED
      BY <3>1, <3>2, <3>3
  <2> HIDE DEF from, to, n
  <2>3. from + i \in from + 1 .. to /\ from + i \in 1..n
    BY <2>1, <2>2
  <2> QED
    BY <2>2, <2>3 DEF from, to, n
<1>7. ASSUME NEW i \in DOMAIN all, NEW j \in DOMAIN all,
             Dagger(c)!HumanTakes(all[i]) \intersect Dagger(c)!HumanTakes(all[j]) # {}
      PROVE  i = j
  <2>1. PICK t : t \in Dagger(c)!HumanTakes(all[i]) /\ t \in Dagger(c)!HumanTakes(all[j])
    BY <1>7
  <2>2. PICK x \in DOMAIN all[i] : all[i][x].n \in human /\ all[i][x].take = t
    BY <2>1 DEF Dagger!HumanTakes
  <2>3. PICK y \in DOMAIN all[j] : all[j][y].n \in human /\ all[j][y].take = t
    BY <2>1 DEF Dagger!HumanTakes
  <2>4. (i \in 1..l \/ i = l + 1) /\ (j \in 1..l \/ j = l + 1)
    BY <1>0, <1>5
  <2>a. Apart(data, human) /\ Foreign(data, human)
    BY DEF WholeInv
  <2>b. DOMAIN data.buffer = 1..Len(data.buffer)
    BY <1>0
  <2>5. CASE i \in 1..l /\ j \in 1..l
    <3>1. PICK r \in data.episodes[i].from + 1 .. data.episodes[i].to : all[i][x] = data.rows[r]
      BY <1>6, <2>2, <2>5
    <3>2. PICK q \in data.episodes[j].from + 1 .. data.episodes[j].to : all[j][y] = data.rows[q]
      BY <1>6, <2>3, <2>5
    <3> QED
      BY <2>2, <2>3, <2>5, <2>a, <3>1, <3>2 DEF Apart
  <2>6. CASE i \in 1..l /\ j = l + 1
    <3>1. PICK r \in 1..Len(data.rows) : all[i][x] = data.rows[r]
      BY <1>6, <2>2, <2>6
    <3>2. y \in 1..Len(data.buffer) /\ all[j][y] = data.buffer[y]
      BY <1>5, <2>3, <2>6, <2>b
    <3> QED
      BY <2>2, <2>3, <2>a, <3>1, <3>2 DEF Foreign
  <2>7. CASE i = l + 1 /\ j \in 1..l
    <3>1. PICK r \in 1..Len(data.rows) : all[j][y] = data.rows[r]
      BY <1>6, <2>3, <2>7
    <3>2. x \in 1..Len(data.buffer) /\ all[i][x] = data.buffer[x]
      BY <1>5, <2>2, <2>7, <2>b
    <3> QED
      BY <2>2, <2>3, <2>a, <3>1, <3>2 DEF Foreign
  <2> QED
    BY <2>4, <2>5, <2>6, <2>7
<1>8. ASSUME ~c, NEW i \in DOMAIN all PROVE Cardinality(Dagger(c)!TakesOf(all[i])) <= 1
  <2>1. Divided(data) /\ OfTake(data, take)
    BY <1>8 DEF SettledInv
  <2>2. i \in 1..l \/ i = l + 1
    BY <1>0, <1>5
  <2>3. CASE i \in 1..l
    <3>1. \A e \in 1..Len(data.episodes) : data.episodes[e].to <= Len(data.rows)
      BY <1>2 DEF Counted
    <3>2. Cardinality(TakesOf(Episode(data, i))) = 1
      BY <1>0, <2>1, <2>3, <3>1, DividedGivesOne
    <3>3. Dagger(c)!TakesOf(all[i]) = TakesOf(Episode(data, i))
      BY <1>5, <2>3, DaggerCopies
    <3> QED
      BY <3>2, <3>3
  <2>4. CASE i = l + 1
    <3>1. \A k \in DOMAIN data.buffer : data.buffer[k].take = take
      BY <1>0, <2>1 DEF OfTake
    <3>2. Dagger(c)!TakesOf(all[i]) = TakesOf(data.buffer)
      BY <1>5, <2>4, DaggerCopies
    <3> QED
      BY <3>1, <3>2, OneOrNone
  <2> QED
    BY <2>2, <2>3, <2>4
<1>9. ASSUME ~c, NEW i \in DOMAIN all PROVE Dagger(c)!Cardinality(Dagger(c)!TakesOf(all[i])) <= 1
  BY <1>8, <1>9, DaggerCardinality
<1> QED
  BY <1>7, <1>9 DEF Dagger!CorrectionWhole, all, es
------------------------------------------------------------------------------
(* Highlight *)

\* The dataset is the same in the instance, ...
LEMMA HighlightData ==
  ASSUME NEW d
  PROVE  /\ \A f : Highlight!AddFrame(d, f) = AddFrame(d, f)
         /\ Highlight!TotalFrames(d) = TotalFrames(d)
         /\ Highlight!HasPending(d) <=> HasPending(d)
         /\ Highlight!WithRows(d) = WithRows(d)
         /\ Highlight!Committed(d) = Committed(d)
         /\ Highlight!Saved(d) = Saved(d)
         /\ Highlight!Failed(d) = Failed(d)
         /\ Highlight!Finalized(d) = Finalized(d)
         /\ Highlight!Contents(d) = Contents(d)
<1>1. \A f : Highlight!AddFrame(d, f) = AddFrame(d, f)
  BY DEF Highlight!AddFrame, AddFrame
<1>2. Highlight!TotalFrames(d) = TotalFrames(d)
  BY DEF Highlight!TotalFrames, TotalFrames
<1>3. Highlight!HasPending(d) <=> HasPending(d)
  BY DEF Highlight!HasPending, HasPending
<1>4. Highlight!WithRows(d) = WithRows(d)
  BY DEF Highlight!WithRows, WithRows
<1>5. Highlight!Committed(d) = Committed(d)
  BY <1>2, <1>4 DEF Highlight!Committed, Committed
<1>6. Highlight!Saved(d) = Saved(d)
  BY <1>5 DEF Highlight!Saved, Saved
<1>7. Highlight!Failed(d) = Failed(d)
  BY <1>3, <1>4, <1>5 DEF Highlight!Failed, Failed
<1>8. Highlight!Finalized(d) = Finalized(d)
  BY DEF Highlight!Finalized, Finalized
<1>9. Highlight!Contents(d) = Contents(d)
  BY DEF Highlight!Contents, Contents
<1> QED
  BY <1>1, <1>2, <1>3, <1>4, <1>5, <1>6, <1>7, <1>8, <1>9

\* ... and so are the steps of the recorder.
LEMMA HighlightActions ==
  /\ Highlight!RecordFrame <=> RecordFrame
  /\ Highlight!SaveEpisode <=> SaveEpisode
  /\ Highlight!SaveRaises <=> SaveRaises
  /\ Highlight!Close <=> Close
  /\ Highlight!FinalPush(TRUE) <=> FinalPush(TRUE)
  /\ Highlight!BeginPush(FALSE) <=> BeginPush(FALSE)
  /\ Highlight!EndPush <=> EndPush
  /\ Highlight!FailPush <=> FailPush
  /\ Highlight!Over <=> Over
<1>1. Highlight!RecordFrame <=> RecordFrame
  BY HighlightData DEF Highlight!RecordFrame, RecordFrame, Highlight!CountFrame, CountFrame,
                    Highlight!NextFrame, NextFrame
<1>2. Highlight!SaveEpisode <=> SaveEpisode
  BY HighlightData DEF Highlight!SaveEpisode, SaveEpisode, Highlight!LockFree, LockFree
<1>3. Highlight!SaveRaises <=> SaveRaises
  BY HighlightData DEF Highlight!SaveRaises, SaveRaises, Highlight!LockFree, LockFree
<1>4. Highlight!Close <=> Close
  BY HighlightData DEF Highlight!Close, Close, Highlight!hubVars, hubVars, Highlight!takeVars, takeVars
<1>5. Highlight!FinalPush(TRUE) <=> FinalPush(TRUE)
  BY HighlightData DEF Highlight!FinalPush, FinalPush, Highlight!takeVars, takeVars
<1>6. Highlight!BeginPush(FALSE) <=> BeginPush(FALSE)
  BY HighlightData DEF Highlight!BeginPush, BeginPush, Highlight!LockFree, LockFree, Highlight!takeVars, takeVars
<1>7. Highlight!EndPush <=> EndPush
  BY DEF Highlight!EndPush, EndPush, Highlight!Uploaded, Uploaded, Highlight!takeVars, takeVars
<1>8. Highlight!FailPush <=> FailPush
  BY DEF Highlight!FailPush, FailPush, Highlight!takeVars, takeVars
<1>9. Highlight!Over <=> Over
  BY DEF Highlight!Over, Over, Highlight!recorderVars, recorderVars
<1> QED
  BY <1>1, <1>2, <1>3, <1>4, <1>5, <1>6, <1>7, <1>8, <1>9
------------------------------------------------------------------------------
(* The ring *)

\* The ring is flushed into the buffer.
LEMMA FlushedFields ==
  ASSUME NEW d \in Dataset, NEW r \in Seq(Frame)
  PROVE  LET x == [d EXCEPT !.buffer = @ \o r] IN
         /\ x \in Dataset /\ x.buffer = d.buffer \o r
         /\ x.rows = d.rows /\ x.episodes = d.episodes /\ x.sized = d.sized
<1>1. d.buffer \o r \in Seq(Frame)
  BY DEF Dataset
<1> QED
  BY <1>1 DEF Dataset

\* s is what was recorded last, up to the frame numbered k.
Ends(s, k) == \A i \in 1..Len(s) : s[i].n = k - Len(s) + i

\* A frame more, ...
LEMMA EndsAppend ==
  ASSUME NEW s \in Seq(Frame), NEW k \in Nat, NEW f \in Frame, Ends(s, k), f.n = k + 1
  PROVE  Append(s, f) \in Seq(Frame) /\ Ends(Append(s, f), k + 1) /\ Len(Append(s, f)) = Len(s) + 1
<1> DEFINE t == Append(s, f)
           b == Len(s)
<1>1. /\ t \in Seq(Frame) /\ Len(t) = b + 1 /\ b \in Nat /\ t[b + 1] = f
      /\ \A i \in 1..b : t[i] = s[i]
  OBVIOUS
<1>2. \A i \in 1..b : s[i].n = k - b + i
  BY DEF Ends
<1> HIDE DEF t, b
<1>3. ASSUME NEW i \in 1..Len(t) PROVE t[i].n = (k + 1) - Len(t) + i
  <2>1. i \in 1..b \/ i = b + 1
    BY <1>1
  <2>2. CASE i = b + 1
    BY <1>1, <2>2
  <2>3. CASE i \in 1..b
    BY <1>1, <1>2, <2>3
  <2> QED
    BY <2>1, <2>2, <2>3
<1> QED
  BY <1>1, <1>3 DEF Ends, t, b

\* ... the frames behind some place, ...
LEMMA EndsSuffix ==
  ASSUME NEW s \in Seq(Frame), NEW k \in Nat, Ends(s, k), NEW j \in 0..Len(s)
  PROVE  /\ SubSeq(s, j + 1, Len(s)) \in Seq(Frame) /\ Ends(SubSeq(s, j + 1, Len(s)), k)
         /\ Len(SubSeq(s, j + 1, Len(s))) <= Len(s)
<1> DEFINE b == Len(s)
           t == SubSeq(s, j + 1, b)
<1>1. b \in Nat /\ j \in 0..b
  OBVIOUS
<1>2. t \in Seq(Frame) /\ Len(t) = b - j /\ \A i \in 1..(b - j) : t[i] = s[(j + 1) + i - 1]
  <2>1. j + 1 \in 1..(Len(s) + 1)
    BY <1>1
  <2> QED
    BY <2>1
<1>3. \A i \in 1..b : s[i].n = k - b + i
  BY DEF Ends
<1> HIDE DEF t, b
<1>4. ASSUME NEW i \in 1..Len(t) PROVE t[i].n = k - Len(t) + i
  <2> DEFINE m == (j + 1) + i - 1
  <2>1. m \in 1..b /\ m = j + i /\ t[i] = s[m]
    BY <1>1, <1>2
  <2> HIDE DEF m
  <2>2. t[i].n = k - b + m
    BY <1>3, <2>1
  <2> QED
    BY <1>1, <1>2, <2>1, <2>2
<1>5. Len(t) <= b
  BY <1>1, <1>2
<1> QED
  BY <1>2, <1>4, <1>5 DEF Ends, t, b

\* ... or all but the first.
LEMMA EndsTail ==
  ASSUME NEW s \in Seq(Frame), NEW k \in Nat, Ends(s, k), s # <<>>
  PROVE  Tail(s) \in Seq(Frame) /\ Ends(Tail(s), k) /\ Len(Tail(s)) <= Len(s)
<1> DEFINE b == Len(s)
           t == Tail(s)
<1>1. t \in Seq(Frame) /\ Len(t) = b - 1 /\ b \in Nat /\ b # 0 /\ \A i \in 1..(b - 1) : t[i] = s[i + 1]
  OBVIOUS
<1>2. \A i \in 1..b : s[i].n = k - b + i
  BY DEF Ends
<1> HIDE DEF t, b
<1>3. ASSUME NEW i \in 1..Len(t) PROVE t[i].n = k - Len(t) + i
  <2> DEFINE m == i + 1
  <2>1. m \in 1..b /\ m = i + 1 /\ t[i] = s[m]
    BY <1>1
  <2> HIDE DEF m
  <2>2. t[i].n = k - b + m
    BY <1>2, <2>1
  <2> QED
    BY <1>1, <2>1, <2>2
<1>4. Len(t) <= b
  BY <1>1
<1> QED
  BY <1>1, <1>3, <1>4 DEF Ends, t, b

\* A condition on numbers that holds of some holds first of a least one.
LEMMA LeastNumber ==
  ASSUME NEW S \in SUBSET Nat, S # {} PROVE \E k \in S : \A j \in S : ~(j < k)
<1> DEFINE R == OpToRel(<, Nat)
<1>1. IsWellFoundedOn(R, Nat)
  BY NatLessThanWellFounded
<1>2. PICK k \in S : \A j \in S : <<j, k>> \notin R
  <2> HIDE DEF R
  <2> QED
    BY <1>1, WFMin
<1> QED
  BY <1>2 DEF OpToRel

\* append() keeps a suffix of the ring, perhaps without its first frame, behind it the new one.
LEMMA AppendedIsSuffix ==
  ASSUME NEW r, r.buffer \in Seq(Frame), NEW f \in Frame
  PROVE  \E m \in 0..Len(r.buffer) :
           LET kept == Append(SubSeq(r.buffer, m + 1, Len(r.buffer)), f)
           IN  Highlight!Appended(r, f).buffer = IF Len(kept) > RingFrames THEN Tail(kept) ELSE kept
<1> DEFINE s == r.buffer
           fits(i) == r.bytes - i * FrameBytes + FrameBytes <= RingBytes \/ i = Len(s)
           first(i) == fits(i) /\ \A j \in 0..i - 1 : ~fits(j)
           m == CHOOSE i \in 0..Len(s) : first(i)
           kept == Append(SubSeq(s, m + 1, Len(s)), f)
<1>1. s \in Seq(Frame) /\ Len(s) \in Nat
  OBVIOUS
<1>2. \E i \in 0..Len(s) : first(i)
  <2> DEFINE S == {i \in 0..Len(s) : fits(i)}
  <2>1. S \in SUBSET Nat /\ Len(s) \in S
    BY <1>1
  <2>2. S # {}
    BY <2>1
  <2>3. PICK i \in S : \A j \in S : ~(j < i)
    <3> HIDE DEF S
    <3> QED
      BY <2>1, <2>2, LeastNumber
  <2>4. i \in 0..Len(s) /\ fits(i)
    OBVIOUS
  <2>5. \A j \in 0..i - 1 : j \in 0..Len(s) /\ j < i
    BY <1>1, <2>4
  <2>6. \A j \in 0..i - 1 : ~fits(j)
    BY <2>3, <2>5
  <2> QED
    BY <2>4, <2>6
<1> HIDE DEF first
<1>3. m \in 0..Len(s)
  BY <1>2
<1>4. Highlight!Appended(r, f).buffer = IF Len(kept) > RingFrames THEN Tail(kept) ELSE kept
  BY DEF Highlight!Appended, first
<1> HIDE DEF m
<1> QED
  BY <1>3, <1>4

\* The ring holds frames.
LEMMA AppendedType ==
  ASSUME NEW r, r.buffer \in Seq(Frame), NEW f \in Frame
  PROVE  Highlight!Appended(r, f).buffer \in Seq(Frame)
<1> DEFINE s == r.buffer
           kept(m) == Append(SubSeq(s, m + 1, Len(s)), f)
<1>1. PICK m \in 0..Len(s) :
        Highlight!Appended(r, f).buffer = IF Len(kept(m)) > RingFrames THEN Tail(kept(m)) ELSE kept(m)
  BY AppendedIsSuffix
<1>2. SubSeq(s, m + 1, Len(s)) \in Seq(Frame)
  <2>1. m + 1 \in 1..(Len(s) + 1)
    OBVIOUS
  <2> QED
    BY <2>1
<1>3. kept(m) \in Seq(Frame) /\ kept(m) # <<>>
  <2> DEFINE y == SubSeq(s, m + 1, Len(s))
  <2>1. y \in Seq(Frame)
    BY <1>2
  <2> HIDE DEF y
  <2>2. Append(y, f) \in Seq(Frame) /\ Append(y, f)[Len(y) + 1] = f /\ Len(Append(y, f)) = Len(y) + 1
    BY <2>1
  <2>3. Append(y, f) # <<>>
    BY <2>1, <2>2
  <2> QED
    BY <2>2, <2>3 DEF y
<1> HIDE DEF kept
<1>4. Tail(kept(m)) \in Seq(Frame)
  BY <1>3
<1> QED
  BY <1>1, <1>3, <1>4

\* append() leaves the last frames in the ring, the new one included.
LEMMA AppendedEnds ==
  ASSUME NEW r, r.buffer \in Seq(Frame), NEW k \in Nat, Ends(r.buffer, k), NEW f \in Frame, f.n = k + 1
  PROVE  LET x == Highlight!Appended(r, f) IN
         x.buffer \in Seq(Frame) /\ Ends(x.buffer, k + 1) /\ Len(x.buffer) <= Len(r.buffer) + 1
<1> DEFINE s == r.buffer
<1>1. s \in Seq(Frame) /\ Len(s) \in Nat
  OBVIOUS
<1>2. PICK m \in 0..Len(s) :
        LET kept == Append(SubSeq(s, m + 1, Len(s)), f)
        IN  Highlight!Appended(r, f).buffer = IF Len(kept) > RingFrames THEN Tail(kept) ELSE kept
  BY AppendedIsSuffix
<1> DEFINE kept == Append(SubSeq(s, m + 1, Len(s)), f)
<1>4. Highlight!Appended(r, f).buffer = IF Len(kept) > RingFrames THEN Tail(kept) ELSE kept
  BY <1>2
<1>5. /\ SubSeq(s, m + 1, Len(s)) \in Seq(Frame) /\ Ends(SubSeq(s, m + 1, Len(s)), k)
      /\ Len(SubSeq(s, m + 1, Len(s))) <= Len(s)
  BY <1>1, EndsSuffix
<1>6. /\ kept \in Seq(Frame) /\ Ends(kept, k + 1)
      /\ Len(kept) = Len(SubSeq(s, m + 1, Len(s))) + 1
  BY <1>5, EndsAppend
<1>7. Len(kept) <= Len(s) + 1 /\ kept # <<>>
  <2> DEFINE y == SubSeq(s, m + 1, Len(s))
  <2>1. Len(y) \in Nat /\ Len(y) <= Len(s) /\ Len(kept) = Len(y) + 1 /\ kept \in Seq(Frame)
    BY <1>5, <1>6
  <2> HIDE DEF y, kept
  <2> QED
    BY <1>1, <2>1
<1> HIDE DEF kept, s
<1>8. k + 1 \in Nat
  OBVIOUS
<1>9. /\ Tail(kept) \in Seq(Frame) /\ Ends(Tail(kept), k + 1) /\ Len(Tail(kept)) <= Len(kept)
  BY <1>6, <1>7, <1>8, EndsTail
<1>10. Len(Tail(kept)) <= Len(s) + 1
  <2>0. kept \in Seq(Frame) /\ Tail(kept) \in Seq(Frame)
    BY <1>6, <1>9
  <2>1. Len(Tail(kept)) \in Nat /\ Len(kept) \in Nat
    BY <2>0
  <2> DEFINE x == Len(Tail(kept))
             y == Len(kept)
             z == Len(s)
  <2>2. x \in Nat /\ y \in Nat /\ z \in Nat /\ x <= y /\ y <= z + 1
    BY <1>1, <1>7, <1>9, <2>1
  <2> HIDE DEF x, y, z
  <2>3. x <= z + 1
    BY <2>2
  <2> QED
    BY <2>3 DEF x, z
<1> QED
  BY <1>4, <1>6, <1>7, <1>9, <1>10 DEF s
------------------------------------------------------------------------------
(* One stretch of the rollout after the other *)

\* The rows ascend, up to k at most, ...
Ascending(d, k) ==
  /\ \A i, j \in 1..Len(d.rows) : i < j => d.rows[i].n < d.rows[j].n
  /\ \A i \in 1..Len(d.rows) : d.rows[i].n <= k

\* ... the episodes follow each other, within the rows, ...
Following(d) ==
  /\ Tiled(d)
  /\ \A e \in 1..Len(d.episodes) : d.episodes[e].to <= Len(d.rows)
  /\ \A e1, e2 \in 1..Len(d.episodes) : e1 < e2 => d.episodes[e1].to <= d.episodes[e2].from

\* ... and each is without a gap.
Gapfree(d) ==
  \A e \in 1..Len(d.episodes) : \A i \in d.episodes[e].from + 1 .. d.episodes[e].to - 1 :
    d.rows[i + 1].n = d.rows[i].n + 1

SavedRows(d, k) == Ascending(d, k) /\ Following(d) /\ Gapfree(d)

\* Nothing is saved at first.
LEMMA NewSavedRows == ASSUME NEW k PROVE SavedRows(NewDataset, k)
BY DEF NewDataset, SavedRows, Ascending, Following, Gapfree, Tiled, TotalFrames

\* The three are about rows and episodes only.
LEMMA SameSavedRows ==
  ASSUME NEW d, NEW x, NEW k, SavedRows(d, k), x.rows = d.rows, x.episodes = d.episodes
  PROVE  SavedRows(x, k)
BY SameTiled DEF SavedRows, Ascending, Following, Gapfree

\* Rows below a number are below a greater one.
LEMMA LaterRows ==
  ASSUME NEW d \in Dataset, NEW k \in Int, NEW m \in Int, k <= m, SavedRows(d, k)
  PROVE  SavedRows(d, m)
<1>1. \A i \in 1..Len(d.rows) : d.rows[i].n \in Nat
  BY Elements
<1>2. \A i \in 1..Len(d.rows) : d.rows[i].n <= m
  BY <1>1 DEF SavedRows, Ascending
<1> QED
  BY <1>2 DEF SavedRows, Ascending

\* A save puts an episode behind the others when the buffer ascends from above the rows.
LEMMA SavedFollowing ==
  ASSUME NEW d \in Dataset, Following(d) PROVE Following(Saved(d))
<1> DEFINE a == Len(d.rows)
           b == Len(d.buffer)
           l == Len(d.episodes)
           s == Saved(d)
<1>1. /\ Tiled(s) /\ \A e \in 1..Len(s.episodes) : s.episodes[e].to <= Len(s.rows)
  BY SavedTiled DEF Following
<1>2. /\ Len(s.episodes) = l + 1 /\ \A e \in 1..l : s.episodes[e] = d.episodes[e]
      /\ s.episodes[l + 1].from = a
  BY SavedParts DEF Following
<1>3. /\ l \in Nat /\ a \in Nat
      /\ \A e \in 1..l : d.episodes[e].to <= a
      /\ \A e1, e2 \in 1..l : e1 < e2 => d.episodes[e1].to <= d.episodes[e2].from
  BY Lengths DEF Following
<1> HIDE DEF a, b, l, s
<1>4. ASSUME NEW e1 \in 1..Len(s.episodes), NEW e2 \in 1..Len(s.episodes), e1 < e2
      PROVE  s.episodes[e1].to <= s.episodes[e2].from
  <2>0. l \in Nat
    BY <1>3
  <2>1. e1 \in 1..l /\ (e2 \in 1..l \/ e2 = l + 1)
    BY <1>2, <1>4, <2>0
  <2>2. CASE e2 \in 1..l
    BY <1>2, <1>3, <1>4, <2>1, <2>2
  <2>3. CASE e2 = l + 1
    BY <1>2, <1>3, <2>1, <2>3
  <2> QED
    BY <2>1, <2>2, <2>3
<1> QED
  BY <1>1, <1>4 DEF Following, s

\* A buffer that ascends from above the rows continues them, ...
LEMMA SavedAscending ==
  ASSUME NEW d \in Dataset, Tiled(d), NEW k, Ascending(d, k),
         \A i, j \in 1..Len(d.buffer) : i < j => d.buffer[i].n < d.buffer[j].n,
         \A i \in 1..Len(d.buffer) : d.buffer[i].n <= k,
         \A i \in 1..Len(d.rows), j \in 1..Len(d.buffer) : d.rows[i].n < d.buffer[j].n
  PROVE  Ascending(Saved(d), k)
<1> DEFINE a == Len(d.rows)
           b == Len(d.buffer)
           s == Saved(d)
<1>1. /\ Len(s.rows) = a + b
      /\ \A i \in 1..a : s.rows[i] = d.rows[i]
      /\ \A i \in 1..b : s.rows[a + i] = d.buffer[i]
  BY SavedParts
<1>2. a \in Nat /\ b \in Nat
  BY Lengths
<1>4. /\ \A i, j \in 1..a : i < j => d.rows[i].n < d.rows[j].n
      /\ \A i \in 1..a : d.rows[i].n <= k
  BY DEF Ascending
<1>5. /\ \A i, j \in 1..b : i < j => d.buffer[i].n < d.buffer[j].n
      /\ \A i \in 1..b : d.buffer[i].n <= k
      /\ \A i \in 1..a, j \in 1..b : d.rows[i].n < d.buffer[j].n
  OBVIOUS
<1> HIDE DEF a, b, s
<1>6. \A i \in 1..(a + b) : i \in 1..a \/ \E j \in 1..b : i = a + j
  BY <1>2, SplitIndex
<1>7. ASSUME NEW i \in 1..(a + b) PROVE s.rows[i].n <= k
  <2>1. CASE i \in 1..a
    BY <1>1, <1>4, <2>1
  <2>2. CASE \E j \in 1..b : i = a + j
    BY <1>1, <1>5, <2>2
  <2> QED
    BY <1>6, <2>1, <2>2
<1>8. ASSUME NEW i \in 1..(a + b), NEW j \in 1..(a + b), i < j PROVE s.rows[i].n < s.rows[j].n
  <2>1. CASE i \in 1..a /\ j \in 1..a
    BY <1>1, <1>4, <1>8, <2>1
  <2>2. CASE i \in 1..a /\ \E x \in 1..b : j = a + x
    <3>1. PICK x \in 1..b : j = a + x
      BY <2>2
    <3>2. s.rows[i] = d.rows[i] /\ s.rows[j] = d.buffer[x]
      BY <1>1, <2>2, <3>1
    <3> QED
      BY <1>5, <2>2, <3>2
  <2>3. CASE (\E x \in 1..b : i = a + x) /\ j \in 1..a
    BY <1>2, <1>8, <2>3
  <2>4. CASE (\E x \in 1..b : i = a + x) /\ (\E y \in 1..b : j = a + y)
    <3>1. PICK x \in 1..b : i = a + x
      BY <2>4
    <3>2. PICK y \in 1..b : j = a + y
      BY <2>4
    <3>3. s.rows[i] = d.buffer[x] /\ s.rows[j] = d.buffer[y] /\ x < y
      BY <1>1, <1>2, <1>8, <3>1, <3>2
    <3> QED
      BY <1>5, <3>3
  <2> QED
    BY <1>6, <2>1, <2>2, <2>3, <2>4
<1> QED
  BY <1>1, <1>7, <1>8 DEF Ascending, s

\* ... and one without a gap is saved without a gap.
LEMMA SavedGapfree ==
  ASSUME NEW d \in Dataset, Following(d), Gapfree(d),
         \A i \in 1..Len(d.buffer) - 1 : d.buffer[i + 1].n = d.buffer[i].n + 1
  PROVE  Gapfree(Saved(d))
<1> DEFINE a == Len(d.rows)
           b == Len(d.buffer)
           l == Len(d.episodes)
           s == Saved(d)
<1>1. /\ \A i \in 1..a : s.rows[i] = d.rows[i]
      /\ \A i \in 1..b : s.rows[a + i] = d.buffer[i]
      /\ Len(s.episodes) = l + 1 /\ \A e \in 1..l : s.episodes[e] = d.episodes[e]
      /\ s.episodes[l + 1].from = a /\ s.episodes[l + 1].to = a + b
  BY SavedParts DEF Following
<1>2. a \in Nat /\ b \in Nat /\ l \in Nat
  BY Lengths
<1>3. \A e \in 1..l : d.episodes[e].from \in Nat /\ d.episodes[e].to \in Nat
  BY Elements
<1>4. \A e \in 1..l : d.episodes[e].to <= a
  BY DEF Following
<1>5. \A e \in 1..l : \A i \in d.episodes[e].from + 1 .. d.episodes[e].to - 1 :
        d.rows[i + 1].n = d.rows[i].n + 1
  BY DEF Gapfree
<1>6. \A i \in 1..b - 1 : d.buffer[i + 1].n = d.buffer[i].n + 1
  OBVIOUS
<1> HIDE DEF a, b, l, s
<1>7. ASSUME NEW e \in 1..l, NEW i \in s.episodes[e].from + 1 .. s.episodes[e].to - 1
      PROVE  s.rows[i + 1].n = s.rows[i].n + 1
  <2>1. s.episodes[e] = d.episodes[e]
    BY <1>1
  <2>2. i \in d.episodes[e].from + 1 .. d.episodes[e].to - 1
    BY <2>1
  <2>3. i \in 1..a /\ i + 1 \in 1..a
    <3>1. d.episodes[e].from \in Nat /\ d.episodes[e].to \in Nat /\ d.episodes[e].to <= a /\ a \in Nat
      BY <1>2, <1>3, <1>4
    <3> QED
      BY <2>2, <3>1
  <2>4. s.rows[i] = d.rows[i] /\ s.rows[i + 1] = d.rows[i + 1]
    BY <1>1, <2>3
  <2>5. d.rows[i + 1].n = d.rows[i].n + 1
    BY <1>5, <2>2
  <2> QED
    BY <2>4, <2>5
<1>8. ASSUME NEW i \in a + 1 .. a + b - 1 PROVE s.rows[i + 1].n = s.rows[i].n + 1
  <2> DEFINE j == i - a
  <2>1. j \in 1..b - 1 /\ j \in 1..b /\ j + 1 \in 1..b /\ i = a + j /\ i + 1 = a + (j + 1)
    BY <1>2
  <2> HIDE DEF j
  <2>2. s.rows[i] = d.buffer[j] /\ s.rows[i + 1] = d.buffer[j + 1]
    BY <1>1, <2>1
  <2> QED
    BY <1>6, <2>1, <2>2
<1>9. ASSUME NEW e \in 1..Len(s.episodes), NEW i \in s.episodes[e].from + 1 .. s.episodes[e].to - 1
      PROVE  s.rows[i + 1].n = s.rows[i].n + 1
  <2>0. l \in Nat
    BY <1>2
  <2>1. e \in 1..l \/ e = l + 1
    BY <1>1, <2>0
  <2>2. CASE e \in 1..l
    BY <1>7, <2>2
  <2>3. CASE e = l + 1
    <3>1. s.episodes[e].from = a /\ s.episodes[e].to = a + b
      BY <1>1, <2>3
    <3>2. i \in a + 1 .. a + b - 1
      BY <1>2, <3>1
    <3> QED
      BY <1>8, <3>2
  <2> QED
    BY <2>1, <2>2, <2>3
<1> QED
  BY <1>9 DEF Gapfree, s

\* With k frames recorded: the ring or, once live, the buffer ends with frame k, and the rows were
\* recorded before either.
Stretched(d, r, k, l) ==
  /\ Ends(r, k) /\ Ends(d.buffer, k)
  /\ IF l THEN r = <<>> ELSE d.buffer = <<>>
  /\ SavedRows(d, k - Len(r) - Len(d.buffer))

\* Where the loop is over and its save behind it.
Behind == pc \in {"exit", "closing", "final", "down", "raised"}

HighlightType == DataType /\ ring.buffer \in Seq(Frame) /\ live \in BOOLEAN

HighlightInv ==
  data.sized => /\ Stretched(data, ring.buffer, frames, live)
                /\ Behind => data.buffer = <<>>

\* A sequence that ends with frame k ascends without a gap to it.
LEMMA EndsRise ==
  ASSUME NEW s \in Seq(Frame), NEW k \in Nat, Ends(s, k)
  PROVE  /\ \A i \in 1..Len(s) - 1 : s[i + 1].n = s[i].n + 1
         /\ \A i, j \in 1..Len(s) : i < j => s[i].n < s[j].n
         /\ \A i \in 1..Len(s) : k - Len(s) < s[i].n /\ s[i].n <= k
<1> DEFINE b == Len(s)
<1>1. b \in Nat /\ \A i \in 1..b : s[i].n = k - b + i
  BY DEF Ends
<1> HIDE DEF b
<1>4. \A i \in 1..b - 1 : s[i + 1].n = s[i].n + 1
  <2> SUFFICES ASSUME NEW i \in 1..b - 1 PROVE s[i + 1].n = s[i].n + 1
    OBVIOUS
  <2> DEFINE j == i + 1
  <2>1. i \in 1..b /\ j \in 1..b /\ j = i + 1
    BY <1>1
  <2> HIDE DEF j
  <2>2. s[i].n = k - b + i /\ s[j].n = k - b + j
    BY <1>1, <2>1
  <2>3. s[j].n = s[i].n + 1
    BY <1>1, <2>1, <2>2
  <2> QED
    BY <2>3 DEF j
<1>5. \A i, j \in 1..b : i < j => s[i].n < s[j].n
  BY <1>1
<1>6. \A i \in 1..b : k - b < s[i].n /\ s[i].n <= k
  BY <1>1
<1> QED
  BY <1>4, <1>5, <1>6 DEF b

\* Nothing ends with any frame.
LEMMA EmptyEnds == ASSUME NEW k PROVE Ends(<<>>, k) /\ Len(<<>>) = 0
BY DEF Ends

\* Before the first frame ring and buffer are empty.
LEMMA NewStretched == Stretched(NewDataset, <<>>, 0, FALSE)
<1>1. NewDataset.buffer = <<>>
  BY DEF NewDataset
<1>2. SavedRows(NewDataset, 0 - 0 - 0)
  BY NewSavedRows
<1> QED
  BY <1>1, <1>2, EmptyEnds DEF Stretched

\* Stretched is about rows, buffer and episodes only.
LEMMA SameStretched ==
  ASSUME NEW d, NEW x, x.rows = d.rows, x.buffer = d.buffer, x.episodes = d.episodes,
         NEW r, NEW k, NEW l, Stretched(d, r, k, l)
  PROVE  Stretched(x, r, k, l)
BY SameSavedRows DEF Stretched

\* A frame recorded live, ...
LEMMA AddedStretched ==
  ASSUME NEW d \in Dataset, NEW k \in Nat, Stretched(d, <<>>, k, TRUE), NEW f \in Frame, f.n = k + 1
  PROVE  Stretched(AddFrame(d, f), <<>>, k + 1, TRUE)
<1> DEFINE x == AddFrame(d, f)
           b == Len(d.buffer)
<1>1. x.rows = d.rows /\ x.episodes = d.episodes /\ x.buffer = Append(d.buffer, f)
  BY AddFrameFields
<1>2. d.buffer \in Seq(Frame) /\ b \in Nat /\ Ends(d.buffer, k)
  BY DEF Dataset, Stretched
<1>3. Ends(x.buffer, k + 1) /\ Len(x.buffer) = b + 1
  BY <1>1, <1>2, EndsAppend
<1>4. SavedRows(d, k - 0 - b)
  BY EmptyEnds DEF Stretched
<1> HIDE DEF x, b
<1>5. k - 0 - b = (k + 1) - 0 - (b + 1)
  BY <1>2
<1>6. SavedRows(x, (k + 1) - 0 - (b + 1))
  BY <1>1, <1>4, <1>5, SameSavedRows
<1> QED
  BY <1>3, <1>6, EmptyEnds DEF Stretched, x

\* ... a frame that goes into the ring, ...
LEMMA RingStretched ==
  ASSUME NEW d \in Dataset, NEW r \in Seq(Frame), NEW k \in Nat, Stretched(d, r, k, FALSE),
         NEW q \in Seq(Frame), Ends(q, k + 1), Len(q) <= Len(r) + 1
  PROVE  Stretched(d, q, k + 1, FALSE)
<1> DEFINE a == Len(r)
           b == Len(q)
<1>1. a \in Nat /\ b \in Nat /\ b <= a + 1 /\ d.buffer = <<>>
  BY DEF Stretched
<1>2. SavedRows(d, k - a - 0)
  BY <1>1, EmptyEnds DEF Stretched
<1> HIDE DEF a, b
<1>3. k - a - 0 \in Int /\ (k + 1) - b - 0 \in Int /\ k - a - 0 <= (k + 1) - b - 0
  BY <1>1
<1>4. SavedRows(d, (k + 1) - b - 0)
  BY <1>2, <1>3, LaterRows
<1> QED
  BY <1>1, <1>4, EmptyEnds DEF Stretched, b

\* ... the ring that is flushed into the buffer, ...
LEMMA FlushedStretched ==
  ASSUME NEW d \in Dataset, NEW r \in Seq(Frame), NEW k \in Nat, Stretched(d, r, k, FALSE)
  PROVE  LET x == [d EXCEPT !.buffer = @ \o r] IN
         /\ x \in Dataset /\ Stretched(x, <<>>, k, TRUE)
         /\ x.episodes = d.episodes /\ x.sized = d.sized
<1> DEFINE x == [d EXCEPT !.buffer = @ \o r]
           a == Len(r)
<1>1. d.buffer = <<>> /\ Ends(r, k) /\ SavedRows(d, k - a - Len(d.buffer))
  BY DEF Stretched
<1>2. <<>> \o r = r
  OBVIOUS
<1>3. /\ x \in Dataset /\ x.buffer = r /\ x.rows = d.rows /\ x.episodes = d.episodes
      /\ x.sized = d.sized
  BY <1>1, <1>2 DEF Dataset
<1>4. SavedRows(d, k - a - 0) /\ a \in Nat
  BY <1>1, EmptyEnds
<1> HIDE DEF x, a
<1>5. k - a - 0 = k - 0 - a
  BY <1>4
<1>6. SavedRows(x, k - 0 - a)
  BY <1>3, <1>4, <1>5, SameSavedRows
<1>7. Stretched(x, <<>>, k, TRUE)
  BY <1>1, <1>3, <1>6, EmptyEnds DEF Stretched, a
<1> QED
  BY <1>3, <1>7 DEF x

\* ... and an episode that is saved.
LEMMA SavedStretched ==
  ASSUME NEW d \in Dataset, NEW k \in Nat, Stretched(d, <<>>, k, TRUE), NEW l \in BOOLEAN
  PROVE  Stretched(Saved(d), <<>>, k, l)
<1> DEFINE b == Len(d.buffer)
           s == Saved(d)
<1>1. d.buffer \in Seq(Frame) /\ b \in Nat /\ Ends(d.buffer, k) /\ SavedRows(d, k - 0 - b)
  BY EmptyEnds DEF Dataset, Stretched
<1>2. /\ \A i \in 1..b - 1 : d.buffer[i + 1].n = d.buffer[i].n + 1
      /\ \A i, j \in 1..b : i < j => d.buffer[i].n < d.buffer[j].n
      /\ \A i \in 1..b : k - b < d.buffer[i].n /\ d.buffer[i].n <= k
  BY <1>1, EndsRise
<1>3. Following(d) /\ Gapfree(d) /\ Ascending(d, k - 0 - b) /\ Tiled(d)
  BY <1>1 DEF SavedRows, Following
<1>4. Following(s) /\ Gapfree(s)
  BY <1>2, <1>3, SavedFollowing, SavedGapfree
<1>5. Ascending(s, k)
  <2> DEFINE m == k - b
  <2>1. m \in Int /\ k \in Int /\ m <= k /\ m = k - 0 - b
    BY <1>1
  <2>2. \A i \in 1..b : m < d.buffer[i].n /\ d.buffer[i].n <= k /\ d.buffer[i].n \in Nat
    BY <1>2, Elements
  <2>3. Ascending(d, m)
    BY <1>3, <2>1
  <2>4. SavedRows(d, k)
    <3>1. SavedRows(d, m)
      BY <1>1, <2>1
    <3> HIDE DEF m
    <3> QED
      BY <2>1, <3>1, LaterRows
  <2>5. \A i \in 1..Len(d.rows) : d.rows[i].n \in Nat /\ d.rows[i].n <= m
    BY <2>3, Elements DEF Ascending
  <2> HIDE DEF m
  <2>6. ASSUME NEW i \in 1..Len(d.rows), NEW j \in 1..b PROVE d.rows[i].n < d.buffer[j].n
    <3> DEFINE y == d.rows[i].n
               z == d.buffer[j].n
    <3>1. y \in Nat /\ y <= m /\ z \in Nat /\ m < z /\ m \in Int
      BY <2>1, <2>2, <2>5
    <3> HIDE DEF y, z
    <3>2. y < z
      BY <3>1
    <3> QED
      BY <3>2 DEF y, z
  <2> QED
    BY <1>2, <1>3, <2>4, <2>6, SavedAscending DEF SavedRows
<1>6. s.buffer = <<>>
  BY SavedFields
<1> HIDE DEF s, b
<1>7. k - 0 - 0 = k
  OBVIOUS
<1>8. SavedRows(s, k - 0 - 0)
  BY <1>4, <1>5, <1>7 DEF SavedRows
<1> QED
  BY <1>6, <1>8, EmptyEnds DEF Stretched, s

\* Every step of Highlight keeps the types.
LEMMA HighlightTypeStep == HighlightType /\ Highlight!Next => HighlightType'
<1> SUFFICES ASSUME HighlightType, Highlight!Next PROVE HighlightType'
  OBVIOUS
<1>0. data \in Dataset /\ frames \in Nat /\ take \in Nat /\ ring.buffer \in Seq(Frame) /\ live \in BOOLEAN
  BY DEF HighlightType, DataType
<1>f. NextFrame \in Frame
  BY <1>0, NextFrameFields
<1>m. Moves /\ UNCHANGED ring /\ live' \in {live, FALSE} => HighlightType'
  BY MovesType DEF HighlightType, DataType
<1> USE HighlightActions
<1> USE DEF Highlight!hubVars, Highlight!takeVars, Highlight!highlightVars
<1>1. CASE Highlight!Look \/ Highlight!NoFrame \/ Highlight!Leave
  BY <1>1, <1>m DEF Highlight!Look, Highlight!NoFrame, Highlight!Leave, Moves
<1>2. CASE Highlight!KeepFrame
  <2>1. CASE live /\ data' = AddFrame(data, NextFrame) /\ UNCHANGED ring
    BY <1>2, <1>m, <2>1, HighlightData
       DEF Highlight!KeepFrame, Highlight!CountFrame, Moves
  <2>2. CASE ~live /\ ring' = Highlight!Appended(ring, NextFrame) /\ UNCHANGED data
    <3>1. ring'.buffer \in Seq(Frame)
      BY <1>0, <1>f, <2>2, AppendedType
    <3> QED
      BY <1>0, <1>2, <2>2, <3>1 DEF Highlight!KeepFrame, Highlight!CountFrame, HighlightType, DataType
  <2> QED
    BY <1>2, <2>1, <2>2, HighlightData
       DEF Highlight!KeepFrame, Highlight!NextFrame, NextFrame
<1>3. CASE Highlight!StartLive
  <2> DEFINE x == [data EXCEPT !.buffer = @ \o ring.buffer]
  <2>1. x \in Dataset
    BY <1>0, FlushedFields
  <2>2. data' = AddFrame(x, NextFrame)
    BY <1>3, HighlightData DEF Highlight!StartLive, Highlight!AddFrame, AddFrame, Highlight!NextFrame, NextFrame
  <2> HIDE DEF x
  <2>3. data' \in Dataset
    BY <1>f, <2>1, <2>2, AddFrameFields
  <2>4. ring'.buffer = <<>>
    BY <1>3 DEF Highlight!StartLive, Highlight!Drained, Highlight!EmptyRing
  <2> QED
    BY <1>0, <1>3, <2>3, <2>4 DEF Highlight!StartLive, Highlight!CountFrame, HighlightType, DataType
<1>4. CASE Highlight!EndLive
  BY <1>4, <1>m DEF Highlight!EndLive, RecordFrame, CountFrame, Moves
<1>5. CASE Highlight!SaveLive
  BY <1>5, <1>m DEF Highlight!SaveLive, SaveEpisode, SaveRaises, Moves
<1>6. CASE Highlight!SaveTail
  BY <1>6, <1>m DEF Highlight!SaveTail, SaveEpisode, SaveRaises, Moves
<1>7. CASE Highlight!Exit
  BY <1>7, <1>m, HighlightData DEF Highlight!Exit, Moves
<1>8. CASE (Close \/ FinalPush(TRUE) \/ BeginPush(FALSE) \/ EndPush \/ FailPush)
           /\ UNCHANGED Highlight!highlightVars
  BY <1>8, <1>m DEF Close, FinalPush, BeginPush, EndPush, FailPush, takeVars, Moves
<1>9. CASE Highlight!Input
  BY <1>9, <1>m DEF Highlight!Input, Highlight!PressSave, Highlight!PressPush, Highlight!PressEsc,
                    Highlight!recorderVars, Moves
<1>10. CASE Over /\ UNCHANGED Highlight!highlightVars
  BY <1>10, <1>m DEF Over, recorderVars, Moves
<1> QED
  BY <1>1, <1>2, <1>3, <1>4, <1>5, <1>6, <1>7, <1>8, <1>9, <1>10
     DEF Highlight!Next, Highlight!Loop, Highlight!Executor
------------------------------------------------------------------------------
(* What a step of Highlight does while no save has failed *)

HighlightQuiet ==
  /\ data'.sized = data.sized
  /\ data'.rows = data.rows /\ data'.buffer = data.buffer /\ data'.episodes = data.episodes
  /\ frames' = frames /\ ring' = ring /\ live' = live
  /\ Behind' => Behind \/ ~live \/ data.buffer = <<>>

HighlightLive ==
  /\ live /\ live' /\ ring' = ring
  /\ data' = AddFrame(data, NextFrame) /\ frames' = frames + 1
  /\ ~Behind'

HighlightRing ==
  /\ ~live /\ live' = live /\ data' = data
  /\ ring' = Highlight!Appended(ring, NextFrame) /\ frames' = frames + 1
  /\ ~Behind'

HighlightStart ==
  /\ ~live /\ live' /\ ring'.buffer = <<>>
  /\ data' = AddFrame([data EXCEPT !.buffer = @ \o ring.buffer], NextFrame) /\ frames' = frames + 1
  /\ ~Behind'

HighlightSaves ==
  /\ HasPending(data) /\ data' = Saved(data)
  /\ frames' = frames /\ ring' = ring
  /\ live' \in {live, FALSE}

\* As long as no save has failed, a step of Highlight is of one of the kinds.
LEMMA HighlightKinds ==
  ASSUME HighlightType, Highlight!Next, data'.sized
  PROVE  HighlightQuiet \/ HighlightLive \/ HighlightRing \/ HighlightStart \/ HighlightSaves
<1>0. data \in Dataset /\ DataType /\ live \in BOOLEAN
  BY DEF HighlightType, DataType
<1>n. Highlight!NextFrame = NextFrame
  BY DEF Highlight!NextFrame, NextFrame
<1>r. SaveRaises => data' = data /\ data.buffer = <<>>
  BY <1>0, RaisesQuiet DEF HasPending
<1> USE HighlightActions
<1> USE DEF Highlight!hubVars, Highlight!takeVars, Highlight!highlightVars
<1>1. CASE Highlight!Look \/ Highlight!NoFrame \/ Highlight!Leave
  BY <1>1 DEF Highlight!Look, Highlight!NoFrame, Highlight!Leave, HighlightQuiet, Behind
<1>2. CASE Highlight!KeepFrame
  BY <1>0, <1>2, <1>n, HighlightData
     DEF Highlight!KeepFrame, Highlight!CountFrame, HighlightLive, HighlightRing, Behind
<1>3. CASE Highlight!StartLive
  <2>1. /\ ~live /\ live' /\ frames' = frames + 1 /\ pc' = "loop"
        /\ data' = AddFrame([data EXCEPT !.buffer = @ \o ring.buffer], NextFrame)
    BY <1>3, <1>n DEF Highlight!StartLive, Highlight!CountFrame, Highlight!AddFrame, AddFrame
  <2>2. ring'.buffer = <<>>
    BY <1>3 DEF Highlight!StartLive, Highlight!Drained, Highlight!EmptyRing
  <2> QED
    BY <2>1, <2>2 DEF HighlightStart, Behind
<1>4. CASE Highlight!EndLive
  BY <1>4 DEF Highlight!EndLive, RecordFrame, CountFrame, HighlightLive, Behind
<1>5. CASE Highlight!SaveLive
  <2>1. CASE SaveEpisode /\ pc' = "loop" /\ live' = FALSE
    BY <1>5, <2>1 DEF Highlight!SaveLive, SaveEpisode, HighlightSaves
  <2>2. CASE SaveRaises /\ pc' = "finally" /\ UNCHANGED live
    BY <1>5, <1>r, <2>2 DEF Highlight!SaveLive, HighlightQuiet
  <2> QED
    BY <1>5, <2>1, <2>2 DEF Highlight!SaveLive
<1>6. CASE Highlight!SaveTail
  <2>1. CASE live /\ SaveEpisode
    BY <1>6, <2>1 DEF Highlight!SaveTail, SaveEpisode, HighlightSaves
  <2>2. CASE live /\ SaveRaises
    BY <1>6, <1>r, <2>2 DEF Highlight!SaveTail, HighlightQuiet
  <2>3. CASE ~live /\ UNCHANGED data
    BY <1>6, <2>3 DEF Highlight!SaveTail, HighlightQuiet
  <2> QED
    BY <1>0, <1>6, <2>1, <2>2, <2>3 DEF Highlight!SaveTail
<1>7. CASE Highlight!Exit
  <2>1. data' = Finalized(data)
    BY <1>7, HighlightData DEF Highlight!Exit
  <2> QED
    BY <1>0, <1>7, <2>1, DiscardedFields DEF Highlight!Exit, HighlightQuiet, Behind
<1>8. CASE Close /\ UNCHANGED Highlight!highlightVars
  BY <1>0, <1>8, DiscardedFields DEF Close, takeVars, HighlightQuiet, Behind
<1>9. CASE FinalPush(TRUE) /\ UNCHANGED Highlight!highlightVars
  BY <1>9 DEF FinalPush, takeVars, HighlightQuiet, Behind
<1>10. CASE (BeginPush(FALSE) \/ EndPush \/ FailPush) /\ UNCHANGED Highlight!highlightVars
  BY <1>10 DEF BeginPush, EndPush, FailPush, takeVars, HighlightQuiet, Behind
<1>11. CASE Highlight!Input
  BY <1>11 DEF Highlight!Input, Highlight!PressSave, Highlight!PressPush, Highlight!PressEsc,
               Highlight!recorderVars, HighlightQuiet, Behind
<1>12. CASE Over /\ UNCHANGED Highlight!highlightVars
  BY <1>12 DEF Over, recorderVars, HighlightQuiet, Behind
<1> QED
  BY <1>1, <1>2, <1>3, <1>4, <1>5, <1>6, <1>7, <1>8, <1>9, <1>10, <1>11, <1>12
     DEF Highlight!Next, Highlight!Loop, Highlight!Executor

\* Every step of Highlight keeps its invariant: the flush hands the whole ring to the buffer.
LEMMA HighlightStep ==
  ASSUME HighlightType, HighlightInv, Highlight!Next PROVE HighlightInv'
<1> SUFFICES ASSUME data'.sized
             PROVE  /\ Stretched(data', ring'.buffer, frames', live')
                    /\ Behind' => data'.buffer = <<>>
  BY DEF HighlightInv
<1>0. /\ data \in Dataset /\ frames \in Nat /\ ring.buffer \in Seq(Frame) /\ live \in BOOLEAN
      /\ NextFrame \in Frame /\ NextFrame.n = frames + 1
  BY NextFrameFields DEF HighlightType, DataType
<1>k. HighlightQuiet \/ HighlightLive \/ HighlightRing \/ HighlightStart \/ HighlightSaves
  BY HighlightKinds
<1>i. data.sized => /\ Stretched(data, ring.buffer, frames, live)
                    /\ live => ring.buffer = <<>>
                    /\ ~live => data.buffer = <<>>
  BY DEF HighlightInv, Stretched
<1>1. CASE HighlightQuiet
  <2>1. data.sized
    BY <1>1 DEF HighlightQuiet
  <2>2. Stretched(data', ring.buffer, frames, live)
    BY <1>1, <1>i, <2>1, SameStretched DEF HighlightQuiet
  <2> QED
    BY <1>1, <1>i, <2>1, <2>2 DEF HighlightQuiet, HighlightInv
<1>2. CASE HighlightLive
  <2>1. live = TRUE /\ live' = TRUE /\ data' = AddFrame(data, NextFrame) /\ data.sized
    <3>1. live' \in BOOLEAN
      BY HighlightTypeStep DEF HighlightType
    <3> QED
      BY <1>0, <1>2, <3>1, AddFrameFields DEF HighlightLive
  <2>2. ring.buffer = <<>> /\ Stretched(data, <<>>, frames, TRUE)
    BY <1>i, <2>1
  <2>3. Stretched(data', <<>>, frames + 1, TRUE)
    BY <1>0, <2>1, <2>2, AddedStretched
  <2> QED
    BY <1>2, <2>1, <2>2, <2>3 DEF HighlightLive
<1>3. CASE HighlightRing
  <2>1. live = FALSE /\ live' = FALSE /\ data' = data /\ data.sized
    BY <1>0, <1>3 DEF HighlightRing
  <2>2. Stretched(data, ring.buffer, frames, FALSE) /\ Ends(ring.buffer, frames)
    BY <1>i, <2>1 DEF Stretched
  <2>3. /\ ring'.buffer \in Seq(Frame) /\ Ends(ring'.buffer, frames + 1)
        /\ Len(ring'.buffer) <= Len(ring.buffer) + 1
    BY <1>0, <1>3, <2>2, AppendedEnds DEF HighlightRing
  <2>4. Stretched(data, ring'.buffer, frames + 1, FALSE)
    BY <1>0, <2>2, <2>3, RingStretched
  <2> QED
    BY <1>3, <2>1, <2>4 DEF HighlightRing
<1>4. CASE HighlightStart
  <2> DEFINE x == [data EXCEPT !.buffer = @ \o ring.buffer]
  <2>0. live' \in BOOLEAN
    BY HighlightTypeStep DEF HighlightType
  <2>1. live = FALSE /\ live' = TRUE /\ data' = AddFrame(x, NextFrame) /\ x.sized = data.sized
    BY <1>0, <1>4, <2>0, FlushedFields DEF HighlightStart
  <2>2. x \in Dataset
    BY <1>0, FlushedFields
  <2>3. data.sized
    <3> HIDE DEF x
    <3> QED
      BY <1>0, <2>1, <2>2, AddFrameFields
  <2>4. Stretched(x, <<>>, frames, TRUE)
    BY <1>0, <1>i, <2>1, <2>3, FlushedStretched
  <2> HIDE DEF x
  <2>5. Stretched(data', <<>>, frames + 1, TRUE)
    BY <1>0, <2>1, <2>2, <2>4, AddedStretched
  <2> QED
    BY <1>4, <2>1, <2>5 DEF HighlightStart
<1>5. CASE HighlightSaves
  <2>1. data' = Saved(data) /\ data.sized /\ data.buffer # <<>> /\ data'.buffer = <<>>
    BY <1>0, <1>5, SavedFields DEF HighlightSaves, HasPending
  <2>2. live = TRUE /\ ring.buffer = <<>> /\ Stretched(data, <<>>, frames, TRUE)
    BY <1>0, <1>i, <2>1
  <2>3. live' \in BOOLEAN
    BY <1>0, <1>5 DEF HighlightSaves
  <2>4. Stretched(data', <<>>, frames, live')
    BY <1>0, <2>1, <2>2, <2>3, SavedStretched
  <2> QED
    BY <1>5, <2>1, <2>2, <2>4 DEF HighlightSaves
<1> QED
  BY <1>k, <1>1, <1>2, <1>3, <1>4, <1>5

\* A step of Highlight does to the Hub what HubStep asks for: the final push is always wanted.
LEMMA HighlightHub ==
  ASSUME HighlightType, Highlight!Next, strategy = "highlight", UNCHANGED strategy
  PROVE  HubQuiet \/ HubSaves \/ HubPushes
<1>0. data \in Dataset /\ Owed /\ Owed' /\ (Wanted <=> TRUE)
  BY DEF HighlightType, DataType, Owed, Wanted
<1>f. NextFrame \in Frame
  BY NextFrameFields DEF HighlightType, DataType
<1> USE HighlightActions
<1> USE DEF Highlight!hubVars, Highlight!takeVars, Highlight!highlightVars
<1>1. CASE Highlight!Look \/ Highlight!NoFrame \/ Highlight!Leave
  BY <1>0, <1>1 DEF Highlight!Look, Highlight!NoFrame, Highlight!Leave, HubQuiet
<1>r. RecordFrame \/ data' = AddFrame(data, NextFrame) => data'.episodes = data.episodes
  BY <1>0, <1>f, AddFrameFields DEF RecordFrame
<1>2. CASE Highlight!KeepFrame
  <2>1. data' = AddFrame(data, NextFrame) \/ UNCHANGED data
    BY <1>2, HighlightData DEF Highlight!KeepFrame, Highlight!NextFrame, NextFrame
  <2> QED
    BY <1>0, <1>2, <1>r, <2>1 DEF Highlight!KeepFrame, HubQuiet
<1>3. CASE Highlight!StartLive
  <2>1. data'.episodes = data.episodes
    BY <1>0, <1>3 DEF Highlight!StartLive, Highlight!AddFrame, Dataset
  <2> QED
    BY <1>0, <1>3, <2>1 DEF Highlight!StartLive, HubQuiet
<1>4. CASE Highlight!EndLive
  BY <1>0, <1>4, <1>r DEF Highlight!EndLive, HubQuiet
<1>5. CASE Highlight!SaveLive
  BY <1>0, <1>5 DEF Highlight!SaveLive, HubSaves
<1>6. CASE Highlight!SaveTail
  BY <1>0, <1>6 DEF Highlight!SaveTail, HubQuiet, HubSaves
<1>7. CASE Highlight!Exit
  BY <1>0, <1>7, HighlightData, DiscardedFields DEF Highlight!Exit, HubQuiet
<1>8. CASE Close
  BY <1>0, <1>8, DiscardedFields DEF Close, hubVars, HubQuiet
<1>9. CASE FinalPush(TRUE)
  BY <1>0, <1>9 DEF FinalPush, HubPushes
<1>10. CASE BeginPush(FALSE) \/ EndPush \/ FailPush
  BY <1>10 DEF BeginPush, EndPush, FailPush, HubPushes
<1>11. CASE Highlight!Input
  BY <1>0, <1>11 DEF Highlight!Input, Highlight!PressSave, Highlight!PressPush, Highlight!PressEsc,
               Highlight!recorderVars, HubQuiet
<1>12. CASE Over
  BY <1>0, <1>12 DEF Over, recorderVars, HubQuiet
<1> QED
  BY <1>1, <1>2, <1>3, <1>4, <1>5, <1>6, <1>7, <1>8, <1>9, <1>10, <1>11, <1>12
     DEF Highlight!Next, Highlight!Loop, Highlight!Executor

\* The episodes are the same in the instance.
LEMMA HighlightCopies ==
  ASSUME NEW d
  PROVE  /\ \A e : Highlight!Episode(d, e) = Episode(d, e)
         /\ Highlight!Episodes(d) = Episodes(d)
BY DEF Highlight!Episode, Episode, Highlight!Episodes, Episodes

\* Episodes, buffer and ring are stretches, one behind the other.
LEMMA HighlightStretches ==
  ASSUME HighlightType, HighlightInv PROVE Highlight!Stretches
<1> DEFINE l == Len(data.episodes)
           es == Episodes(data)
           all == es \o <<data.buffer, ring.buffer>>
<1> SUFFICES ASSUME data.sized PROVE Highlight!Stretches
  BY DEF Highlight!Stretches
<1>0. /\ data \in Dataset /\ l \in Nat /\ data.buffer \in Seq(Frame) /\ ring.buffer \in Seq(Frame)
      /\ frames \in Nat /\ live \in BOOLEAN
  BY Lengths DEF HighlightType, DataType, Dataset
<1>1. es = [e \in 1..l |-> Episode(data, e)]
  BY DEF Episodes
<1>2. Stretched(data, ring.buffer, frames, live)
  BY DEF HighlightInv
<1>3. Tiled(data) /\ \A e \in 1..l : data.episodes[e].to <= Len(data.rows)
  BY <1>2 DEF Stretched, SavedRows, Following
<1>4. ASSUME NEW e \in 1..l
      PROVE  /\ data.episodes[e].from \in Nat /\ data.episodes[e].to \in Nat
             /\ data.episodes[e].from <= data.episodes[e].to
             /\ data.episodes[e].to <= Len(data.rows)
             /\ Episode(data, e) \in Seq(Frame)
             /\ Len(Episode(data, e)) = data.episodes[e].to - data.episodes[e].from
             /\ \A i \in 1..(data.episodes[e].to - data.episodes[e].from) :
                  Episode(data, e)[i] = data.rows[data.episodes[e].from + i]
  <2>1. data.episodes[e].from <= data.episodes[e].to /\ data.episodes[e].to <= Len(data.rows)
    BY <1>3 DEF Tiled
  <2> QED
    BY <1>0, <2>1, EpisodeParts
<1>5. es \in Seq(Seq(Frame)) /\ Len(es) = l
  BY <1>0, <1>1, <1>4
<1>6. /\ DOMAIN all = 1..(l + 2) /\ all[l + 1] = data.buffer /\ all[l + 2] = ring.buffer
      /\ \A e \in 1..l : all[e] = Episode(data, e)
  <2> DEFINE b == data.buffer
             r == ring.buffer
  <2>1. /\ es \in Seq(Seq(Frame)) /\ Len(es) = l /\ l \in Nat /\ b \in Seq(Frame) /\ r \in Seq(Frame)
        /\ \A e \in 1..l : es[e] = Episode(data, e)
    BY <1>0, <1>1, <1>5
  <2>2. all = es \o <<b, r>>
    OBVIOUS
  <2> HIDE DEF es, l, b, r
  <2>3. <<b, r>> \in Seq(Seq(Frame)) /\ Len(<<b, r>>) = 2 /\ <<b, r>>[1] = b /\ <<b, r>>[2] = r
    BY <2>1
  <2>4. /\ DOMAIN (es \o <<b, r>>) = 1..(l + 2)
        /\ (es \o <<b, r>>)[l + 1] = b /\ (es \o <<b, r>>)[l + 2] = r
        /\ \A e \in 1..l : (es \o <<b, r>>)[e] = es[e]
    BY <2>1, <2>3
  <2> QED
    BY <2>1, <2>2, <2>4 DEF b, r
<1> HIDE DEF all, es
<1>7. ASSUME NEW i \in DOMAIN all PROVE i \in 1..l \/ i = l + 1 \/ i = l + 2
  BY <1>0, <1>6
<1>8. /\ \A i \in 1..Len(data.buffer) - 1 : data.buffer[i + 1].n = data.buffer[i].n + 1
      /\ \A i \in 1..Len(data.buffer) : frames - Len(data.buffer) < data.buffer[i].n
      /\ \A i \in 1..Len(ring.buffer) - 1 : ring.buffer[i + 1].n = ring.buffer[i].n + 1
      /\ \A i \in 1..Len(ring.buffer) : frames - Len(ring.buffer) < ring.buffer[i].n
  BY <1>0, <1>2, EndsRise DEF Stretched
\* No episode has a gap.
<1>9. ASSUME NEW e \in 1..l PROVE Highlight!Gapless(Episode(data, e))
  <2> DEFINE from == data.episodes[e].from
             to == data.episodes[e].to
             p == Episode(data, e)
  <2>1. /\ from \in Nat /\ to \in Nat /\ Len(p) = to - from
        /\ \A i \in 1..(to - from) : p[i] = data.rows[from + i]
    BY <1>4
  <2>2. \A r \in from + 1 .. to - 1 : data.rows[r + 1].n = data.rows[r].n + 1
    BY <1>2 DEF Stretched, SavedRows, Gapfree
  <2> HIDE DEF from, to, p
  <2>3. ASSUME NEW i \in 1..Len(p) - 1 PROVE p[i + 1].n = p[i].n + 1
    <3> DEFINE r == from + i
    <3>1. /\ i \in 1..(to - from) /\ i + 1 \in 1..(to - from) /\ from + (i + 1) = r + 1
          /\ r \in from + 1 .. to - 1
      BY <2>1
    <3>2. p[i] = data.rows[r] /\ p[i + 1] = data.rows[r + 1]
      BY <2>1, <3>1
    <3> HIDE DEF r
    <3> QED
      BY <2>2, <3>1, <3>2
  <2> QED
    BY <2>3 DEF Highlight!Gapless, p
<1>10. ASSUME NEW i \in DOMAIN all PROVE Highlight!Gapless(all[i])
  <2>1. Highlight!Gapless(data.buffer) /\ Highlight!Gapless(ring.buffer)
    BY <1>8 DEF Highlight!Gapless
  <2> QED
    BY <1>6, <1>7, <1>9, <2>1
\* The first and the last frame of an episode that is not empty.
<1>11. ASSUME NEW e \in 1..l, Episode(data, e) # <<>>
       PROVE  /\ data.episodes[e].from + 1 \in 1..Len(data.rows)
              /\ data.episodes[e].to \in 1..Len(data.rows)
              /\ Head(Episode(data, e)) = data.rows[data.episodes[e].from + 1]
              /\ Highlight!Last(Episode(data, e)) = data.rows[data.episodes[e].to]
  <2> DEFINE from == data.episodes[e].from
             to == data.episodes[e].to
             p == Episode(data, e)
             n == Len(data.rows)
  <2>1. /\ from \in Nat /\ to \in Nat /\ to <= n /\ n \in Nat /\ p \in Seq(Frame)
        /\ Len(p) = to - from /\ p # <<>>
        /\ \A i \in 1..(to - from) : p[i] = data.rows[from + i]
    BY <1>0, <1>4, <1>11, Lengths
  <2>2. Head(p) = p[1] /\ Highlight!Last(p) = p[Len(p)] /\ Len(p) # 0
    BY <2>1 DEF Highlight!Last
  <2> HIDE DEF from, to, p, n
  <2>3. 1 \in 1..(to - from) /\ to - from \in 1..(to - from) /\ from + (to - from) = to
    BY <2>1, <2>2
  <2>4. p[1] = data.rows[from + 1] /\ p[to - from] = data.rows[to]
    BY <2>1, <2>3
  <2>5. from + 1 \in 1..n /\ to \in 1..n
    BY <2>1, <2>3
  <2> QED
    BY <2>1, <2>2, <2>4, <2>5 DEF from, to, p, n
<1>12. ASSUME NEW i \in DOMAIN all, NEW j \in DOMAIN all, i < j, all[i] # <<>>, all[j] # <<>>
       PROVE  Highlight!Last(all[i]).n < Head(all[j]).n
  <2>1. ~(i = l + 1 /\ j = l + 2)
    BY <1>2, <1>6, <1>12 DEF Stretched
  <2>2. i \in 1..l /\ (j \in 1..l \/ j = l + 1 \/ j = l + 2)
    BY <1>0, <1>7, <1>12, <2>1
  <2>3. /\ data.episodes[i].to \in 1..Len(data.rows)
        /\ Highlight!Last(all[i]) = data.rows[data.episodes[i].to]
    BY <1>6, <1>11, <1>12, <2>2
  <2>4. CASE j \in 1..l
    <3>1. /\ data.episodes[j].from + 1 \in 1..Len(data.rows)
          /\ Head(all[j]) = data.rows[data.episodes[j].from + 1]
      BY <1>6, <1>11, <1>12, <2>4
    <3>2. data.episodes[i].to <= data.episodes[j].from
      BY <1>2, <1>12, <2>2, <2>4 DEF Stretched, SavedRows, Following
    <3>3. data.episodes[i].to < data.episodes[j].from + 1
      BY <1>4, <2>2, <2>4, <3>2
    <3>4. data.rows[data.episodes[i].to].n < data.rows[data.episodes[j].from + 1].n
      BY <1>2, <2>3, <3>1, <3>3 DEF Stretched, SavedRows, Ascending
    <3> QED
      BY <2>3, <3>1, <3>4
  <2>5. CASE j = l + 1 \/ j = l + 2
    <3> DEFINE b == Len(data.buffer)
               a == Len(ring.buffer)
               x == data.rows[data.episodes[i].to].n
    <3>1. x \in Nat /\ x <= frames - a - b /\ a \in Nat /\ b \in Nat
      <4>1. \A r \in 1..Len(data.rows) : data.rows[r].n \in Nat /\ data.rows[r].n <= frames - a - b
        BY <1>0, <1>2, Elements DEF Stretched, SavedRows, Ascending
      <4> HIDE DEF a, b
      <4>2. x \in Nat /\ x <= frames - a - b
        BY <2>3, <4>1
      <4>3. a \in Nat /\ b \in Nat
        BY <1>0 DEF a, b
      <4> QED
        BY <4>2, <4>3
    <3>2. all[j] \in {data.buffer, ring.buffer} /\ Head(all[j]) = all[j][1] /\ 1 \in 1..Len(all[j])
      BY <1>0, <1>6, <1>12, <2>5
    <3>3. Head(all[j]).n \in Nat /\ (frames - b < Head(all[j]).n \/ frames - a < Head(all[j]).n)
      <4>1. \A m \in 1..Len(data.buffer) : data.buffer[m].n \in Nat
        BY <1>0, Elements
      <4>2. \A m \in 1..Len(ring.buffer) : ring.buffer[m].n \in Nat
        <5>1. \A m \in 1..Len(ring.buffer) : ring.buffer[m] \in Frame
          BY <1>0
        <5> QED
          BY <5>1 DEF Frame
      <4>3. CASE all[j] = data.buffer
        BY <1>8, <3>2, <4>1, <4>3
      <4>4. CASE all[j] = ring.buffer
        BY <1>8, <3>2, <4>2, <4>4
      <4> QED
        BY <3>2, <4>3, <4>4
    <3> DEFINE y == Head(all[j]).n
    <3> HIDE DEF a, b, x
    <3>4. y \in Nat /\ (frames - b < y \/ frames - a < y)
      BY <3>3
    <3> HIDE DEF y
    <3>5. x < y
      BY <1>0, <3>1, <3>4
    <3> QED
      BY <2>3, <3>5 DEF x, y
  <2> QED
    BY <2>2, <2>4, <2>5
<1>13. Highlight!Episodes(data) = es
  BY HighlightCopies DEF es
<1> QED
  BY <1>10, <1>12, <1>13 DEF Highlight!Stretches, all
------------------------------------------------------------------------------
(* Episodic *)

\* The dataset is the same in the instance, ...
LEMMA EpisodicData ==
  ASSUME NEW d
  PROVE  /\ \A f : Episodic!AddFrame(d, f) = AddFrame(d, f)
         /\ Episodic!TotalFrames(d) = TotalFrames(d)
         /\ Episodic!HasPending(d) <=> HasPending(d)
         /\ Episodic!WithRows(d) = WithRows(d)
         /\ Episodic!Committed(d) = Committed(d)
         /\ Episodic!Saved(d) = Saved(d)
         /\ Episodic!Failed(d) = Failed(d)
         /\ Episodic!Finalized(d) = Finalized(d)
         /\ Episodic!Contents(d) = Contents(d)
         /\ Episodic!Discarded(d) = Discarded(d)
<1>1. \A f : Episodic!AddFrame(d, f) = AddFrame(d, f)
  BY DEF Episodic!AddFrame, AddFrame
<1>2. Episodic!TotalFrames(d) = TotalFrames(d)
  BY DEF Episodic!TotalFrames, TotalFrames
<1>3. Episodic!HasPending(d) <=> HasPending(d)
  BY DEF Episodic!HasPending, HasPending
<1>4. Episodic!WithRows(d) = WithRows(d)
  BY DEF Episodic!WithRows, WithRows
<1>5. Episodic!Committed(d) = Committed(d)
  BY <1>2, <1>4 DEF Episodic!Committed, Committed
<1>6. Episodic!Saved(d) = Saved(d)
  BY <1>5 DEF Episodic!Saved, Saved
<1>7. Episodic!Failed(d) = Failed(d)
  BY <1>3, <1>4, <1>5 DEF Episodic!Failed, Failed
<1>8. Episodic!Finalized(d) = Finalized(d)
  BY DEF Episodic!Finalized, Finalized
<1>9. Episodic!Contents(d) = Contents(d)
  BY DEF Episodic!Contents, Contents
<1>10. Episodic!Discarded(d) = Discarded(d)
  BY DEF Episodic!Discarded, Discarded
<1> QED
  BY <1>1, <1>2, <1>3, <1>4, <1>5, <1>6, <1>7, <1>8, <1>9, <1>10

\* ... and so are the steps of the recorder.
LEMMA EpisodicActions ==
  /\ Episodic!RecordFrame <=> RecordFrame
  /\ Episodic!SaveEpisode <=> SaveEpisode
  /\ Episodic!SaveRaises <=> SaveRaises
  /\ Episodic!Close <=> Close
  /\ Episodic!FinalPush(TRUE) <=> FinalPush(TRUE)
  /\ Episodic!BeginPush(FALSE) <=> BeginPush(FALSE)
  /\ Episodic!EndPush <=> EndPush
  /\ Episodic!FailPush <=> FailPush
  /\ Episodic!Over <=> Over
<1>1. Episodic!RecordFrame <=> RecordFrame
  BY EpisodicData DEF Episodic!RecordFrame, RecordFrame, Episodic!CountFrame, CountFrame,
                    Episodic!NextFrame, NextFrame
<1>2. Episodic!SaveEpisode <=> SaveEpisode
  BY EpisodicData DEF Episodic!SaveEpisode, SaveEpisode, Episodic!LockFree, LockFree
<1>3. Episodic!SaveRaises <=> SaveRaises
  BY EpisodicData DEF Episodic!SaveRaises, SaveRaises, Episodic!LockFree, LockFree
<1>4. Episodic!Close <=> Close
  BY EpisodicData DEF Episodic!Close, Close, Episodic!hubVars, hubVars, Episodic!takeVars, takeVars
<1>5. Episodic!FinalPush(TRUE) <=> FinalPush(TRUE)
  BY EpisodicData DEF Episodic!FinalPush, FinalPush, Episodic!takeVars, takeVars
<1>6. Episodic!BeginPush(FALSE) <=> BeginPush(FALSE)
  BY EpisodicData DEF Episodic!BeginPush, BeginPush, Episodic!LockFree, LockFree, Episodic!takeVars, takeVars
<1>7. Episodic!EndPush <=> EndPush
  BY DEF Episodic!EndPush, EndPush, Episodic!Uploaded, Uploaded, Episodic!takeVars, takeVars
<1>8. Episodic!FailPush <=> FailPush
  BY DEF Episodic!FailPush, FailPush, Episodic!takeVars, takeVars
<1>9. Episodic!Over <=> Over
  BY DEF Episodic!Over, Over, Episodic!recorderVars, recorderVars
<1> QED
  BY <1>1, <1>2, <1>3, <1>4, <1>5, <1>6, <1>7, <1>8, <1>9
------------------------------------------------------------------------------
(* The frames recorded and not thrown away *)

NumbersOf(s) == {s[i].n : i \in 1..Len(s)}

\* The rows and the buffer behind them ascend to k at most and have the numbers up to k that are
\* not in t.
Kept(d, k, t) ==
  /\ t \subseteq 1..k
  /\ Ascending(d, k)
  /\ \A i, j \in 1..Len(d.buffer) : i < j => d.buffer[i].n < d.buffer[j].n
  /\ \A i \in 1..Len(d.buffer) : d.buffer[i].n <= k
  /\ \A i \in 1..Len(d.rows), j \in 1..Len(d.buffer) : d.rows[i].n < d.buffer[j].n
  /\ NumbersOf(d.rows) \union NumbersOf(d.buffer) = (1..k) \ t
  /\ Tiled(d)
  /\ \A e \in 1..Len(d.episodes) : d.episodes[e].to <= Len(d.rows)

\* A new dataset keeps nothing, ...
LEMMA NewKept == Kept(NewDataset, 0, {})
BY DEF NewDataset, Kept, Ascending, NumbersOf, Tiled, TotalFrames

\* ... what leaves the parts alone keeps the same frames, ...
LEMMA SameKept ==
  ASSUME NEW d, NEW x, x.rows = d.rows, x.buffer = d.buffer, x.episodes = d.episodes,
         NEW k, NEW t, Kept(d, k, t)
  PROVE  Kept(x, k, t)
BY SameTiled DEF Kept, Ascending, NumbersOf

\* ... and a frame adds one.
LEMMA AddedKept ==
  ASSUME NEW d \in Dataset, NEW k \in Nat, NEW t, Kept(d, k, t), NEW f \in Frame, f.n = k + 1
  PROVE  Kept(AddFrame(d, f), k + 1, t)
<1> DEFINE a == Len(d.rows)
           b == Len(d.buffer)
           x == AddFrame(d, f)
<1>1. /\ x.rows = d.rows /\ x.episodes = d.episodes
      /\ Len(x.buffer) = b + 1 /\ x.buffer[b + 1] = f
      /\ \A i \in 1..b : x.buffer[i] = d.buffer[i]
  BY AddFrameFields, AddedParts
<1>2. a \in Nat /\ b \in Nat
  BY Lengths
<1>3. /\ \A i \in 1..a : d.rows[i].n \in Nat
      /\ \A i \in 1..b : d.buffer[i].n \in Nat
  BY Elements
<1>4. /\ \A i, j \in 1..a : i < j => d.rows[i].n < d.rows[j].n
      /\ \A i \in 1..a : d.rows[i].n <= k
      /\ \A i, j \in 1..b : i < j => d.buffer[i].n < d.buffer[j].n
      /\ \A i \in 1..b : d.buffer[i].n <= k
      /\ \A i \in 1..a, j \in 1..b : d.rows[i].n < d.buffer[j].n
      /\ {d.rows[i].n : i \in 1..a} \union {d.buffer[i].n : i \in 1..b} = (1..k) \ t
      /\ t \subseteq 1..k
  BY DEF Kept, Ascending, NumbersOf
<1>5. Tiled(x) /\ \A e \in 1..Len(x.episodes) : x.episodes[e].to <= Len(x.rows)
  BY <1>1, SameTiled DEF Kept
<1>6. a = Len(x.rows)
  BY <1>1
<1> HIDE DEF a, b, x
<1>7. \A i \in 1..Len(x.buffer) : i \in 1..b \/ i = b + 1
  BY <1>1, <1>2
<1>8. /\ \A i \in 1..a : x.rows[i] = d.rows[i] /\ d.rows[i].n \in Nat /\ d.rows[i].n <= k
      /\ \A i \in 1..b : x.buffer[i] = d.buffer[i] /\ d.buffer[i].n \in Nat /\ d.buffer[i].n <= k
  BY <1>1, <1>3, <1>4
<1>9. Ascending(x, k + 1)
  <2>1. \A i, j \in 1..a : i < j => x.rows[i].n < x.rows[j].n
    BY <1>1, <1>4
  <2>2. \A i \in 1..a : x.rows[i].n <= k + 1
    BY <1>8
  <2> QED
    BY <1>6, <2>1, <2>2 DEF Ascending
<1>10. \A i \in 1..Len(x.buffer) : x.buffer[i].n <= k + 1
  BY <1>1, <1>7, <1>8
<1>11. ASSUME NEW i \in 1..Len(x.buffer), NEW j \in 1..Len(x.buffer), i < j
       PROVE  x.buffer[i].n < x.buffer[j].n
  <2>1. i \in 1..b /\ (j \in 1..b \/ j = b + 1)
    BY <1>1, <1>2, <1>7, <1>11
  <2>2. CASE j \in 1..b
    BY <1>4, <1>8, <1>11, <2>1, <2>2
  <2>3. CASE j = b + 1
    BY <1>1, <1>8, <2>1, <2>3
  <2> QED
    BY <2>1, <2>2, <2>3
<1>12. ASSUME NEW i \in 1..a, NEW j \in 1..Len(x.buffer) PROVE x.rows[i].n < x.buffer[j].n
  <2>1. CASE j \in 1..b
    BY <1>4, <1>8, <2>1
  <2>2. CASE j = b + 1
    BY <1>1, <1>8, <2>2
  <2> QED
    BY <1>7, <2>1, <2>2
<1>13. NumbersOf(x.buffer) = {d.buffer[i].n : i \in 1..b} \union {k + 1}
  <2>1. ASSUME NEW i \in 1..b PROVE \E j \in 1..Len(x.buffer) : x.buffer[j].n = d.buffer[i].n
    <3>1. i \in 1..Len(x.buffer)
      BY <1>1, <1>2
    <3> QED
      BY <1>8, <3>1
  <2>2. \E j \in 1..Len(x.buffer) : x.buffer[j].n = k + 1
    <3>1. b + 1 \in 1..Len(x.buffer)
      BY <1>1, <1>2
    <3> QED
      BY <1>1, <3>1
  <2>3. \A j \in 1..Len(x.buffer) : x.buffer[j].n \in {d.buffer[i].n : i \in 1..b} \union {k + 1}
    BY <1>1, <1>7, <1>8
  <2> DEFINE M == {d.buffer[i].n : i \in 1..b}
  <2>4. NumbersOf(x.buffer) \subseteq M \union {k + 1}
    BY <2>3 DEF NumbersOf
  <2>5. M \subseteq NumbersOf(x.buffer)
    BY <2>1 DEF NumbersOf
  <2>6. k + 1 \in NumbersOf(x.buffer)
    BY <2>2 DEF NumbersOf
  <2> HIDE DEF M
  <2>7. NumbersOf(x.buffer) = M \union {k + 1}
    BY <2>4, <2>5, <2>6
  <2> QED
    BY <2>7 DEF M
<1>14. NumbersOf(x.rows) = {d.rows[i].n : i \in 1..a}
  BY <1>1, <1>6 DEF NumbersOf
<1>15. (1..(k + 1)) \ t = ((1..k) \ t) \union {k + 1} /\ t \subseteq 1..(k + 1)
  <2>1. 1..(k + 1) = (1..k) \union {k + 1} /\ k + 1 \notin 1..k
    OBVIOUS
  <2> QED
    BY <1>4, <2>1
<1>16. NumbersOf(x.rows) \union NumbersOf(x.buffer) = (1..(k + 1)) \ t
  BY <1>4, <1>13, <1>14, <1>15
<1> QED
  BY <1>5, <1>6, <1>9, <1>10, <1>11, <1>12, <1>15, <1>16 DEF Kept, x

\* A discarded attempt leaves, with its numbers.
LEMMA DiscardedKept ==
  ASSUME NEW d \in Dataset, NEW k \in Nat, NEW t, Kept(d, k, t)
  PROVE  Kept(Discarded(d), k, t \union NumbersOf(d.buffer))
<1> DEFINE x == Discarded(d)
<1>1. x.rows = d.rows /\ x.episodes = d.episodes /\ x.buffer = <<>>
  BY DiscardedFields
<1>2. /\ \A i \in 1..Len(d.rows) : d.rows[i].n \in Nat
      /\ \A i \in 1..Len(d.buffer) : d.buffer[i].n \in Nat
  BY Elements
<1>3. NumbersOf(d.rows) \intersect NumbersOf(d.buffer) = {}
  <2>1. ASSUME NEW i \in 1..Len(d.rows), NEW j \in 1..Len(d.buffer)
        PROVE  d.rows[i].n # d.buffer[j].n
    <3> DEFINE y == d.rows[i].n
               z == d.buffer[j].n
    <3>1. y \in Nat /\ z \in Nat /\ y < z
      BY <1>2 DEF Kept
    <3> HIDE DEF y, z
    <3>2. y # z
      BY <3>1
    <3> QED
      BY <3>2 DEF y, z
  <2> QED
    BY <2>1 DEF NumbersOf
<1>4. NumbersOf(d.rows) \union NumbersOf(d.buffer) = (1..k) \ t /\ t \subseteq 1..k
  BY DEF Kept
<1>5. NumbersOf(<<>>) = {}
  BY DEF NumbersOf
<1>6. NumbersOf(x.rows) \union NumbersOf(x.buffer) = (1..k) \ (t \union NumbersOf(d.buffer))
  BY <1>1, <1>3, <1>4, <1>5
<1>7. Ascending(x, k)
  BY <1>1 DEF Kept, Ascending
<1>8. Tiled(x) /\ \A e \in 1..Len(x.episodes) : x.episodes[e].to <= Len(x.rows)
  BY <1>1, SameTiled DEF Kept
<1>9. t \union NumbersOf(d.buffer) \subseteq 1..k
  BY <1>4
<1> HIDE DEF x
<1>10. \A i \in 1..Len(x.buffer) : FALSE
  BY <1>1
<1> QED
  BY <1>6, <1>7, <1>8, <1>9, <1>10 DEF Kept, x

\* A save leaves the numbers of rows and buffer together in the rows, ...
LEMMA SavedNumbers ==
  ASSUME NEW d \in Dataset, Tiled(d)
  PROVE  NumbersOf(Saved(d).rows) = NumbersOf(d.rows) \union NumbersOf(d.buffer)
<1> DEFINE a == Len(d.rows)
           b == Len(d.buffer)
           s == Saved(d)
<1>1. /\ Len(s.rows) = a + b
      /\ \A i \in 1..a : s.rows[i] = d.rows[i]
      /\ \A i \in 1..b : s.rows[a + i] = d.buffer[i]
  BY SavedParts
<1>2. a \in Nat /\ b \in Nat /\ a = Len(d.rows) /\ b = Len(d.buffer)
  BY Lengths
<1> HIDE DEF a, b, s
<1>n. a \in Nat /\ b \in Nat
  BY <1>2
<1>3. \A i \in 1..(a + b) : i \in 1..a \/ \E j \in 1..b : i = a + j
  BY <1>n, SplitIndex
<1>4. /\ \A i \in 1..a : i \in 1..(a + b)
      /\ \A i \in 1..b : a + i \in 1..(a + b)
  BY <1>n
<1>5. ASSUME NEW i \in 1..(a + b) PROVE s.rows[i].n \in NumbersOf(d.rows) \union NumbersOf(d.buffer)
  <2>1. CASE i \in 1..a
    BY <1>1, <1>2, <2>1 DEF NumbersOf
  <2>2. CASE \E j \in 1..b : i = a + j
    <3>1. PICK j \in 1..b : i = a + j
      BY <2>2
    <3>2. s.rows[i].n = d.buffer[j].n
      BY <1>1, <3>1
    <3> QED
      BY <1>2, <3>2 DEF NumbersOf
  <2> QED
    BY <1>3, <2>1, <2>2
<1>6. ASSUME NEW i \in 1..a PROVE \E m \in 1..Len(s.rows) : s.rows[m].n = d.rows[i].n
  BY <1>1, <1>4
<1>7. ASSUME NEW i \in 1..b PROVE \E m \in 1..Len(s.rows) : s.rows[m].n = d.buffer[i].n
  <2>1. a + i \in 1..Len(s.rows) /\ s.rows[a + i] = d.buffer[i]
    BY <1>1, <1>4
  <2> QED
    BY <2>1
<1>8. NumbersOf(s.rows) \subseteq NumbersOf(d.rows) \union NumbersOf(d.buffer)
  BY <1>1, <1>5 DEF NumbersOf
<1>9. NumbersOf(d.rows) \subseteq NumbersOf(s.rows)
  BY <1>2, <1>6 DEF NumbersOf
<1>10. NumbersOf(d.buffer) \subseteq NumbersOf(s.rows)
  BY <1>2, <1>7 DEF NumbersOf
<1> QED
  BY <1>8, <1>9, <1>10 DEF s

\* ... and keeps the same frames.
LEMMA SavedKept ==
  ASSUME NEW d \in Dataset, NEW k, NEW t, Kept(d, k, t) PROVE Kept(Saved(d), k, t)
<1> DEFINE s == Saved(d)
<1>1. Tiled(s) /\ \A e \in 1..Len(s.episodes) : s.episodes[e].to <= Len(s.rows)
  BY SavedTiled DEF Kept
<1>2. Ascending(s, k)
  BY SavedAscending DEF Kept
<1>3. NumbersOf(s.rows) \union {} = (1..k) \ t
  BY SavedNumbers DEF Kept
<1>4. s.buffer = <<>> /\ NumbersOf(<<>>) = {}
  <2>1. NumbersOf(<<>>) = {}
    BY DEF NumbersOf
  <2> QED
    BY <2>1, SavedFields
<1>5. NumbersOf(s.rows) \union NumbersOf(s.buffer) = (1..k) \ t
  BY <1>3, <1>4
<1> HIDE DEF s
<1>6. \A i \in 1..Len(s.buffer) : FALSE
  BY <1>4
<1> QED
  BY <1>1, <1>2, <1>5, <1>6 DEF Kept, s

\* The session is over, ...
Ending == pc \in {"finally", "closing", "final", "down", "raised"}

\* ... and where the buffer has been saved or thrown away.
Emptied == pc \in {"next", "closing", "final", "down", "raised"}

EpisodicInv ==
  /\ data.sized \/ Ending
  /\ data.sized => /\ Kept(data, frames, discarded)
                   /\ OfTake(data, take) /\ Divided(data)
                   /\ Emptied => data.buffer = <<>>

EpisodicQuiet ==
  /\ data'.sized = data.sized
  /\ data'.rows = data.rows /\ data'.buffer = data.buffer /\ data'.episodes = data.episodes
  /\ frames' = frames /\ discarded' = discarded
  /\ take' = take \/ Emptied
  /\ Ending => Ending'
  /\ Emptied' => Emptied \/ ~HasPending(data)

EpisodicRecords ==
  /\ data' = AddFrame(data, NextFrame)
  /\ frames' = frames + 1 /\ discarded' = discarded /\ take' = take
  /\ ~Ending /\ ~Emptied'

EpisodicDiscards ==
  /\ data' = Discarded(data)
  /\ frames' = frames /\ take' = take
  /\ discarded' = discarded \union NumbersOf(data.buffer)
  /\ ~Ending

EpisodicSaves ==
  /\ HasPending(data) /\ data' = Saved(data)
  /\ frames' = frames /\ discarded' = discarded /\ take' = take

EpisodicFails == ~data'.sized /\ Ending'

\* A step of Episodic is of one of the kinds.
LEMMA EpisodicKinds ==
  ASSUME DataType, Episodic!Next
  PROVE  EpisodicQuiet \/ EpisodicRecords \/ EpisodicDiscards \/ EpisodicSaves \/ EpisodicFails
<1>0. data \in Dataset
  BY DEF DataType
<1>r. SaveRaises => ~data'.sized \/ (data' = data /\ ~HasPending(data))
  BY RaisesQuiet
<1> USE EpisodicActions
<1> USE DEF Episodic!hubVars, Episodic!takeVars, Episodic!episodicVars, Episodic!eventVars
<1>1. CASE Episodic!BeginEpisode
  BY <1>1 DEF Episodic!BeginEpisode, EpisodicQuiet, Ending, Emptied
<1>2. CASE Episodic!EndSession \/ Episodic!Look \/ Episodic!EndPolicy \/ Episodic!Raise
  BY <1>2 DEF Episodic!EndSession, Episodic!Look, Episodic!EndPolicy, Episodic!Raise,
              EpisodicQuiet, Ending, Emptied
<1>3. CASE Episodic!Tick
  BY <1>3 DEF Episodic!Tick, RecordFrame, CountFrame, EpisodicQuiet, EpisodicRecords, Ending, Emptied
<1>4. CASE Episodic!SkipReset \/ Episodic!BeginReset \/ Episodic!EndReset \/ Episodic!Accept
  BY <1>4 DEF Episodic!SkipReset, Episodic!BeginReset, Episodic!EndReset, Episodic!Accept,
              EpisodicQuiet, Ending, Emptied
<1>5. CASE Episodic!ClearBuffer
  <2>1. DOMAIN data.buffer = 1..Len(data.buffer)
    BY <1>0 DEF Dataset
  <2>2. data' = Discarded(data) /\ discarded' = discarded \union NumbersOf(data.buffer)
    BY <1>5, <2>1, EpisodicData DEF Episodic!ClearBuffer, NumbersOf
  <2> QED
    BY <1>5, <2>2 DEF Episodic!ClearBuffer, EpisodicDiscards, Ending
<1>6. CASE Episodic!Save
  <2>1. CASE SaveEpisode /\ pc' = "next"
    BY <1>6, <2>1 DEF Episodic!Save, SaveEpisode, EpisodicSaves
  <2>2. CASE SaveRaises /\ pc' = "finally"
    BY <1>6, <1>r, <2>2 DEF Episodic!Save, EpisodicQuiet, EpisodicFails, Ending, Emptied
  <2> QED
    BY <1>6, <2>1, <2>2 DEF Episodic!Save
<1>7. CASE Episodic!SaveTail
  <2>1. CASE SaveEpisode
    BY <1>7, <2>1 DEF Episodic!SaveTail, SaveEpisode, EpisodicSaves
  <2>2. CASE SaveRaises
    BY <1>7, <1>r, <2>2 DEF Episodic!SaveTail, EpisodicQuiet, EpisodicFails, Ending, Emptied
  <2> QED
    BY <1>7, <2>1, <2>2 DEF Episodic!SaveTail
<1>8. CASE Close /\ UNCHANGED Episodic!episodicVars
  BY <1>0, <1>8, DiscardedFields DEF Close, takeVars, EpisodicQuiet, Ending, Emptied
<1>9. CASE FinalPush(TRUE) /\ UNCHANGED Episodic!episodicVars
  BY <1>9 DEF FinalPush, takeVars, EpisodicQuiet, Ending, Emptied
<1>10. CASE Episodic!Keys
  BY <1>10 DEF Episodic!Keys, Episodic!RightArrow, Episodic!LeftArrow, Episodic!Esc,
               Episodic!recorderVars, EpisodicQuiet, Ending, Emptied
<1>11. CASE Over /\ UNCHANGED Episodic!episodicVars
  BY <1>11 DEF Over, recorderVars, EpisodicQuiet, Ending, Emptied
<1>12. CASE Episodic!Rerecord \/ Episodic!LowerExit
  BY <1>12 DEF Episodic!Rerecord, Episodic!LowerExit, EpisodicQuiet, Ending, Emptied
<1> QED
  BY <1>1, <1>2, <1>3, <1>4, <1>5, <1>6, <1>7, <1>8, <1>9, <1>10, <1>11, <1>12
     DEF Episodic!Next, Episodic!Strategy

\* A step of Episodic does to the dataset what Moves allows.
LEMMA EpisodicMoves == ASSUME DataType, Episodic!Next PROVE Moves
<1> USE EpisodicActions
<1> USE DEF Episodic!hubVars, Episodic!takeVars, Episodic!episodicVars, Episodic!eventVars
<1>1. CASE Episodic!BeginEpisode \/ Episodic!EndSession \/ Episodic!Look \/ Episodic!EndPolicy
  BY <1>1 DEF Episodic!BeginEpisode, Episodic!EndSession, Episodic!Look, Episodic!EndPolicy, Moves
<1>2. CASE Episodic!Raise \/ Episodic!SkipReset \/ Episodic!BeginReset \/ Episodic!EndReset
           \/ Episodic!Accept
  BY <1>2 DEF Episodic!Raise, Episodic!SkipReset, Episodic!BeginReset, Episodic!EndReset,
              Episodic!Accept, Moves
<1>3. CASE Episodic!Tick
  BY <1>3 DEF Episodic!Tick, RecordFrame, CountFrame, Moves
<1>4. CASE Episodic!Rerecord \/ Episodic!LowerExit \/ Episodic!ClearBuffer
  BY <1>4, EpisodicData DEF Episodic!Rerecord, Episodic!LowerExit, Episodic!ClearBuffer, Moves
<1>5. CASE Episodic!Save \/ Episodic!SaveTail
  BY <1>5 DEF Episodic!Save, Episodic!SaveTail, SaveEpisode, SaveRaises, Moves
<1>6. CASE Close \/ FinalPush(TRUE)
  BY <1>6 DEF Close, FinalPush, takeVars, Moves
<1>7. CASE Episodic!Keys
  BY <1>7 DEF Episodic!Keys, Episodic!RightArrow, Episodic!LeftArrow, Episodic!Esc,
              Episodic!recorderVars, Moves
<1>8. CASE Over
  BY <1>8 DEF Over, recorderVars, Moves
<1> QED
  BY <1>1, <1>2, <1>3, <1>4, <1>5, <1>6, <1>7, <1>8 DEF Episodic!Next, Episodic!Strategy

\* Every step of Episodic keeps its invariant, a failed save and every key included.
LEMMA EpisodicStep ==
  ASSUME DataType, EpisodicInv, Episodic!Next PROVE EpisodicInv'
<1>0. /\ data \in Dataset /\ frames \in Nat /\ take \in Nat
      /\ NextFrame \in Frame /\ NextFrame.n = frames + 1 /\ NextFrame.take = take
  BY NextFrameFields DEF DataType
<1>k. EpisodicQuiet \/ EpisodicRecords \/ EpisodicDiscards \/ EpisodicSaves \/ EpisodicFails
  BY EpisodicKinds
<1>i. /\ data.sized \/ Ending
      /\ data.sized => /\ Kept(data, frames, discarded) /\ OfTake(data, take) /\ Divided(data)
                       /\ Emptied => data.buffer = <<>>
  BY DEF EpisodicInv
<1>1. CASE EpisodicQuiet
  <2>1. data'.sized \/ Ending'
    BY <1>1, <1>i DEF EpisodicQuiet
  <2> SUFFICES ASSUME data'.sized
               PROVE  /\ Kept(data', frames', discarded') /\ OfTake(data', take') /\ Divided(data')
                      /\ Emptied' => data'.buffer = <<>>
    BY <2>1 DEF EpisodicInv
  <2>2. /\ data.sized /\ data'.rows = data.rows /\ data'.buffer = data.buffer
        /\ data'.episodes = data.episodes /\ frames' = frames /\ discarded' = discarded
    BY <1>1 DEF EpisodicQuiet
  <2>3. Kept(data', frames', discarded')
    BY <1>i, <2>2, SameKept
  <2>4. Divided(data')
    BY <1>i, <2>2, SameDivided
  <2>5. OfTake(data', take')
    <3>1. CASE take' = take
      BY <1>i, <2>2, <3>1 DEF OfTake
    <3>2. CASE Emptied
      BY <1>i, <2>2, <3>2 DEF OfTake
    <3> QED
      BY <1>1, <3>1, <3>2 DEF EpisodicQuiet
  <2>6. Emptied' => data'.buffer = <<>>
    BY <1>1, <1>i, <2>2 DEF EpisodicQuiet, HasPending
  <2> QED
    BY <2>3, <2>4, <2>5, <2>6
<1>2. CASE EpisodicRecords
  <2>1. data' = AddFrame(data, NextFrame) /\ data.sized /\ ~Emptied'
        /\ frames' = frames + 1 /\ discarded' = discarded /\ take' = take
    BY <1>2, <1>i DEF EpisodicRecords
  <2>2. data'.sized /\ data'.rows = data.rows /\ data'.episodes = data.episodes
    BY <1>0, <2>1, AddFrameFields
  <2>3. Kept(data', frames', discarded')
    BY <1>0, <1>i, <2>1, AddedKept
  <2>4. OfTake(data', take')
    BY <1>0, <1>i, <2>1, AddedOfTake
  <2>5. Divided(data')
    BY <1>i, <2>1, <2>2, SameDivided
  <2> QED
    BY <2>1, <2>2, <2>3, <2>4, <2>5 DEF EpisodicInv
<1>3. CASE EpisodicDiscards
  <2>1. /\ data' = Discarded(data) /\ data.sized /\ frames' = frames /\ take' = take
        /\ discarded' = discarded \union NumbersOf(data.buffer)
    BY <1>3, <1>i DEF EpisodicDiscards
  <2>2. data'.sized /\ data'.rows = data.rows /\ data'.episodes = data.episodes /\ data'.buffer = <<>>
    BY <1>0, <2>1, DiscardedFields
  <2>3. Kept(data', frames', discarded')
    BY <1>0, <1>i, <2>1, DiscardedKept
  <2>4. Divided(data')
    BY <1>i, <2>1, <2>2, SameDivided
  <2> QED
    BY <2>2, <2>3, <2>4 DEF EpisodicInv, OfTake
<1>4. CASE EpisodicSaves
  <2>1. /\ HasPending(data) /\ data' = Saved(data) /\ data.sized
        /\ frames' = frames /\ discarded' = discarded /\ take' = take
    BY <1>4 DEF EpisodicSaves, HasPending
  <2>2. data'.sized /\ data'.buffer = <<>>
    BY <1>0, <2>1, SavedFields
  <2>3. Kept(data', frames', discarded')
    BY <1>0, <1>i, <2>1, SavedKept
  <2>4. Divided(data')
    <3>1. /\ Tiled(data) /\ \A e \in 1..Len(data.episodes) : data.episodes[e].to <= Len(data.rows)
          /\ Divided(data) /\ OfTake(data, take)
      BY <1>i, <2>1 DEF Kept
    <3> QED
      BY <1>0, <2>1, <3>1, SavedDivided
  <2> QED
    BY <2>2, <2>3, <2>4 DEF EpisodicInv, OfTake
<1>5. CASE EpisodicFails
  BY <1>5 DEF EpisodicFails, EpisodicInv
<1> QED
  BY <1>k, <1>1, <1>2, <1>3, <1>4, <1>5

\* A step of Episodic does to the Hub what HubStep asks for: only the final push uploads.
LEMMA EpisodicHub ==
  ASSUME DataType, Episodic!Next, strategy = "episodic", UNCHANGED strategy
  PROVE  HubQuiet \/ HubSaves \/ HubPushes
<1>0. data \in Dataset /\ Owed /\ Owed' /\ (Wanted <=> TRUE)
  BY DEF DataType, Owed, Wanted
<1>f. NextFrame \in Frame
  BY NextFrameFields DEF DataType
<1> USE EpisodicActions
<1> USE DEF Episodic!hubVars, Episodic!takeVars, Episodic!episodicVars, Episodic!eventVars
<1>1. CASE Episodic!BeginEpisode \/ Episodic!EndSession \/ Episodic!Look \/ Episodic!EndPolicy
  BY <1>0, <1>1 DEF Episodic!BeginEpisode, Episodic!EndSession, Episodic!Look, Episodic!EndPolicy,
                    HubQuiet
<1>2. CASE Episodic!Raise \/ Episodic!SkipReset \/ Episodic!BeginReset \/ Episodic!EndReset
           \/ Episodic!Accept
  BY <1>0, <1>2 DEF Episodic!Raise, Episodic!SkipReset, Episodic!BeginReset, Episodic!EndReset,
              Episodic!Accept, HubQuiet
<1>3. CASE Episodic!Tick
  <2>1. data'.episodes = data.episodes
    BY <1>0, <1>3, <1>f, AddFrameFields DEF Episodic!Tick, RecordFrame
  <2> QED
    BY <1>0, <1>3, <2>1 DEF Episodic!Tick, HubQuiet
<1>4. CASE Episodic!ClearBuffer
  <2>1. data'.episodes = data.episodes
    BY <1>0, <1>4, EpisodicData, DiscardedFields DEF Episodic!ClearBuffer
  <2> QED
    BY <1>0, <1>4, <2>1 DEF Episodic!ClearBuffer, HubQuiet
<1>5. CASE Episodic!Save \/ Episodic!SaveTail
  BY <1>0, <1>5 DEF Episodic!Save, Episodic!SaveTail, HubSaves
<1>6. CASE Close
  BY <1>0, <1>6, DiscardedFields DEF Close, hubVars, HubQuiet
<1>7. CASE FinalPush(TRUE)
  BY <1>0, <1>7 DEF FinalPush, HubPushes
<1>8. CASE Episodic!Keys
  BY <1>0, <1>8 DEF Episodic!Keys, Episodic!RightArrow, Episodic!LeftArrow, Episodic!Esc,
              Episodic!recorderVars, HubQuiet
<1>9. CASE Over
  BY <1>0, <1>9 DEF Over, recorderVars, HubQuiet
<1>10. CASE Episodic!Rerecord \/ Episodic!LowerExit
  BY <1>0, <1>10 DEF Episodic!Rerecord, Episodic!LowerExit, HubQuiet
<1> QED
  BY <1>1, <1>2, <1>3, <1>4, <1>5, <1>6, <1>7, <1>8, <1>9, <1>10
     DEF Episodic!Next, Episodic!Strategy
------------------------------------------------------------------------------
(* What the invariant of Episodic gives *)

\* Cardinality is the same in the instance, ...
LEMMA EpisodicCardinality == ASSUME NEW s PROVE Episodic!Cardinality(s) = Cardinality(s)
BY DEF Episodic!Cardinality, Cardinality

\* ... and so are the operators of the properties.
LEMMA EpisodicCopies ==
  ASSUME NEW d, NEW s
  PROVE  /\ Episodic!Tiled(d) <=> Tiled(d)
         /\ \A e : Episodic!Episode(d, e) = Episode(d, e)
         /\ Episodic!Numbers(s) = Numbers(s)
         /\ Episodic!AreKept(s) <=> AreKept(s)
         /\ Episodic!TakesOf(s) = TakesOf(s)
BY EpisodicData DEF Episodic!Tiled, Tiled, Episodic!Episode, Episode, Episodic!Numbers, Numbers,
                    Episodic!AreKept, AreKept, Episodic!TakesOf, TakesOf

\* The rows and the buffer are the rows that a save would leave.
LEMMA KeptNumbers ==
  ASSUME DataType, Kept(data, frames, discarded)
  PROVE  Tiled(data) /\ AreKept(Numbers(data.rows \o data.buffer))
<1> DEFINE s == data.rows \o data.buffer
           b == Len(s)
           numbers == Numbers(s)
<1>1. data \in Dataset /\ Tiled(data)
  BY DEF DataType, Kept
<1>2. s = Saved(data).rows /\ Kept(Saved(data), frames, discarded)
  BY <1>1, SavedFields, SavedKept
<1>3. Saved(data).buffer = <<>>
  BY <1>1, SavedFields
<1>4. numbers = [i \in 1..b |-> s[i].n]
  BY DEF Numbers
<1>5. \A i, j \in 1..b : i < j => s[i].n < s[j].n
  BY <1>2 DEF Kept, Ascending
<1>6. NumbersOf(s) = (1..frames) \ discarded
  <2>1. NumbersOf(<<>>) = {}
    BY DEF NumbersOf
  <2> QED
    BY <1>2, <1>3, <2>1 DEF Kept
<1>7. NumbersOf(s) = {s[i].n : i \in 1..b}
  BY DEF NumbersOf
<1> HIDE DEF numbers, s, b
<1>8. DOMAIN numbers = 1..b /\ \A i \in 1..b : numbers[i] = s[i].n
  BY <1>4
<1>9. {numbers[i] : i \in DOMAIN numbers} = {s[i].n : i \in 1..b}
  BY <1>8
<1>10. \A i, j \in DOMAIN numbers : i < j => numbers[i] < numbers[j]
  BY <1>5, <1>8
<1>11. AreKept(numbers)
  BY <1>6, <1>7, <1>9, <1>10 DEF AreKept
<1> QED
  BY <1>1, <1>11 DEF numbers, s

\* Episodic keeps the frames not thrown away, each once and in order.
LEMMA EpisodicFrames == ASSUME DataType, EpisodicInv PROVE Episodic!FramesConserved
<1> SUFFICES ASSUME data.sized PROVE Tiled(data) /\ AreKept(Numbers(data.rows \o data.buffer))
  BY EpisodicCopies DEF Episodic!FramesConserved
<1> QED
  BY KeptNumbers DEF EpisodicInv

\* An episode of Episodic is one attempt.
LEMMA EpisodicOneTake == ASSUME DataType, EpisodicInv PROVE Episodic!OneTake
<1> SUFFICES ASSUME data.sized, NEW e \in DOMAIN data.episodes
             PROVE  Episodic!Cardinality(Episodic!TakesOf(Episodic!Episode(data, e))) = 1
  BY DEF Episodic!OneTake
<1>1. data \in Dataset /\ e \in 1..Len(data.episodes)
  BY DEF DataType, Dataset
<1>2. Divided(data) /\ \A i \in 1..Len(data.episodes) : data.episodes[i].to <= Len(data.rows)
  BY DEF EpisodicInv, Kept
<1>3. Cardinality(TakesOf(Episode(data, e))) = 1
  BY <1>1, <1>2, DividedGivesOne
<1> QED
  BY <1>3, EpisodicCardinality, EpisodicCopies
------------------------------------------------------------------------------
(* All strategies *)

SentryInv == TypeOK /\ CountInv /\ TakeInv /\ PushInv /\ TailInv

OthersInv == DataType /\ HubInv /\ poisoned = FALSE

DaggerInv(c) == DaggerCount /\ SettledInv(c) /\ WholeInv

AnyInv ==
  \/ strategy = "sentry" /\ SentryInv
  \/ strategy = "corrections" /\ OthersInv /\ DaggerInv(FALSE)
  \/ strategy = "everything" /\ OthersInv /\ DaggerInv(TRUE)
  \/ strategy = "highlight" /\ OthersInv /\ HighlightType /\ HighlightInv
  \/ strategy = "episodic" /\ OthersInv /\ EpisodicInv
------------------------------------------------------------------------------
(* Initial states *)

\* A new dataset on a Hub without episodes is current.
LEMMA InitOthers ==
  ASSUME data = NewDataset, hub = Contents(NewDataset), uploading = None, frames = 0, take = 0,
         pc # "down"
  PROVE  DataType /\ HubInv
<1>1. NewDataset \in Dataset /\ NewDataset.episodes = <<>> /\ Contents(NewDataset).episodes = <<>>
  BY DEF NewDataset, Dataset, Contents
<1> QED
  BY <1>1 DEF DataType, HubInv

\* DAgger, ...
LEMMA InitDagger ==
  ASSUME NEW c \in BOOLEAN, Dagger(c)!Init, NoSentry PROVE OthersInv /\ DaggerInv(c)
<1>1. Dagger(c)!NewDataset = NewDataset
  BY DEF Dagger!NewDataset, NewDataset
<1>2. /\ data = NewDataset /\ hub = Contents(NewDataset) /\ uploading = None /\ frames = 0 /\ take = 0
      /\ pc = "top" /\ phase = "autonomous" /\ human = {} /\ poisoned = FALSE
  BY <1>1, DaggerData DEF Dagger!Init, Dagger!RecorderInit, NoSentry
<1>3. OthersInv
  BY <1>2, InitOthers DEF OthersInv
<1>4. DaggerCount
  BY <1>2, NewCounted DEF DaggerCount
<1>5. NewDataset.buffer = <<>> /\ NewDataset.rows = <<>> /\ NewDataset.episodes = <<>>
  BY DEF NewDataset
<1>6. SettledInv(c)
  BY <1>2, <1>5 DEF SettledInv, OfTake, Divided
<1>7. WholeInv
  BY <1>2, <1>5 DEF WholeInv, RowsBelow, BufferBelow, Foreign, Apart
<1> QED
  BY <1>3, <1>4, <1>6, <1>7 DEF DaggerInv

\* ... Highlight ...
LEMMA InitHighlight ==
  ASSUME Highlight!Init, NoSentry PROVE OthersInv /\ HighlightType /\ HighlightInv
<1>1. Highlight!NewDataset = NewDataset
  BY DEF Highlight!NewDataset, NewDataset
<1>2. /\ data = NewDataset /\ hub = Contents(NewDataset) /\ uploading = None /\ frames = 0 /\ take = 0
      /\ pc = "loop" /\ ring.buffer = <<>> /\ live = FALSE /\ poisoned = FALSE
  BY <1>1, HighlightData
     DEF Highlight!Init, Highlight!RecorderInit, Highlight!EmptyRing, NoSentry
<1>3. OthersInv
  BY <1>2, InitOthers DEF OthersInv
<1>4. HighlightType
  <2>1. <<>> \in Seq(Frame)
    OBVIOUS
  <2> QED
    BY <1>2, <1>3, <2>1 DEF OthersInv, HighlightType
<1>5. HighlightInv
  BY <1>2, NewStretched DEF HighlightInv, Behind
<1> QED
  BY <1>3, <1>4, <1>5

\* ... and Episodic begin with their invariants.
LEMMA InitEpisodic == ASSUME Episodic!Init, NoSentry PROVE OthersInv /\ EpisodicInv
<1>1. Episodic!NewDataset = NewDataset
  BY DEF Episodic!NewDataset, NewDataset
<1>2. /\ data = NewDataset /\ hub = Contents(NewDataset) /\ uploading = None /\ frames = 0 /\ take = 0
      /\ discarded = {} /\ pc = "next" /\ poisoned = FALSE
  BY <1>1, EpisodicData DEF Episodic!Init, Episodic!RecorderInit, NoSentry
<1>3. OthersInv
  BY <1>2, InitOthers DEF OthersInv
<1>4. NewDataset.buffer = <<>> /\ NewDataset.episodes = <<>> /\ NewDataset.sized
  BY DEF NewDataset
<1>5. EpisodicInv
  BY <1>2, <1>4, NewKept DEF EpisodicInv, OfTake, Divided
<1> QED
  BY <1>3, <1>5

\* Whichever strategy is chosen, it begins with its invariant.
LEMMA AnyInitInv == AnyInit => AnyInv
<1> SUFFICES ASSUME AnyInit PROVE AnyInv
  OBVIOUS
<1>1. CASE strategy = "sentry" /\ Init
  BY <1>1, InitType, InitCount, InitTake, InitPush, InitTail DEF AnyInv, SentryInv
<1>2. CASE strategy = "corrections" /\ Dagger(FALSE)!Init /\ NoSentry
  <2>1. OthersInv /\ DaggerInv(FALSE)
    BY <1>2, InitDagger
  <2> QED
    BY <1>2, <2>1 DEF AnyInv
<1>3. CASE strategy = "everything" /\ Dagger(TRUE)!Init /\ NoSentry
  <2>1. OthersInv /\ DaggerInv(TRUE)
    BY <1>3, InitDagger
  <2> QED
    BY <1>3, <2>1 DEF AnyInv
<1>4. CASE strategy = "highlight" /\ Highlight!Init /\ NoSentry
  BY <1>4, InitHighlight DEF AnyInv
<1>5. CASE strategy = "episodic" /\ Episodic!Init /\ NoSentry
  BY <1>5, InitEpisodic DEF AnyInv
<1> QED
  BY <1>1, <1>2, <1>3, <1>4, <1>5 DEF AnyInit
------------------------------------------------------------------------------
(* Steps *)

\* Where nothing changes the invariant stands.
LEMMA Stutter == AnyInv /\ UNCHANGED allVars => AnyInv'
<1> SUFFICES ASSUME AnyInv, UNCHANGED allVars PROVE AnyInv'
  OBVIOUS
<1>1. /\ data' = data /\ hub' = hub /\ uploading' = uploading /\ needsPush' = needsPush /\ pc' = pc
      /\ frames' = frames /\ take' = take /\ discarded' = discarded /\ strategy' = strategy
      /\ poisoned' = poisoned /\ phase' = phase /\ human' = human /\ ring' = ring /\ live' = live
      /\ UNCHANGED vars
  BY DEF allVars, recorderVars, ofSentry, ofDagger, ofHighlight, vars, sentryVars
<1>2. SentryInv => SentryInv'
  BY <1>1, StepType, StepCount, StepTake, StepPush, StepTail DEF SentryInv
<1>3. OthersInv => OthersInv'
  BY <1>1 DEF OthersInv, DataType, HubInv, Owed
<1>4. ASSUME NEW c \in BOOLEAN PROVE DaggerInv(c) => DaggerInv(c)'
  BY <1>1 DEF DaggerInv, DaggerCount, SettledInv, Settled, InLoop, WholeInv
<1>5. HighlightType /\ HighlightInv => (HighlightType /\ HighlightInv)'
  BY <1>1 DEF HighlightType, DataType, HighlightInv, Behind
<1>6. EpisodicInv => EpisodicInv'
  BY <1>1 DEF EpisodicInv, Ending, Emptied
<1>7. DaggerInv(FALSE) => DaggerInv(FALSE)'
  BY <1>4
<1>8. DaggerInv(TRUE) => DaggerInv(TRUE)'
  BY <1>4
<1> QED
  BY <1>1, <1>2, <1>3, <1>5, <1>6, <1>7, <1>8 DEF AnyInv

\* A step of DAgger keeps all of its invariant.
LEMMA DaggerStepInv ==
  ASSUME NEW c \in BOOLEAN, OthersInv, DaggerInv(c), Dagger(c)!Next, DaggerRuns,
         UNCHANGED strategy, UNCHANGED poisoned
  PROVE  OthersInv' /\ DaggerInv(c)'
<1>1. DataType'
  BY DaggerMoves, MovesType DEF OthersInv
<1>2. HubInv'
  BY DaggerHub, HubStep DEF OthersInv
<1>3. DaggerCount' /\ SettledInv(c)' /\ WholeInv'
  BY DaggerStepCount, DaggerStepSettled, DaggerStepWhole DEF OthersInv, DaggerInv
<1> QED
  BY <1>1, <1>2, <1>3 DEF OthersInv, DaggerInv

\* A step of whichever strategy keeps its invariant.
LEMMA AnyStep == AnyInv /\ [AnyNext]_allVars => AnyInv'
<1> SUFFICES ASSUME AnyInv, AnyNext PROVE AnyInv'
  BY Stutter
<1>0. strategy' = strategy
  BY DEF AnyNext
<1>1. CASE strategy = "sentry"
  <2>1. Next /\ SentryInv
    BY <1>1 DEF AnyNext, AnyInv
  <2>2. SentryInv'
    BY <2>1, StepType, StepCount, StepTake, StepPush, StepTail DEF SentryInv
  <2> QED
    BY <1>0, <1>1, <2>2 DEF AnyInv
<1>2. CASE strategy = "corrections"
  <2>1. Dagger(FALSE)!Next /\ UNCHANGED poisoned /\ OthersInv /\ DaggerInv(FALSE)
    BY <1>2 DEF AnyNext, AnyInv, ofSentry
  <2>2. OthersInv' /\ DaggerInv(FALSE)'
    BY <1>0, <1>2, <2>1, DaggerStepInv DEF DaggerRuns
  <2> QED
    BY <1>0, <1>2, <2>2 DEF AnyInv
<1>3. CASE strategy = "everything"
  <2>1. Dagger(TRUE)!Next /\ UNCHANGED poisoned /\ OthersInv /\ DaggerInv(TRUE)
    BY <1>3 DEF AnyNext, AnyInv, ofSentry
  <2>2. OthersInv' /\ DaggerInv(TRUE)'
    BY <1>0, <1>3, <2>1, DaggerStepInv DEF DaggerRuns
  <2> QED
    BY <1>0, <1>3, <2>2 DEF AnyInv
<1>4. CASE strategy = "highlight"
  <2>1. Highlight!Next /\ UNCHANGED poisoned /\ OthersInv /\ HighlightType /\ HighlightInv
    BY <1>4 DEF AnyNext, AnyInv, ofSentry
  <2>2. HighlightType' /\ HighlightInv'
    BY <2>1, HighlightTypeStep, HighlightStep
  <2>3. HubInv'
    BY <1>0, <1>4, <2>1, HighlightHub, HubStep DEF OthersInv
  <2>4. OthersInv'
    BY <2>1, <2>2, <2>3 DEF OthersInv, HighlightType
  <2> QED
    BY <1>0, <1>4, <2>2, <2>4 DEF AnyInv
<1>5. CASE strategy = "episodic"
  <2>1. Episodic!Next /\ UNCHANGED poisoned /\ OthersInv /\ EpisodicInv
    BY <1>5 DEF AnyNext, AnyInv, ofSentry
  <2>2. EpisodicInv' /\ DataType'
    BY <2>1, EpisodicStep, EpisodicMoves, MovesType DEF OthersInv
  <2>3. HubInv'
    BY <1>0, <1>5, <2>1, EpisodicHub, HubStep DEF OthersInv
  <2> QED
    BY <1>0, <1>5, <2>1, <2>2, <2>3 DEF AnyInv, OthersInv
<1> QED
  BY <1>1, <1>2, <1>3, <1>4, <1>5 DEF AnyInv

\* The invariant of the whole: whatever strategy was chosen, its part holds in every state.
THEOREM AnyInvHolds == AnySpec => []AnyInv
BY AnyInitInv, AnyStep, PTL DEF AnySpec
------------------------------------------------------------------------------
(* The properties of the run *)

\* As long as no save fails, Sentry, DAgger and Episodic keep every frame recorded and not thrown
\* away, once and in order, in the episodes and in the one under way (save_episode(),
\* clear_episode_buffer()).
THEOREM FramesAreKept == AnySpec => []FramesKept
<1>1. AnyInv => FramesKept
  <2> SUFFICES ASSUME AnyInv PROVE FramesKept
    OBVIOUS
  <2>1. strategy = "sentry" => FramesConserved
    BY CountGivesFrames DEF AnyInv, SentryInv
  <2>2. DaggerRuns => DataType /\ DaggerCount
    BY DEF AnyInv, DaggerRuns, OthersInv, DaggerInv
  <2>3. DaggerRuns => Dagger(FALSE)!FramesConserved
    BY <2>2, DaggerFrames
  <2>4. strategy = "episodic" => DataType /\ EpisodicInv
    BY DEF AnyInv, OthersInv
  <2>5. strategy = "episodic" => Episodic!FramesConserved
    BY <2>4, EpisodicFrames
  <2> QED
    BY <2>1, <2>3, <2>5 DEF FramesKept
<1> QED
  BY <1>1, AnyInvHolds, PTL

\* An episode of Sentry is of one segment, one of Episodic of one attempt: the finally clause of a
\* segment and the re-record key leave nothing for the next.
THEOREM TakesStayApart == AnySpec => []TakesApart
<1>1. AnyInv => TakesApart
  <2> SUFFICES ASSUME AnyInv PROVE TakesApart
    OBVIOUS
  <2>1. strategy = "sentry" => OneTake
    BY TakeGivesOne DEF AnyInv, SentryInv
  <2>2. strategy = "episodic" => DataType /\ EpisodicInv
    BY DEF AnyInv, OthersInv
  <2>3. strategy = "episodic" => Episodic!OneTake
    BY <2>2, EpisodicOneTake
  <2> QED
    BY <2>1, <2>3 DEF TakesApart
<1> QED
  BY <1>1, AnyInvHolds, PTL

\* DAgger never divides a correction: neither the rotation of episodes nor a late transition saves
\* the buffer in the middle of one (_run_continuous(), _run_corrections_only()).
THEOREM CorrectionsStayWhole == AnySpec => []CorrectionWhole
<1>1. AnyInv => CorrectionWhole
  <2> SUFFICES ASSUME AnyInv PROVE CorrectionWhole
    OBVIOUS
  <2>1. strategy = "corrections" => DataType /\ DaggerCount /\ SettledInv(FALSE) /\ WholeInv
    BY DEF AnyInv, OthersInv, DaggerInv
  <2>2. strategy = "everything" => DataType /\ DaggerCount /\ SettledInv(TRUE) /\ WholeInv
    BY DEF AnyInv, OthersInv, DaggerInv
  <2>3. strategy = "corrections" => Dagger(FALSE)!CorrectionWhole
    BY <2>1, DaggerWhole
  <2>4. strategy = "everything" => Dagger(TRUE)!CorrectionWhole
    BY <2>2, DaggerWhole
  <2> QED
    BY <2>3, <2>4 DEF CorrectionWhole
<1> QED
  BY <1>1, AnyInvHolds, PTL

\* Highlight: the frames of the ring and the live frames behind them are one stretch without a gap,
\* and nothing is in two episodes, however the ring evicts (RolloutRingBuffer.append(), drain()).
THEOREM EpisodesAreStretches == AnySpec => []Stretches
<1>1. AnyInv => Stretches
  BY HighlightStretches DEF AnyInv, Stretches
<1> QED
  BY <1>1, AnyInvHolds, PTL

\* No strategy ends with frames in the buffer unless a save failed: each finally clause saves what
\* was being recorded.
THEOREM TailIsSaved == AnySpec => []TailSaved
<1>1. AnyInv => TailSaved
  <2> SUFFICES ASSUME AnyInv, pc = "down", data.sized PROVE data.buffer = <<>>
    BY DEF TailSaved
  <2>1. CASE SentryInv
    BY <2>1 DEF SentryInv, TailInv
  <2>2. CASE DaggerInv(FALSE)
    BY <2>2 DEF DaggerInv, SettledInv, Settled
  <2>3. CASE DaggerInv(TRUE)
    BY <2>3 DEF DaggerInv, SettledInv, Settled
  <2>4. CASE HighlightInv
    BY <2>4 DEF HighlightInv, Behind
  <2>5. CASE EpisodicInv
    BY <2>5 DEF EpisodicInv, Emptied
  <2> QED
    BY <2>1, <2>2, <2>3, <2>4, <2>5 DEF AnyInv
<1> QED
  BY <1>1, AnyInvHolds, PTL

\* At the end of the program the Hub has every episode, unless a save or the final push failed:
\* _needs_push is never lowered by a push that missed an episode.
THEOREM HubIsCurrent == AnySpec => []HubCurrent
<1>1. AnyInv => HubCurrent
  BY DEF AnyInv, SentryInv, PushInv, OthersInv, HubInv, HubCurrent, Unbroken
<1> QED
  BY <1>1, AnyInvHolds, PTL

\* No upload begins once the dataset is poisoned, for Sentry queued pushes included; the other
\* strategies never poison it.
THEOREM PoisonHoldsForAll == AnySpec => PoisonHolds
<1>1. AnyInv /\ [AnyNext]_allVars => [NoUploadIfPoisoned]_vars
  <2> SUFFICES ASSUME AnyInv, [AnyNext]_allVars PROVE [NoUploadIfPoisoned]_vars
    OBVIOUS
  <2>1. CASE UNCHANGED allVars
    BY <2>1 DEF allVars, recorderVars, ofSentry, vars, sentryVars
  <2>2. CASE strategy = "sentry" /\ Next
    BY <2>2, StepPoison
  <2>3. CASE OthersInv
    BY <2>3 DEF OthersInv, NoUploadIfPoisoned
  <2> QED
    BY <2>1, <2>2, <2>3 DEF AnyNext, AnyInv
<1> QED
  BY <1>1, AnyInvHolds, PTL DEF AnySpec, PoisonHolds
=============================================================================
