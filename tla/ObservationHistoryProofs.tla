------------------------ MODULE ObservationHistoryProofs ------------------------
(***************************************************************************)
(* Theorems about ObservationHistory, for any windows that look at the     *)
(* current frame and back, and any number of frames and episodes.          *)
(*                                                                         *)
(* HistoryInv says that a deque holds copies of the latest frames of the   *)
(* episode, as many as there are or as it has room for.  A window is then  *)
(* computed slot by slot; that the room suffices for it rests on the       *)
(* deque's length being one more than the largest offset back.             *)
(*                                                                         *)
(* The progress labels of an episode (ProgressBalanced, which is stated in *)
(* MCObservationHistory, hence the EXTENDS) are arithmetic: First(bin)     *)
(* is the first frame of a bin, a label is the number of bins begun, and   *)
(* two successive First are a bin's share of the frames apart.             *)
(***************************************************************************)
EXTENDS MCObservationHistory, WellFoundedInduction, FiniteSetTheorems, TLAPS

-----------------------------------------------------------------------------
(* The length of the deque.                                                *)

LEMMA LeastNumber ==
  ASSUME NEW T \in SUBSET Nat, T # {}
  PROVE  \E x \in T : \A y \in T : x <= y
<1>1. \E x \in T : \A y \in T : ~(<<y, x>> \in OpToRel(<, Nat))
  BY NatLessThanWellFounded, WFMin
<1>2. \A x, y \in T : <<y, x>> \in OpToRel(<, Nat) <=> y < x
  BY DEF OpToRel
<1>3. \A x, y \in T : ~(y < x) => x <= y
  OBVIOUS
<1> QED BY <1>1, <1>2, <1>3

\* A sequence of numbers has a least entry: the first k have, for every k.
LEMMA LeastIndex ==
  ASSUME NEW n \in Nat, n >= 1, NEW f \in [1..n -> Int]
  PROVE  \E m \in 1..n : \A i \in 1..n : f[m] <= f[i]
<1> DEFINE HasLeast(k) == \E m \in 1..k : \A i \in 1..k : f[m] <= f[i]
<1>1. HasLeast(1)
  <2>1. 1 \in 1..1 /\ 1 \in 1..n /\ f[1] \in Int
    OBVIOUS
  <2>2. \A i \in 1..1 : f[1] <= f[i]
    BY <2>1
  <2> QED BY <2>1, <2>2
<1>2. ASSUME NEW k \in 1..n, k # 1, HasLeast(k - 1) PROVE HasLeast(k)
  <2>1. k - 1 \in Nat /\ k \in 1..k /\ \A i \in 1..k : i \in 1..(k - 1) \/ i = k
    BY <1>2
  <2>2. \A i \in 1..(k - 1) : i \in 1..k
    BY <2>1
  <2>3. \A i \in 1..k : f[i] \in Int
    OBVIOUS
  <2>4. PICK m \in 1..(k - 1) : \A i \in 1..(k - 1) : f[m] <= f[i]
    BY <1>2
  <2>5. CASE f[m] <= f[k]
    <3>1. \A i \in 1..k : f[m] <= f[i]
      BY <2>1, <2>4, <2>5
    <3> QED BY <2>2, <3>1
  <2>6. CASE ~(f[m] <= f[k])
    <3>1. f[m] \in Int /\ f[k] \in Int
      BY <2>1, <2>2, <2>3
    <3>2. f[k] <= f[m] /\ f[k] <= f[k]
      BY <2>6, <3>1
    <3>3. \A i \in 1..(k - 1) : f[k] <= f[i]
      BY <2>2, <2>3, <2>4, <3>1, <3>2
    <3>4. \A i \in 1..k : f[k] <= f[i]
      BY <2>1, <3>2, <3>3
    <3> QED BY <2>1, <3>4
  <2> QED BY <2>5, <2>6
<1> DEFINE Bad == {k \in 1..n : ~HasLeast(k)}
<1> HIDE DEF HasLeast
<1>3. ASSUME Bad # {} PROVE FALSE
  <2>1. PICK k \in Bad : \A j \in Bad : k <= j
    <3>1. Bad \in SUBSET Nat
      OBVIOUS
    <3> HIDE DEF Bad
    <3> QED BY <1>3, <3>1, LeastNumber
  <2>2. k \in 1..n /\ ~HasLeast(k)
    BY <2>1
  <2>3. k # 1
    BY <1>1, <2>2
  <2>4. k - 1 \in 1..n /\ ~(k <= k - 1)
    BY <2>2, <2>3
  <2>5. HasLeast(k - 1)
    BY <2>1, <2>4
  <2> QED BY <1>2, <2>2, <2>3, <2>5
<1>4. HasLeast(n)
  BY <1>3
<1> QED BY <1>4 DEF HasLeast

LEMMA LeastEntry ==
  ASSUME NEW s \in Seq(Int), s # <<>>
  PROVE  \E x \in Entries(s) : \A y \in Entries(s) : x <= y
<1>1. Len(s) \in Nat /\ Len(s) >= 1 /\ s \in [1..Len(s) -> Int] /\ DOMAIN s = 1..Len(s)
  OBVIOUS
<1>2. PICK m \in 1..Len(s) : \A i \in 1..Len(s) : s[m] <= s[i]
  BY <1>1, LeastIndex
<1> QED BY <1>1, <1>2 DEF Entries

\* maxlen of the deque of a window.
Room(offs) == 1 - Min(Entries(offs))

Window == {offs \in Seq(Int) \ {<<>>} : \A x \in Entries(offs) : x <= 0}

LEMMA RoomSuffices ==
  ASSUME NEW offs \in Window
  PROVE  /\ Room(offs) \in Nat /\ Room(offs) >= 1
         /\ \A i \in DOMAIN offs : offs[i] \in Int /\ offs[i] <= 0 /\ 1 - offs[i] <= Room(offs)
         /\ \E i \in DOMAIN offs : Room(offs) = 1 - offs[i]
<1> DEFINE m == Min(Entries(offs))
<1>1. \A x \in Entries(offs) : x \in Int /\ x <= 0
  BY DEF Window, Entries
<1>2. m \in Entries(offs) /\ \A y \in Entries(offs) : m <= y
  <2>1. \E x \in Entries(offs) : \A y \in Entries(offs) : x <= y
    BY LeastEntry DEF Window
  <2> QED BY <2>1 DEF Min
<1> HIDE DEF m
<1>3. m \in Int /\ m <= 0 /\ Room(offs) = 1 - m
  BY <1>1, <1>2 DEF Room, m
<1>4. \A i \in DOMAIN offs : offs[i] \in Entries(offs)
  BY DEF Entries
<1>5. \E i \in DOMAIN offs : m = offs[i]
  BY <1>2 DEF Entries
<1>6. ASSUME NEW i \in DOMAIN offs
      PROVE  offs[i] \in Int /\ offs[i] <= 0 /\ 1 - offs[i] <= Room(offs)
  <2>1. offs[i] \in Int /\ offs[i] <= 0 /\ m <= offs[i]
    BY <1>1, <1>2, <1>4
  <2> QED BY <1>3, <2>1
<1>7. Room(offs) \in Nat /\ Room(offs) >= 1
  BY <1>3
<1> QED BY <1>3, <1>5, <1>6, <1>7

LEMMA OffsetsAreWindows ==
  ASSUME NEW w \in Windows, NEW key \in Key PROVE w[key] \in Window
BY WindowsAssumption DEF Window

-----------------------------------------------------------------------------
(* The deque.                                                              *)

\* The queue holds copies of the last of n frames, as many as the episode, which began after
\* frame st, has, or as there is room for.
Latest(queue, offs, n, st) ==
  /\ queue \in Seq(Nat)
  /\ Len(queue) <= Room(offs) /\ Len(queue) <= n - st
  /\ Len(queue) = Room(offs) \/ Len(queue) = n - st
  /\ \A i \in 1..Len(queue) : queue[i] = n - Len(queue) + i

LEMMA EmptyIsLatest ==
  ASSUME NEW offs \in Window, NEW n \in Nat PROVE Latest(<<>>, offs, n, n)
<1>1. Room(offs) \in Nat
  BY RoomSuffices
<1>2. <<>> \in Seq(Nat) /\ Len(<<>>) = 0
  OBVIOUS
<1> QED BY <1>1, <1>2 DEF Latest

LEMMA PushedIsLatest ==
  ASSUME NEW offs \in Window, NEW n \in Nat, NEW st \in 0..n, NEW queue, Latest(queue, offs, n, st)
  PROVE  Latest(Pushed(queue, offs, n + 1), offs, n + 1, st)
<1> DEFINE l == Len(queue)
           r == Room(offs)
           p == Pushed(queue, offs, n + 1)
<1>1. /\ queue \in Seq(Nat) /\ l \in Nat /\ r \in Nat /\ r >= 1 /\ n \in Nat /\ st \in Nat
      /\ l <= r /\ l <= n - st /\ (l = r \/ l = n - st)
      /\ \A i \in 1..l : queue[i] = n - l + i
  BY RoomSuffices DEF Latest
<1>2. p = IF l < r THEN Append(queue, n + 1) ELSE Append(Tail(queue), n + 1)
  BY DEF Pushed, Room
<1>3. SUFFICES /\ p \in Seq(Nat) /\ Len(p) <= r /\ Len(p) <= (n + 1) - st
               /\ Len(p) = r \/ Len(p) = (n + 1) - st
               /\ \A i \in 1..Len(p) : p[i] = (n + 1) - Len(p) + i
  BY DEF Latest
<1> HIDE DEF l, r, p
<1>4. CASE l < r
  <2>1. p = Append(queue, n + 1)
    BY <1>2, <1>4
  <2>2. /\ p \in Seq(Nat) /\ Len(p) = l + 1 /\ p[l + 1] = n + 1
        /\ \A i \in 1..l : p[i] = queue[i]
    BY <1>1, <2>1 DEF l
  <2>3. \A i \in 1..(l + 1) : i \in 1..l \/ i = l + 1
    BY <1>1
  <2>4. \A i \in 1..(l + 1) : p[i] = (n + 1) - (l + 1) + i
    <3>1. ASSUME NEW i \in 1..l PROVE p[i] = (n + 1) - (l + 1) + i
      BY <1>1, <2>2
    <3>2. p[l + 1] = (n + 1) - (l + 1) + (l + 1)
      BY <1>1, <2>2
    <3> QED BY <2>3, <3>1, <3>2
  <2> QED BY <1>1, <1>4, <2>2, <2>4
<1>5. CASE ~(l < r)
  <2>1. l = r /\ queue # <<>> /\ p = Append(Tail(queue), n + 1)
    BY <1>1, <1>2, <1>5 DEF l
  <2>2. /\ Tail(queue) \in Seq(Nat) /\ Len(Tail(queue)) = l - 1
        /\ \A i \in 1..(l - 1) : Tail(queue)[i] = queue[i + 1]
    BY <1>1, <2>1 DEF l
  <2>3. /\ p \in Seq(Nat) /\ Len(p) = l /\ p[l] = n + 1
        /\ \A i \in 1..(l - 1) : p[i] = Tail(queue)[i]
    BY <1>1, <2>1, <2>2
  <2>4. \A i \in 1..l : i \in 1..(l - 1) \/ i = l
    BY <1>1
  <2>5. \A i \in 1..l : p[i] = (n + 1) - l + i
    <3> SUFFICES ASSUME NEW i \in 1..l PROVE p[i] = (n + 1) - l + i
      OBVIOUS
    <3>1. CASE i \in 1..(l - 1)
      <4>1. i + 1 \in 1..l
        BY <1>1, <3>1
      <4> QED BY <1>1, <2>2, <2>3, <3>1, <4>1
    <3>2. CASE i = l
      BY <1>1, <2>3, <3>2
    <3> QED BY <2>4, <3>1, <3>2
  <2>6. l <= (n + 1) - st
    BY <1>1, <1>5
  <2> QED BY <2>1, <2>3, <2>5, <2>6
<1> QED BY <1>4, <1>5

-----------------------------------------------------------------------------
(* A slot of a window.                                                     *)

LEMMA MaxOfTwo ==
  ASSUME NEW a \in Int, NEW b \in Int PROVE Max({a, b}) = IF a >= b THEN a ELSE b
<1>1. \E x \in {a, b} : \A y \in {a, b} : x >= y
  BY DEF Max
<1>2. Max({a, b}) \in {a, b} /\ Max({a, b}) >= a /\ Max({a, b}) >= b
  BY <1>1 DEF Max
<1> QED BY <1>2

LEMMA MinOfTwo ==
  ASSUME NEW a \in Int, NEW b \in Int PROVE Min({a, b}) = IF a <= b THEN a ELSE b
<1>1. \E x \in {a, b} : \A y \in {a, b} : x <= y
  BY DEF Min
<1>2. Min({a, b}) \in {a, b} /\ Min({a, b}) <= a /\ Min({a, b}) <= b
  BY <1>1 DEF Min
<1> QED BY <1>2

\* The frame training has in the slot of an offset.
Clamped(n, st, off) == IF n - 1 + off >= st THEN n + off ELSE st + 1

\* A slot of the deque's window, and of the training window.
SlotsMatch(queue, offs, n, st) ==
  \A i \in DOMAIN offs :
    /\ queue[Max({0, Len(queue) - 1 + offs[i]}) + 1] = Clamped(n, st, offs[i])
    /\ Len(queue) - 1 + offs[i] < 0 <=> n - 1 + offs[i] < st
    /\ Max({st, Min({n - 1, n - 1 + offs[i]})}) + 1 = Clamped(n, st, offs[i])
    /\ ~(n - 1 + offs[i] >= n)
    /\ Clamped(n, st, offs[i]) \in 1..n

LEMMA SlotMatches ==
  ASSUME NEW offs \in Window, NEW n \in Nat, NEW st \in 0..n, n > st, NEW queue,
         Latest(queue, offs, n, st)
  PROVE  SlotsMatch(queue, offs, n, st)
<1> SUFFICES
      ASSUME NEW i \in DOMAIN offs
      PROVE  /\ queue[Max({0, Len(queue) - 1 + offs[i]}) + 1] = Clamped(n, st, offs[i])
             /\ Len(queue) - 1 + offs[i] < 0 <=> n - 1 + offs[i] < st
             /\ Max({st, Min({n - 1, n - 1 + offs[i]})}) + 1 = Clamped(n, st, offs[i])
             /\ ~(n - 1 + offs[i] >= n)
             /\ Clamped(n, st, offs[i]) \in 1..n
  BY DEF SlotsMatch
<1> DEFINE l == Len(queue)
           r == Room(offs)
           o == offs[i]
<1>1. /\ l \in Nat /\ r \in Nat /\ r >= 1 /\ o \in Int /\ o <= 0 /\ 1 - o <= r
      /\ n \in Nat /\ st \in Nat /\ n > st
      /\ l <= r /\ l <= n - st /\ (l = r \/ l = n - st)
      /\ \A k \in 1..l : queue[k] = n - l + k
  BY RoomSuffices DEF Latest
<1> HIDE DEF l, r, o
<1>2. SUFFICES /\ queue[Max({0, l - 1 + o}) + 1] = Clamped(n, st, o)
               /\ l - 1 + o < 0 <=> n - 1 + o < st
               /\ Max({st, Min({n - 1, n - 1 + o})}) + 1 = Clamped(n, st, o)
               /\ ~(n - 1 + o >= n)
               /\ Clamped(n, st, o) \in 1..n
  BY DEF l, o
<1>3. l - 1 + o < 0 <=> n - 1 + o < st
  BY <1>1
<1>4. Min({n - 1, n - 1 + o}) = n - 1 + o
  BY <1>1, MinOfTwo
<1>5. Max({st, n - 1 + o}) = IF st >= n - 1 + o THEN st ELSE n - 1 + o
  BY <1>1, MaxOfTwo
<1>6. Max({st, Min({n - 1, n - 1 + o})}) + 1 = Clamped(n, st, o)
  BY <1>1, <1>4, <1>5 DEF Clamped
<1>7. Max({0, l - 1 + o}) = IF 0 >= l - 1 + o THEN 0 ELSE l - 1 + o
  BY <1>1, MaxOfTwo
<1>8. queue[Max({0, l - 1 + o}) + 1] = Clamped(n, st, o)
  <2>1. CASE l - 1 + o >= 0
    <3>1. Max({0, l - 1 + o}) + 1 = l + o /\ l + o \in 1..l
      BY <1>1, <1>7, <2>1
    <3>2. queue[l + o] = n - l + (l + o)
      BY <1>1, <3>1
    <3> QED BY <1>1, <1>3, <2>1, <3>1, <3>2 DEF Clamped
  <2>2. CASE ~(l - 1 + o >= 0)
    <3>1. Max({0, l - 1 + o}) + 1 = 1 /\ 1 \in 1..l /\ l = n - st
      BY <1>1, <1>7, <2>2
    <3>2. queue[1] = n - l + 1
      BY <1>1, <3>1
    <3> QED BY <1>1, <1>3, <2>2, <3>1, <3>2 DEF Clamped
  <2> QED BY <2>1, <2>2
<1>9. ~(n - 1 + o >= n) /\ Clamped(n, st, o) \in 1..n
  BY <1>1 DEF Clamped
<1> QED BY <1>3, <1>6, <1>8, <1>9

-----------------------------------------------------------------------------
(* Windows.                                                                *)

Recording == recorded \in Seq(Nat \X Nat) /\ start \in 0..Len(recorded)

\* A window whose slots hold the frames that training has there, with the same mask.
Matches(window, offs) ==
  /\ DOMAIN window = DOMAIN offs
  /\ \A i \in DOMAIN offs :
       /\ window[i].array = Clamped(Len(recorded), start, offs[i])
       /\ window[i].array \in 1..Len(recorded)
       /\ window[i].is_pad = (Len(recorded) - 1 + offs[i] < start)

LEMMA SlotFields ==
  \A a, b : [array |-> a, is_pad |-> b].array = a /\ [array |-> a, is_pad |-> b].is_pad = b
OBVIOUS

LEMMA ShownFields ==
  \A a, b : [frame |-> a, is_pad |-> b].frame = a /\ [frame |-> a, is_pad |-> b].is_pad = b
OBVIOUS

LEMMA Equivalent ==
  ASSUME NEW A \in BOOLEAN, NEW B \in BOOLEAN, A <=> B PROVE A = B
OBVIOUS

LEMMA MatchesTraining ==
  ASSUME NEW offs \in Window, Recording, Len(recorded) > start,
         NEW queue, Latest(queue, offs, Len(recorded), start), NEW window, Matches(window, offs)
  PROVE  Shown(window) = Training(offs)
<1> DEFINE n == Len(recorded)
<1>1. n \in Nat /\ start \in 0..n /\ n > start
  BY DEF Recording
<1>2. SlotsMatch(queue, offs, n, start)
  BY <1>1, SlotMatches
<1>3. ASSUME NEW i \in DOMAIN offs
      PROVE  Shown(window)[i] = Training(offs)[i]
  <2>1. /\ Max({start, Min({n - 1, n - 1 + offs[i]})}) + 1 = Clamped(n, start, offs[i])
        /\ ~(n - 1 + offs[i] >= n) /\ Clamped(n, start, offs[i]) \in 1..n
    BY <1>2 DEF SlotsMatch
  <2>2. /\ i \in DOMAIN window
        /\ window[i].array = Clamped(n, start, offs[i])
        /\ window[i].is_pad = (n - 1 + offs[i] < start)
    BY DEF Matches
  <2>3. window[i].array # Zeros /\ window[i].array # Camera
    BY <2>1, <2>2 DEF Zeros, Camera
  <2>4. Shown(window)[i] = [frame |-> recorded[window[i].array], is_pad |-> window[i].is_pad]
    BY <2>2, <2>3 DEF Shown, Content
  <2>5. Training(offs)[i] =
          [frame  |-> recorded[Max({start, Min({n - 1, n - 1 + offs[i]})}) + 1],
           is_pad |-> \/ n - 1 + offs[i] < start
                      \/ n - 1 + offs[i] >= n]
    BY DEF Training
  <2>6. (n - 1 + offs[i] < start \/ n - 1 + offs[i] >= n) = (n - 1 + offs[i] < start)
    BY <2>1
  <2> QED BY <2>1, <2>2, <2>4, <2>5, <2>6
<1>4. /\ Shown(window) = [i \in DOMAIN offs |-> Shown(window)[i]]
      /\ Training(offs) = [i \in DOMAIN offs |-> Training(offs)[i]]
  BY DEF Shown, Training, Matches
<1> QED BY <1>3, <1>4

\* What a deque of the latest frames gives.
LEMMA SnapshotMatches ==
  ASSUME NEW offs \in Window, Recording, Len(recorded) > start,
         NEW queue, Latest(queue, offs, Len(recorded), start)
  PROVE  Matches(Snapshot(queue, offs), offs)
<1> DEFINE n == Len(recorded)
           w == Snapshot(queue, offs)
<1>1. n \in Nat /\ start \in 0..n /\ n > start
  BY DEF Recording
<1>2. SlotsMatch(queue, offs, n, start)
  BY <1>1, SlotMatches
<1>3. DOMAIN w = DOMAIN offs
  BY DEF Snapshot
<1>4. ASSUME NEW i \in DOMAIN offs
      PROVE  /\ w[i].array = Clamped(n, start, offs[i]) /\ w[i].array \in 1..n
             /\ w[i].is_pad = (n - 1 + offs[i] < start)
  <2>1. w[i] = [array  |-> queue[Max({0, Len(queue) - 1 + offs[i]}) + 1],
                is_pad |-> Len(queue) - 1 + offs[i] < 0]
    BY DEF Snapshot
  <2> HIDE DEF w
  <2>2. /\ queue[Max({0, Len(queue) - 1 + offs[i]}) + 1] = Clamped(n, start, offs[i])
        /\ Len(queue) - 1 + offs[i] < 0 <=> n - 1 + offs[i] < start
        /\ Clamped(n, start, offs[i]) \in 1..n
    BY <1>2 DEF SlotsMatch
  <2> DEFINE array  == queue[Max({0, Len(queue) - 1 + offs[i]}) + 1]
             is_pad == Len(queue) - 1 + offs[i] < 0
  <2>3. w[i] = [array |-> array, is_pad |-> is_pad]
    BY <2>1
  <2> HIDE DEF array, is_pad
  <2>4. w[i].array = array /\ w[i].is_pad = is_pad
    BY <2>3
  <2> USE DEF array, is_pad
  <2>5. (Len(queue) - 1 + offs[i] < 0) = (n - 1 + offs[i] < start)
    <3>1. (Len(queue) - 1 + offs[i] < 0) \in BOOLEAN /\ (n - 1 + offs[i] < start) \in BOOLEAN
      OBVIOUS
    <3> QED BY <2>2, <3>1, Equivalent, Zenon
  <2>6. w[i].is_pad = (n - 1 + offs[i] < start)
    BY <2>4, <2>5, Zenon
  <2> QED BY <2>2, <2>4, <2>6, Zenon
<1> HIDE DEF w
<1>5. Matches(w, offs)
  BY <1>3, <1>4 DEF Matches
<1> QED BY <1>5 DEF w

LEMMA FallbackImagesMatch ==
  ASSUME NEW offs \in Window, Recording, Len(recorded) > start,
         NEW queue, Latest(queue, offs, Len(recorded), start)
  PROVE  Matches(FallbackImages(queue, offs), offs)
<1>1. FallbackImages(queue, offs) = Snapshot(queue, offs)
  BY DEF FallbackImages, Snapshot
<1> QED BY <1>1, SnapshotMatches

\* The states of a window reach back without a gap (cycle_state_delta_indices).
Gapless(offs) == \A i \in DOMAIN offs : offs[i] = i - Len(offs)

LEMMA FallbackStateMatches ==
  ASSUME NEW offs \in Window, Gapless(offs), Recording, Len(recorded) > start,
         NEW queue, Latest(queue, offs, Len(recorded), start), NEW i \in DOMAIN offs
  PROVE  LET shown   == Shown(FallbackState(queue, offs))
             due_now == Training(offs)
         IN  /\ shown[i].is_pad = due_now[i].is_pad
             /\ ~shown[i].is_pad => shown[i].frame = due_now[i].frame
<1> DEFINE n == Len(recorded)
           l == Len(queue)
           m == Len(offs)
           slot == FallbackState(queue, offs)[i]
           shown == Shown(FallbackState(queue, offs))[i]
           due_now == Training(offs)[i]
<1>1. n \in Nat /\ start \in 0..n /\ n > start /\ start \in Nat
  BY DEF Recording
<1>2. offs \in Seq(Int) /\ offs # <<>> /\ m \in Nat /\ m >= 1 /\ DOMAIN offs = 1..m
  BY DEF Window
<1>3. Room(offs) = m
  <2>1. Room(offs) >= m
    <3>1. 1 \in DOMAIN offs /\ offs[1] = 1 - m
      BY <1>2 DEF Gapless
    <3>2. Room(offs) \in Nat /\ 1 - offs[1] <= Room(offs)
      BY <3>1, RoomSuffices
    <3> QED BY <1>2, <3>1, <3>2
  <2>2. Room(offs) <= m
    <3>1. PICK k \in DOMAIN offs : Room(offs) = 1 - offs[k]
      BY RoomSuffices
    <3> QED BY <1>2, <3>1 DEF Gapless
  <2>3. Room(offs) \in Nat
    BY RoomSuffices
  <2> QED BY <1>2, <2>1, <2>2, <2>3
<1>4. /\ l \in Nat /\ l <= m /\ l <= n - start /\ (l = m \/ l = n - start)
      /\ \A k \in 1..l : queue[k] = n - l + k
  BY <1>3 DEF Latest
<1>5. i \in 1..m /\ offs[i] = i - m /\ i \in DOMAIN FallbackState(queue, offs)
  BY <1>2 DEF Gapless, FallbackState
<1>6. SlotsMatch(queue, offs, n, start)
  BY <1>1, SlotMatches
<1>7. /\ due_now.frame = recorded[Clamped(n, start, offs[i])]
      /\ due_now.is_pad <=> n - 1 + offs[i] < start
      /\ due_now.is_pad \in BOOLEAN
  <2>1. /\ Max({start, Min({n - 1, n - 1 + offs[i]})}) + 1 = Clamped(n, start, offs[i])
        /\ ~(n - 1 + offs[i] >= n)
    BY <1>6 DEF SlotsMatch
  <2> DEFINE frame  == recorded[Max({start, Min({n - 1, n - 1 + offs[i]})}) + 1]
             is_pad == n - 1 + offs[i] < start \/ n - 1 + offs[i] >= n
  <2>2. due_now = [frame |-> frame, is_pad |-> is_pad]
    BY DEF Training
  <2>3. is_pad \in BOOLEAN
    OBVIOUS
  <2> HIDE DEF frame, is_pad, due_now
  <2>4. due_now.frame = frame /\ due_now.is_pad = is_pad
    BY <2>2
  <2> QED BY <2>1, <2>3, <2>4 DEF frame, is_pad
<1>8. shown = [frame  |-> IF slot.array = Zeros THEN Zeros ELSE Content(slot.array),
               is_pad |-> slot.is_pad]
  BY <1>5 DEF Shown
<1> SUFFICES /\ shown.is_pad = due_now.is_pad
             /\ ~shown.is_pad => shown.frame = due_now.frame
  OBVIOUS
<1> HIDE DEF n, l, m, due_now, shown
<1>9. CASE i <= m - l
  <2>1. slot = [array |-> Zeros, is_pad |-> TRUE]
    BY <1>5, <1>9 DEF FallbackState, m, l
  <2>2. slot.is_pad = TRUE
    BY <2>1
  <2> HIDE DEF slot
  <2>3. shown.is_pad = TRUE
    BY <1>8, <2>2
  <2>4. n - 1 + offs[i] < start
    BY <1>1, <1>2, <1>4, <1>5, <1>9
  <2> QED BY <1>7, <2>3, <2>4
<1>10. CASE ~(i <= m - l)
  <2>1. slot = [array |-> queue[i - (m - l)], is_pad |-> FALSE]
    BY <1>5, <1>10 DEF FallbackState, m, l
  <2>2. slot.is_pad = FALSE /\ slot.array = queue[i - (m - l)]
    BY <2>1
  <2> HIDE DEF slot
  <2>3. PICK k \in 1..l : k = i - (m - l) /\ n - l + k = n + offs[i]
    <3>1. /\ i \in Int /\ m \in Nat /\ l \in Nat /\ n \in Nat
          /\ i <= m /\ i > m - l /\ offs[i] = i - m
      BY <1>1, <1>2, <1>4, <1>5, <1>10
    <3>2. i - (m - l) \in 1..l /\ n - l + (i - (m - l)) = n + (i - m)
      BY <3>1
    <3> QED BY <3>1, <3>2
  <2>4. slot.array = n + offs[i]
    <3>1. queue[k] = n - l + k
      BY <1>4
    <3> QED BY <2>2, <2>3, <3>1
  <2>5. ~(n - 1 + offs[i] < start) /\ n + offs[i] = Clamped(n, start, offs[i]) /\ n + offs[i] >= 1
    <3>1. /\ n \in Nat /\ start \in Nat /\ n > start
          /\ offs[i] \in Int /\ n - 1 + offs[i] >= start
      BY <1>1, <1>2, <1>4, <1>5, <1>10
    <3>2. ~(n - 1 + offs[i] < start) /\ n + offs[i] >= 1
      BY <3>1
    <3>3. n + offs[i] = Clamped(n, start, offs[i])
      BY <3>1 DEF Clamped
    <3> QED BY <3>2, <3>3
  <2>6. slot.array # Zeros /\ slot.array # Camera
    BY <2>4, <2>5, <1>1, <1>2, <1>5 DEF Zeros, Camera
  <2>7. Content(slot.array) = recorded[Clamped(n, start, offs[i])]
    BY <2>4, <2>5, <2>6 DEF Content
  <2>8. shown.is_pad = FALSE /\ shown.frame = recorded[Clamped(n, start, offs[i])]
    BY <1>8, <2>2, <2>6, <2>7
  <2> QED BY <1>7, <2>5, <2>8
<1> QED BY <1>9, <1>10

-----------------------------------------------------------------------------
(* The inductive invariant.                                                *)

DequesInv ==
  /\ offsets \in Windows /\ episode \in Nat /\ Recording
  /\ frames \in [Key -> Seq(Nat)] /\ fallback \in [Key -> Seq(Nat)]
  /\ \A key \in Key :
       /\ Latest(frames[key], offsets[key], Len(recorded), start)
       /\ Latest(fallback[key], offsets[key], Len(recorded), start)

\* A snapshot holds copies of frames, and shows what training has in its place.
SnapshotInv ==
  snap # NoSnapshot =>
    \A key \in Key :
      /\ \A i \in DOMAIN snap[key] : snap[key][i].array \in 1..Len(recorded)
      /\ Shown(snap[key]) = due[key]

HistoryInv == DequesInv /\ SnapshotInv

\* What a window of copies shows does not depend on later frames.
LEMMA CopiesStay ==
  ASSUME NEW r \in Seq(Nat \X Nat), NEW e \in Nat \X Nat, NEW a \in 1..Len(r)
  PROVE  Append(r, e)[a] = r[a] /\ a # Zeros /\ a # Camera
BY DEF Zeros, Camera

LEMMA SnapshotStays ==
  ASSUME DequesInv, SnapshotInv, UNCHANGED <<snap, due>>,
         \/ recorded' = recorded
         \/ \E e \in Nat \X Nat : recorded' = Append(recorded, e)
  PROVE  SnapshotInv'
<1>1. recorded \in Seq(Nat \X Nat)
  BY DEF DequesInv, Recording
<1>2. Len(recorded') \in Nat /\ Len(recorded) \in Nat /\ Len(recorded') >= Len(recorded)
  BY <1>1
<1>3. \A a \in 1..Len(recorded) :
        a \in 1..Len(recorded') /\ recorded'[a] = recorded[a] /\ a # Zeros /\ a # Camera
  <2>1. \A a \in 1..Len(recorded) : a \in 1..Len(recorded')
    BY <1>2
  <2>2. \A a \in 1..Len(recorded) : a # Zeros /\ a # Camera
    BY <1>2 DEF Zeros, Camera
  <2>3. \A a \in 1..Len(recorded) : recorded'[a] = recorded[a]
    <3>1. CASE recorded' = recorded
      BY <3>1
    <3>2. CASE \E e \in Nat \X Nat : recorded' = Append(recorded, e)
      BY <1>1, <3>2, CopiesStay
    <3> QED BY <3>1, <3>2
  <2> QED BY <2>1, <2>2, <2>3
<1>4. ASSUME snap # NoSnapshot, NEW key \in Key
      PROVE  /\ \A i \in DOMAIN snap[key] : snap[key][i].array \in 1..Len(recorded')
             /\ Shown(snap[key])' = due[key]
  <2>1. /\ \A i \in DOMAIN snap[key] : snap[key][i].array \in 1..Len(recorded)
        /\ Shown(snap[key]) = due[key]
    BY <1>4 DEF SnapshotInv
  <2>2. Shown(snap[key])' = Shown(snap[key])
    <3>1. Shown(snap[key])' =
            [i \in DOMAIN snap[key] |->
               [frame  |-> IF snap[key][i].array = Zeros THEN Zeros
                           ELSE Content(snap[key][i].array)',
                is_pad |-> snap[key][i].is_pad]]
      BY DEF Shown, Zeros
    <3>2. \A i \in DOMAIN snap[key] :
            Content(snap[key][i].array)' = Content(snap[key][i].array)
      BY <1>3, <2>1 DEF Content, Camera
    <3> QED BY <3>1, <3>2 DEF Shown
  <2> QED BY <1>3, <2>1, <2>2
<1> QED BY <1>4 DEF SnapshotInv, NoSnapshot

LEMMA InitHistory == Init => HistoryInv
<1> SUFFICES ASSUME Init PROVE HistoryInv
  OBVIOUS
<1>1. recorded = <<>> /\ recorded \in Seq(Nat \X Nat) /\ Len(recorded) = 0 /\ start = 0
  BY DEF Init
<1>2. \A key \in Key : offsets[key] \in Window
  BY OffsetsAreWindows DEF Init
<1>3. /\ frames \in [Key -> Seq(Nat)] /\ fallback \in [Key -> Seq(Nat)]
      /\ \A key \in Key : frames[key] = <<>> /\ fallback[key] = <<>>
  BY DEF Init
<1>4. \A key \in Key : Latest(<<>>, offsets[key], 0, 0)
  BY <1>2, EmptyIsLatest
<1>5. DequesInv
  BY <1>1, <1>3, <1>4 DEF Init, DequesInv, Recording
<1> QED BY <1>5 DEF Init, HistoryInv, SnapshotInv

LEMMA NextHistory == HistoryInv /\ [Next]_vars => HistoryInv'
<1> SUFFICES ASSUME HistoryInv, [Next]_vars PROVE HistoryInv'
  OBVIOUS
<1> DEFINE n == Len(recorded)
<1>1. /\ offsets \in Windows /\ episode \in Nat /\ recorded \in Seq(Nat \X Nat)
      /\ n \in Nat /\ start \in 0..n /\ start \in Nat
      /\ frames \in [Key -> Seq(Nat)] /\ fallback \in [Key -> Seq(Nat)]
  BY DEF HistoryInv, DequesInv, Recording
<1>2. \A key \in Key : offsets[key] \in Window
  BY <1>1, OffsetsAreWindows
<1>3. \A key \in Key :
        /\ Latest(frames[key], offsets[key], n, start)
        /\ Latest(fallback[key], offsets[key], n, start)
  BY DEF HistoryInv, DequesInv
<1>4. CASE Observe
  <2> DEFINE e == <<episode, n - start + 1>>
  <2>1. e \in Nat \X Nat /\ recorded' = Append(recorded, e)
    BY <1>1, <1>4 DEF Observe
  <2> HIDE DEF e
  <2>2. /\ recorded' \in Seq(Nat \X Nat) /\ Len(recorded') = n + 1
        /\ UNCHANGED <<offsets, episode, start, snap, due>>
    BY <1>1, <1>4, <2>1 DEF Observe
  <2>3. /\ frames' = [key \in Key |-> Pushed(frames[key], offsets[key], n + 1)]
        /\ fallback' = [key \in Key |-> Pushed(fallback[key], offsets[key], n + 1)]
    BY <1>4, <2>2 DEF Observe, Copied
  <2>4. \A key \in Key :
          /\ Latest(Pushed(frames[key], offsets[key], n + 1), offsets[key], n + 1, start)
          /\ Latest(Pushed(fallback[key], offsets[key], n + 1), offsets[key], n + 1, start)
    BY <1>1, <1>2, <1>3, PushedIsLatest
  <2>5. \A key \in Key :
          /\ Latest(frames'[key], offsets[key], n + 1, start)
          /\ Latest(fallback'[key], offsets[key], n + 1, start)
    BY <2>3, <2>4
  <2>6. frames' \in [Key -> Seq(Nat)] /\ fallback' \in [Key -> Seq(Nat)]
    <3>1. \A key \in Key : frames'[key] \in Seq(Nat) /\ fallback'[key] \in Seq(Nat)
      BY <2>5 DEF Latest
    <3> QED BY <2>3, <3>1
  <2>7. start \in 0..(n + 1)
    BY <1>1
  <2>8. DequesInv'
    BY <1>1, <2>2, <2>5, <2>6, <2>7 DEF DequesInv, Recording
  <2>9. SnapshotInv'
    BY <2>1, <2>2, SnapshotStays DEF HistoryInv
  <2> QED BY <2>8, <2>9 DEF HistoryInv
<1>5. CASE TakeSnapshot
  <2>1. /\ n > start /\ UNCHANGED <<offsets, episode, recorded, start, frames, fallback>>
        /\ snap' = [key \in Key |-> Snapshot(frames[key], offsets[key])]
        /\ due' = [key \in Key |-> Training(offsets[key])]
    BY <1>5 DEF TakeSnapshot
  <2>2. DequesInv'
    BY <2>1 DEF HistoryInv, DequesInv, Recording
  <2>3. ASSUME NEW key \in Key
        PROVE  /\ \A i \in DOMAIN snap'[key] : snap'[key][i].array \in 1..Len(recorded')
               /\ Shown(snap[key])' = due'[key]
    <3>1. Matches(Snapshot(frames[key], offsets[key]), offsets[key])
      BY <1>2, <1>3, <2>1, SnapshotMatches DEF HistoryInv, DequesInv
    <3>2. Shown(Snapshot(frames[key], offsets[key])) = Training(offsets[key])
      BY <1>2, <1>3, <2>1, <3>1, MatchesTraining DEF HistoryInv, DequesInv
    <3>3. snap'[key] = Snapshot(frames[key], offsets[key]) /\ due'[key] = Training(offsets[key])
      BY <2>1
    <3>4. Shown(snap[key])' = Shown(Snapshot(frames[key], offsets[key]))
      BY <2>1, <3>3 DEF Shown, Content
    <3> QED BY <2>1, <3>1, <3>2, <3>3, <3>4 DEF Matches
  <2>4. SnapshotInv'
    BY <2>3 DEF SnapshotInv
  <2> QED BY <2>2, <2>4 DEF HistoryInv
<1>6. CASE Reset
  <2>1. /\ start' = n /\ episode' = episode + 1 /\ UNCHANGED <<offsets, recorded, snap, due>>
        /\ frames' = [key \in Key |-> <<>>] /\ fallback' = [key \in Key |-> <<>>]
    BY <1>6 DEF Reset
  <2>2. \A key \in Key : Latest(<<>>, offsets[key], n, n)
    BY <1>1, <1>2, EmptyIsLatest
  <2>3. DequesInv'
    BY <1>1, <2>1, <2>2 DEF DequesInv, Recording
  <2>4. SnapshotInv'
    BY <2>1, SnapshotStays DEF HistoryInv
  <2> QED BY <2>3, <2>4 DEF HistoryInv
<1>7. CASE UNCHANGED vars
  BY <1>7 DEF vars, HistoryInv, DequesInv, SnapshotInv, Recording, Shown, Content
<1> QED BY <1>4, <1>5, <1>6, <1>7 DEF Next, Finished

LEMMA HistoryInvariant == Spec => []HistoryInv
BY InitHistory, NextHistory, PTL DEF Spec

-----------------------------------------------------------------------------
(* Progress labels.  First(bin, last) is the first frame whose label is at *)
(* least bin, in an episode whose last frame has index last: the bins are  *)
(* the intervals between these, and the intervals are equally long.        *)

First(bin, last) == (bin * last + Bins - 1) \div Bins

LEMMA Division ==
  ASSUME NEW a \in Nat, NEW b \in Nat, b > 0
  PROVE  /\ a \div b \in Nat
         /\ b * (a \div b) <= a /\ a < b * (a \div b) + b
  OBVIOUS

\* Products keep the order of their factors, and reflect it.
LEMMA ProductOrder ==
  ASSUME NEW b \in Nat, b > 0, NEW x \in Int, NEW y \in Int
  PROVE  x <= y <=> b * x <= b * y
  OBVIOUS

\* Division by b is the greatest number whose product with b fits.
LEMMA DivisionAtLeast ==
  ASSUME NEW a \in Nat, NEW b \in Nat, b > 0, NEW x \in Nat
  PROVE  a \div b >= x <=> a >= b * x
<1>1. a \div b \in Nat /\ b * (a \div b) <= a /\ a < b * (a \div b) + b
  BY Division
<1>2. x <= a \div b <=> b * x <= b * (a \div b)
  BY <1>1, ProductOrder
<1>3. (a \div b) + 1 <= x <=> b * ((a \div b) + 1) <= b * x
  BY <1>1, ProductOrder
<1>4. b * ((a \div b) + 1) = b * (a \div b) + b
  BY <1>1
<1>5. b * x \in Nat /\ b * (a \div b) \in Nat
  BY <1>1
<1> QED BY <1>1, <1>2, <1>3, <1>4, <1>5

\* What First promises.
LEMMA FirstFrame ==
  ASSUME NEW bin \in Nat, NEW last \in Nat, NEW i \in Nat
  PROVE  /\ First(bin, last) \in Nat
         /\ i >= First(bin, last) <=> i * Bins >= bin * last
<1>0. Bins \in Nat /\ Bins >= 2
  BY BinsAssumption
<1>1. bin * last \in Nat /\ i * Bins \in Nat /\ Bins * (i + 1) = i * Bins + Bins
  BY <1>0
<1> DEFINE a == bin * last + Bins - 1
<1>2. a \in Nat
  BY <1>0, <1>1
<1>3. a \div Bins \in Nat
  BY <1>0, <1>2, Division
<1>4. a \div Bins >= i + 1 <=> a >= Bins * (i + 1)
  BY <1>0, <1>2, DivisionAtLeast
<1>5. a >= Bins * (i + 1) <=> ~(i * Bins >= bin * last)
  BY <1>0, <1>1
<1>6. First(bin, last) = a \div Bins
  BY DEF First
<1> HIDE DEF a
<1> QED BY <1>3, <1>4, <1>5, <1>6

\* A bin's interval is the share of the frames before the last one, or one
\* longer.
LEMMA Shares ==
  ASSUME NEW bin \in Nat, NEW last \in Nat
  PROVE  First(bin + 1, last) - First(bin, last) \in {last \div Bins, (last \div Bins) + 1}
<1>0. Bins \in Nat /\ Bins >= 2
  BY BinsAssumption
<1> DEFINE p == bin * last
           q == (bin + 1) * last
           share == last \div Bins
           f == First(bin, last)
           g == First(bin + 1, last)
<1>1. p \in Nat /\ q \in Nat /\ q = p + last
  OBVIOUS
<1>2. share \in Nat /\ Bins * share <= last /\ last < Bins * share + Bins
  BY <1>0, Division
<1>3. f \in Nat /\ Bins * f <= p + Bins - 1 /\ p + Bins - 1 < Bins * f + Bins
  <2>1. p + Bins - 1 \in Nat
    BY <1>0, <1>1
  <2> QED BY <1>0, <2>1, Division DEF First
<1>4. g \in Nat /\ Bins * g <= q + Bins - 1 /\ q + Bins - 1 < Bins * g + Bins
  <2>1. q + Bins - 1 \in Nat
    BY <1>0, <1>1
  <2> QED BY <1>0, <2>1, Division DEF First
<1> HIDE DEF p, q, share, f, g
<1>5. /\ Bins * f \in Nat /\ Bins * g \in Nat /\ Bins * share \in Nat
      /\ Bins * (g - f) = Bins * g - Bins * f
      /\ Bins * (share - 1) = Bins * share - Bins
      /\ Bins * (share + 2) = Bins * share + Bins + Bins
  BY <1>0, <1>2, <1>3, <1>4
<1>6. Bins * (share - 1) < Bins * (g - f) /\ Bins * (g - f) < Bins * (share + 2)
  BY <1>0, <1>1, <1>2, <1>3, <1>4, <1>5
<1>7. ~(g - f <= share - 1) /\ ~(share + 2 <= g - f)
  <2>1. g - f <= share - 1 <=> Bins * (g - f) <= Bins * (share - 1)
    BY <1>0, <1>2, <1>3, <1>4, ProductOrder
  <2>2. share + 2 <= g - f <=> Bins * (share + 2) <= Bins * (g - f)
    BY <1>0, <1>2, <1>3, <1>4, ProductOrder
  <2>3. Bins * (g - f) \in Int /\ Bins * (share - 1) \in Int /\ Bins * (share + 2) \in Int
    BY <1>0, <1>2, <1>3, <1>4
  <2> QED BY <1>6, <2>1, <2>2, <2>3
<1>8. g - f = share \/ g - f = share + 1
  BY <1>2, <1>3, <1>4, <1>7
<1> QED BY <1>8 DEF f, g, share

\* The label of a frame is the number of bins that begin at or before it.
LEMMA LabelAtLeast ==
  ASSUME NEW last \in Nat, last > 0, NEW i \in 0..last
  PROVE  LET label == cycle_progress_target(i, last + 1, Bins)
         IN  /\ label \in 0..(Bins - 1)
             /\ \A bin \in 0..(Bins - 1) : label >= bin <=> i >= First(bin, last)
<1>0. Bins \in Nat /\ Bins >= 2
  BY BinsAssumption
<1> DEFINE d == (i * Bins) \div last
<1>1. i * Bins \in Nat
  BY <1>0
<1>2. d \in Nat
  BY <1>1, Division
<1>3. cycle_progress_target(i, last + 1, Bins) = IF d <= Bins - 1 THEN d ELSE Bins - 1
  <2>1. Max({1, last + 1}) = last + 1 /\ Max({1, (last + 1) - 1}) = last
    BY MaxOfTwo
  <2>2. Min({i, last}) = i
    BY MinOfTwo
  <2>3. Max({1, Max({1, last + 1}) - 1}) = last
    BY <2>1
  <2>4. cycle_progress_target(i, last + 1, Bins) = Min({d, Bins - 1})
    BY <2>2, <2>3 DEF cycle_progress_target
  <2> HIDE DEF d
  <2> QED BY <1>0, <1>2, <2>4, MinOfTwo
<1>4. ASSUME NEW bin \in 0..(Bins - 1) PROVE d >= bin <=> i >= First(bin, last)
  <2>1. bin \in Nat /\ last * bin = bin * last
    BY <1>0
  <2>2. d >= bin <=> i * Bins >= bin * last
    BY <1>1, <2>1, DivisionAtLeast
  <2>3. i >= First(bin, last) <=> i * Bins >= bin * last
    BY <2>1, FirstFrame
  <2> QED BY <2>2, <2>3
<1> HIDE DEF d
<1> QED BY <1>0, <1>2, <1>3, <1>4

\* The whole statement, for an episode of any length.
LEMMA LabelsBalanced ==
  ASSUME NEW last \in Nat, last >= Bins
  PROVE  LET Label(i) == cycle_progress_target(i, last + 1, Bins)
             Size(bin) == Cardinality({i \in 0..last : Label(i) = bin})
             share     == last \div Bins
         IN  /\ Label(0) = 0 /\ Label(last) = Bins - 1
             /\ \A i \in 1..last : Label(i) - Label(i - 1) \in {0, 1}
             /\ \A bin \in 0..(Bins - 1) :
                  Size(bin) - (IF bin = Bins - 1 THEN 1 ELSE 0) \in {share, share + 1}
<1>0. Bins \in Nat /\ Bins >= 2 /\ last > 0
  BY BinsAssumption
<1> DEFINE Label(i) == cycle_progress_target(i, last + 1, Bins)
           Size(bin) == Cardinality({i \in 0..last : Label(i) = bin})
           share     == last \div Bins
           F(bin)    == First(bin, last)
<1>1. \A i \in 0..last :
        /\ Label(i) \in 0..(Bins - 1)
        /\ \A bin \in 0..(Bins - 1) : Label(i) >= bin <=> i >= F(bin)
  BY <1>0, LabelAtLeast
<1>2. \A bin \in Nat : F(bin) \in Nat /\ F(bin + 1) - F(bin) \in {share, share + 1}
  BY FirstFrame, Shares
<1>3. share \in Nat /\ share >= 1
  <2>1. Bins * 1 = Bins
    BY <1>0
  <2> QED BY <1>0, <2>1, Division, DivisionAtLeast
<1>4. F(0) = 0 /\ F(Bins) = last
  <2>1. \A i \in Nat : i >= F(0) <=> i * Bins >= 0 * last
    BY FirstFrame
  <2>2. \A i \in Nat : i >= F(Bins) <=> i * Bins >= Bins * last
    BY <1>0, FirstFrame
  <2>3. F(0) = 0
    <3>1. 0 >= F(0) <=> 0 * Bins >= 0 * last
      BY <2>1
    <3> HIDE DEF F
    <3> QED BY <1>0, <1>2, <3>1
  <2>4. \A i \in Nat : i * Bins = Bins * i
    BY <1>0
  <2>5. \A i \in Nat : i >= F(Bins) <=> i >= last
    <3> SUFFICES ASSUME NEW i \in Nat PROVE i >= F(Bins) <=> i >= last
      OBVIOUS
    <3>1. i >= F(Bins) <=> Bins * i >= Bins * last
      BY <2>2, <2>4
    <3>2. last <= i <=> Bins * last <= Bins * i
      BY <1>0, ProductOrder
    <3> HIDE DEF F
    <3> QED BY <1>0, <3>1, <3>2
  <2>6. F(Bins) \in Nat
    BY <1>0, <1>2
  <2> HIDE DEF F
  <2>7. F(Bins) >= last /\ last >= F(Bins)
    BY <2>5, <2>6
  <2> QED BY <2>3, <2>6, <2>7
<1>5. \A bin \in 0..(Bins - 1) : F(bin) <= last
  <2> SUFFICES ASSUME NEW bin \in 0..(Bins - 1) PROVE F(bin) <= last
    OBVIOUS
  <2>1. last >= F(bin) <=> last * Bins >= bin * last
    BY <1>0, FirstFrame
  <2>2. bin <= Bins <=> last * bin <= last * Bins
    BY <1>0, ProductOrder
  <2>3. last * bin = bin * last /\ bin * last \in Nat /\ last * Bins \in Nat
    BY <1>0
  <2>4. F(bin) \in Nat
    BY <1>2
  <2> HIDE DEF F
  <2> QED BY <1>0, <2>1, <2>2, <2>3, <2>4
<1> HIDE DEF Label, share, F
<1>6. Label(0) = 0 /\ Label(last) = Bins - 1
  <2>1. Label(0) \in 0..(Bins - 1) /\ (Label(0) >= 1 <=> 0 >= F(1))
    BY <1>0, <1>1
  <2>2. F(0 + 1) - F(0) \in {share, share + 1} /\ F(1) \in Nat
    BY <1>2
  <2>3. Label(last) \in 0..(Bins - 1) /\ (Label(last) >= Bins - 1 <=> last >= F(Bins - 1))
    BY <1>0, <1>1
  <2>4. F(Bins - 1) <= last /\ F(Bins - 1) \in Nat
    BY <1>0, <1>2, <1>5
  <2> QED BY <1>0, <1>3, <1>4, <2>1, <2>2, <2>3, <2>4
<1>7. ASSUME NEW i \in 1..last PROVE Label(i) - Label(i - 1) \in {0, 1}
  <2> DEFINE x == Label(i - 1)
             y == Label(i)
  <2>1. x \in 0..(Bins - 1) /\ y \in 0..(Bins - 1) /\ i \in 0..last /\ i - 1 \in 0..last
    BY <1>0, <1>1
  <2>2. y >= x
    <3>1. i - 1 >= F(x) /\ F(x) \in Nat
      BY <1>1, <1>2, <2>1
    <3>2. y >= x <=> i >= F(x)
      BY <1>1, <2>1
    <3> HIDE DEF x, y
    <3> QED BY <3>1, <3>2
  <2>3. ASSUME y >= x + 2 PROVE FALSE
    <3>1. x + 1 \in 0..(Bins - 1) /\ x + 2 \in 0..(Bins - 1)
      <4> HIDE DEF x, y
      <4> QED BY <1>0, <2>1, <2>3
    <3>2. (x >= x + 1 <=> i - 1 >= F(x + 1)) /\ (y >= x + 2 <=> i >= F(x + 2))
      BY <1>1, <2>1, <3>1
    <3>3. F((x + 1) + 1) - F(x + 1) \in {share, share + 1} /\ F(x + 1) \in Nat
      <4> HIDE DEF x, y
      <4> QED BY <1>2, <3>1
    <3>4. (x + 1) + 1 = x + 2 /\ F(x + 2) \in Nat
      <4> HIDE DEF x, y
      <4>1. x \in Nat /\ x + 1 \in Nat /\ x + 2 \in Nat /\ (x + 1) + 1 = x + 2
        BY <1>0, <2>1
      <4> QED BY <1>2, <4>1
    <3> HIDE DEF x, y
    <3> QED BY <1>3, <2>1, <2>3, <3>2, <3>3, <3>4
  <2> HIDE DEF x, y
  <2>4. y - x \in {0, 1}
    BY <2>1, <2>2, <2>3
  <2> QED BY <2>4 DEF x, y
<1>8. ASSUME NEW bin \in 0..(Bins - 1)
      PROVE  Size(bin) - (IF bin = Bins - 1 THEN 1 ELSE 0) \in {share, share + 1}
  <2>1. /\ F(bin) \in Nat /\ F(bin + 1) \in Nat
        /\ F(bin + 1) - F(bin) \in {share, share + 1}
    BY <1>2
  <2>2. CASE bin = Bins - 1
    <3>1. {i \in 0..last : Label(i) = bin} = F(bin)..last
      <4>1. \A i \in 0..last : Label(i) = bin <=> i >= F(bin)
        BY <1>0, <1>1, <2>2
      <4> QED BY <2>1, <4>1
    <3>2. F(bin) <= last /\ F(bin + 1) = last
      BY <1>0, <1>4, <1>5, <2>2
    <3>3. Size(bin) = last - F(bin) + 1
      <4> DEFINE f == F(bin)
      <4>1. f \in Int /\ last \in Int
        BY <2>1
      <4>2. f <= last
        BY <3>2
      <4> HIDE DEF f
      <4>3. Cardinality(f..last) = IF f > last THEN 0 ELSE last - f + 1
        BY <4>1, FS_Interval
      <4>4. Cardinality(f..last) = last - f + 1
        BY <4>1, <4>2, <4>3
      <4> QED BY <3>1, <4>4 DEF f
    <3> HIDE DEF Size
    <3> QED BY <1>0, <1>3, <2>1, <2>2, <3>2, <3>3
  <2>3. CASE bin # Bins - 1
    <3>1. bin + 1 \in 0..(Bins - 1) /\ F(bin + 1) <= last
      BY <1>0, <1>5, <2>3
    <3>2. {i \in 0..last : Label(i) = bin} = F(bin)..(F(bin + 1) - 1)
      <4>1. \A i \in 0..last : Label(i) = bin <=> i >= F(bin) /\ ~(i >= F(bin + 1))
        <5> SUFFICES ASSUME NEW i \in 0..last
                     PROVE  Label(i) = bin <=> i >= F(bin) /\ ~(i >= F(bin + 1))
          OBVIOUS
        <5>1. /\ Label(i) \in 0..(Bins - 1) /\ (Label(i) >= bin <=> i >= F(bin))
              /\ Label(i) >= bin + 1 <=> i >= F(bin + 1)
          BY <1>1, <3>1
        <5> QED BY <1>0, <5>1
      <4> QED BY <2>1, <3>1, <4>1
    <3>3. Size(bin) = F(bin + 1) - F(bin)
      <4> DEFINE f == F(bin)
                 g == F(bin + 1)
      <4>1. f \in Int /\ g - 1 \in Int
        BY <2>1
      <4> HIDE DEF f, g
      <4>2. Cardinality(f..(g - 1)) = IF f > g - 1 THEN 0 ELSE (g - 1) - f + 1
        BY <4>1, FS_Interval
      <4>3. f \in Nat /\ g \in Nat /\ g - f \in {share, share + 1}
        BY <2>1 DEF f, g
      <4>4. Cardinality(f..(g - 1)) = g - f
        BY <1>3, <4>2, <4>3
      <4> QED BY <3>2, <4>4 DEF f, g
    <3> HIDE DEF Size
    <3> QED BY <1>3, <2>1, <2>3, <3>3
  <2> QED BY <2>2, <2>3
<1> QED BY <1>6, <1>7, <1>8 DEF Label, share

-----------------------------------------------------------------------------
(* The theorems.                                                           *)

\* Type correctness.
THEOREM TypeCorrect == Spec => []TypeOK
<1>1. HistoryInv => TypeOK
  <2> SUFFICES ASSUME HistoryInv PROVE TypeOK
    OBVIOUS
  <2>1. DequesInv /\ Recording /\ Len(recorded) \in Nat /\ start \in Nat
    BY DEF HistoryInv, DequesInv, Recording
  <2>2. ASSUME NEW q, NEW offs, Latest(q, offs, Len(recorded), start)
        PROVE  q \in Seq(0..Len(recorded))
    <3>1. q \in Seq(Nat) /\ Len(q) \in Nat /\ Len(q) <= Len(recorded) - start
      BY <2>2 DEF Latest
    <3>2. \A i \in 1..Len(q) : q[i] \in 0..Len(recorded)
      BY <2>1, <2>2, <3>1 DEF Latest
    <3> QED BY <3>1, <3>2
  <2> QED BY <2>1, <2>2 DEF TypeOK, DequesInv, Recording
<1> QED BY <1>1, HistoryInvariant, PTL

\* Whatever windows a policy is configured with and however many frames and
\* episodes there were, the live policy sees what it was trained on
\* (observation_history.py:44).
THEOREM LiveAsTrained == Spec => []LiveMatchesTraining
<1>1. HistoryInv => LiveMatchesTraining
  <2> SUFFICES ASSUME HistoryInv, Len(recorded) > start, NEW key \in Key
               PROVE  Shown(Snapshot(frames[key], offsets[key])) = Training(offsets[key])
    BY DEF LiveMatchesTraining
  <2>1. /\ Recording /\ offsets[key] \in Window
        /\ Latest(frames[key], offsets[key], Len(recorded), start)
    BY OffsetsAreWindows DEF HistoryInv, DequesInv
  <2> QED BY <2>1, SnapshotMatches, MatchesTraining
<1> QED BY <1>1, HistoryInvariant, PTL

\* A snapshot keeps showing what it showed (observation_history.py:40 and :56).
THEOREM SnapshotsSurvive == Spec => []SnapshotSurvives
<1>1. HistoryInv => SnapshotSurvives
  BY DEF HistoryInv, SnapshotInv, SnapshotSurvives
<1> QED BY <1>1, HistoryInvariant, PTL

\* The policy's own windows agree with training when the states of every
\* window reach back without a gap, as configured windows do
\* (cyclemanip.py, cycle_state_delta_indices).
THEOREM FallbackAsTrained ==
  ASSUME \A w \in Windows : Gapless(w["state"])
  PROVE  Spec => []FallbackMatchesTraining
<1>1. HistoryInv => FallbackMatchesTraining
  <2> SUFFICES ASSUME HistoryInv, Len(recorded) > start
               PROVE  FallbackMatchesTraining
    BY DEF FallbackMatchesTraining
  <2>1. Recording /\ \A key \in Key :
          /\ offsets[key] \in Window
          /\ Latest(fallback[key], offsets[key], Len(recorded), start)
    BY OffsetsAreWindows DEF HistoryInv, DequesInv
  <2>2. Gapless(offsets["state"])
    BY DEF HistoryInv, DequesInv
  <2>3. "state" \in Key /\ "image" \in Key
    BY DEF Key
  <2>4. Shown(FallbackImages(fallback["image"], offsets["image"])) = Training(offsets["image"])
    BY <2>1, <2>3, FallbackImagesMatch, MatchesTraining
  <2>5. DOMAIN Training(offsets["state"]) = DOMAIN offsets["state"]
    BY DEF Training
  <2>6. ASSUME NEW i \in DOMAIN offsets["state"]
        PROVE  LET shown   == Shown(FallbackState(fallback["state"], offsets["state"]))
                   due_now == Training(offsets["state"])
               IN  /\ shown[i].is_pad = due_now[i].is_pad
                   /\ ~shown[i].is_pad => shown[i].frame = due_now[i].frame
    BY <2>1, <2>2, <2>3, FallbackStateMatches
  <2> QED BY <2>4, <2>5, <2>6 DEF FallbackMatchesTraining
<1> QED BY <1>1, HistoryInvariant, PTL

\* Every episode spreads its frames over all progress bins, in order and
\* evenly, however long it is and however many bins there are
\* (cyclemanip.py:52).
THEOREM ProgressIsBalanced == Spec => []ProgressBalanced
<1>1. HistoryInv => ProgressBalanced
  <2> SUFFICES ASSUME HistoryInv, Len(recorded) - start > Bins PROVE ProgressBalanced
    BY DEF ProgressBalanced
  <2> DEFINE last == Len(recorded) - start - 1
  <2>1. Len(recorded) \in Nat /\ start \in Nat /\ Bins \in Nat
    BY BinsAssumption DEF HistoryInv, DequesInv, Recording
  <2>2. last \in Nat /\ last >= Bins
    BY <2>1
  <2>3. last + 1 = Len(recorded) - start /\ (Len(recorded) - start) - 1 = last
    BY <2>1
  <2> HIDE DEF last
  <2> QED BY <2>2, <2>3, LabelsBalanced DEF ProgressBalanced
<1> QED BY <1>1, HistoryInvariant, PTL
=============================================================================
