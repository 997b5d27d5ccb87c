--------------------------- MODULE QmuxTasksProofs ---------------------------
(***************************************************************************)
(* What the tasks of a QMux session share.                                 *)
(*                                                                         *)
(* The outbound queue keeps its two maps, its count and the order of every *)
(* stream's frames exact, serves by priority and in turn, and lets nobody  *)
(* sleep through a wake-up, for every set of streams and priorities and    *)
(* every capacity.                                                         *)
(*                                                                         *)
(* The idle timer, for every window and every delay, reclaims a silent     *)
(* peer within four windows and recognises the answer to a ping; and it    *)
(* does not take a live peer for a dead one, when its frames come within   *)
(* the window and what blocks a task of ours ends within two.              *)
(***************************************************************************)
EXTENDS PriorityQueue, IdleTimer, FiniteSetTheorems, SequenceTheorems,
        WellFoundedInduction, TLAPS

----------------------------------------------------------------------------
(* Sequences seen as the set of their elements                              *)

\* A nonempty set of priorities has a highest one, and Max is it: the lookup of
\* the last band by pop_locked is defined whenever there is a band.
LEMMA MaxExists ==
  ASSUME NEW T \in SUBSET Priorities, T # {}
  PROVE  Max(T) \in T /\ \A y \in T : y <= Max(T)
<1> DEFINE D == {255 - p : p \in T}
<1>1. D \subseteq Nat /\ D # {}
  <2>1. \A p \in T : p \in 0 .. 255 BY PrioritiesAreBytes
  <2>2. \A p \in T : 255 - p \in Nat BY <2>1
  <2> QED BY <2>2
<1> HIDE DEF D
<1>2. \E m \in D : \A y \in D : ~ (<<y, m>> \in OpToRel(<, Nat)) BY <1>1, WFMin, NatLessThanWellFounded, Zenon
<1>4. PICK m \in D : \A y \in D : ~ (y < m) BY <1>1, <1>2 DEF OpToRel
<1>5. PICK x \in T : m = 255 - x BY DEF D
<1>6. \A y \in T : x >= y
  <2> SUFFICES ASSUME NEW y \in T PROVE x >= y OBVIOUS
  <2>1. 255 - y \in D BY DEF D
  <2>2. ~ (255 - y < m) BY <1>1, <1>4, <2>1
  <2> QED BY <2>2, <1>5, PrioritiesAreBytes
<1>7. Max(T) \in T /\ \A y \in T : Max(T) >= y BY <1>6 DEF Max
<1> QED BY <1>7, PrioritiesAreBytes

\* The elements of a sequence.
LEMMA RangeElements ==
  ASSUME NEW S, NEW s \in Seq(S)
  PROVE  /\ Range(s) = {s[i] : i \in 1 .. Len(s)} /\ Range(s) \subseteq S
         /\ s = <<>> <=> Range(s) = {}
         /\ IsInjective(s) <=>
              \A i, j \in 1 .. Len(s) : s[i] = s[j] => i = j
         /\ \A e : Contains(s, e) <=> e \in Range(s)
<1>1. DOMAIN s = 1 .. Len(s) /\ Len(s) \in Nat OBVIOUS
<1>2. Range(s) = {s[i] : i \in 1 .. Len(s)} BY <1>1 DEF Range
<1>3. \A i \in 1 .. Len(s) : s[i] \in S OBVIOUS
<1>4. s = <<>> <=> Range(s) = {} BY <1>1, <1>2, EmptySeq
<1> QED BY <1>1, <1>2, <1>3, <1>4 DEF IsInjective, Contains

\* x comes before y in q.
Precedes(q, x, y) == \E i, j \in DOMAIN q : i < j /\ q[i] = x /\ q[j] = y

\* Pushing a new id at the back of a band adds it to the band.
LEMMA AppendElements ==
  ASSUME NEW S, NEW s \in Seq(S), NEW e \in S
  PROVE  /\ Append(s, e) \in Seq(S) /\ Append(s, e) # <<>> /\ Range(Append(s, e)) = Range(s) \cup {e}
         /\ (IsInjective(s) /\ e \notin Range(s)) => IsInjective(Append(s, e))
<1> DEFINE t == Append(s, e)
<1>1. /\ t \in Seq(S) /\ Len(t) = Len(s) + 1 /\ Len(s) \in Nat
      /\ \A i \in 1 .. Len(s) : t[i] = s[i]
      /\ t[Len(s) + 1] = e OBVIOUS
<1> HIDE DEF t
<1>2. 1 .. Len(t) = (1 .. Len(s)) \cup {Len(s) + 1} BY <1>1
<1>3. Range(t) = Range(s) \cup {e} BY <1>1, <1>2, RangeElements
<1>4. (IsInjective(s) /\ e \notin Range(s)) => IsInjective(t) BY <1>1, <1>2, RangeElements
<1>5. t # <<>> BY <1>1, EmptySeq
<1> QED BY <1>1, <1>3, <1>4, <1>5 DEF t

\* Popping the front of a band takes exactly that id out of it.
LEMMA TailElements ==
  ASSUME NEW S, NEW s \in Seq(S), s # <<>>, IsInjective(s)
  PROVE  /\ Head(s) \in Range(s) /\ Tail(s) \in Seq(S) /\ Range(Tail(s)) = Range(s) \ {Head(s)} /\ IsInjective(Tail(s))
<1> DEFINE t == Tail(s)
<1>1. /\ t \in Seq(S) /\ Len(t) = Len(s) - 1 /\ Len(s) \in Nat \ {0}
      /\ \A i \in 1 .. Len(s) - 1 : t[i] = s[i + 1]
      /\ Head(s) = s[1] BY EmptySeq
<1> HIDE DEF t
<1>2. \A i, j \in 1 .. Len(s) : s[i] = s[j] => i = j BY RangeElements
<1>3. \A i \in 2 .. Len(s) : i - 1 \in 1 .. Len(t) /\ t[i - 1] = s[i] /\ s[i] # s[1] BY <1>1, <1>2
<1>4. Range(t) = Range(s) \ {s[1]}
  <2>1. ASSUME NEW i \in 1 .. Len(t) PROVE t[i] \in Range(s) \ {s[1]} BY <1>1, <1>2, RangeElements
  <2>2. ASSUME NEW i \in 1 .. Len(s), s[i] # s[1] PROVE s[i] \in Range(t)
    <3>1. i \in 2 .. Len(s) BY <1>1, <2>2
    <3> QED BY <3>1, <1>3, <1>1, RangeElements
  <2> QED BY <2>1, <2>2, <1>1, RangeElements
<1>5. IsInjective(t) BY <1>1, <1>2, RangeElements
<1>6. s[1] \in Range(s) BY <1>1, RangeElements
<1> QED BY <1>1, <1>4, <1>5, <1>6 DEF t

\* Removing an id at its position takes exactly that id out of the band, and
\* the ids that stay keep their order.
LEMMA UnlinkElements ==
  ASSUME NEW S, NEW s \in Seq(S), IsInjective(s), NEW e
  PROVE  /\ Unlink(s, e) \in Seq(S) /\ Range(Unlink(s, e)) = Range(s) \ {e} /\ IsInjective(Unlink(s, e))
         /\ \A x, y : Precedes(Unlink(s, e), x, y) => Precedes(s, x, y)
<1>1. CASE ~ Contains(s, e) BY <1>1, RangeElements DEF Unlink
<1>2. CASE Contains(s, e)
  <2>1. PICK k \in 1 .. Len(s) : s[k] = e BY <1>2 DEF Contains
  <2>2. \A i, j \in 1 .. Len(s) : s[i] = s[j] => i = j BY RangeElements
  <2>3. Len(s) \in Nat /\ DOMAIN s = 1 .. Len(s) /\ \A i \in 1 .. Len(s) : s[i] \in S OBVIOUS
  <2>4. Position(s, e) = k BY <2>1, <2>2, <2>3 DEF Position
  <2> DEFINE a == SubSeq(s, 1, k - 1)
             b == SubSeq(s, k + 1, Len(s))
             t == a \o b
  <2>5. /\ a \in Seq(S) /\ Len(a) = k - 1
        /\ \A j \in 1 .. k - 1 : a[j] = s[j] BY <2>3, SubSeqProperties
  <2>6. /\ b \in Seq(S) /\ Len(b) = Len(s) - k
        /\ \A j \in 1 .. Len(s) - k : b[j] = s[k + j]
    <3>1. \A j \in k + 1 .. Len(s) : s[j] \in S BY <2>3
    <3>2. /\ b \in Seq(S)
          /\ Len(b) = IF k + 1 <= Len(s) THEN Len(s) - (k + 1) + 1 ELSE 0
          /\ \A j \in 1 .. Len(s) - (k + 1) + 1 : b[j] = s[(k + 1) + j - 1] BY <3>1, <2>3, SubSeqProperties
    <3> HIDE DEF a, b
    <3>3. Len(b) = Len(s) - k /\ Len(s) - (k + 1) + 1 = Len(s) - k
      <4>1. k <= Len(s) /\ k \in Int /\ Len(s) \in Int BY <2>3
      <4>2. CASE k + 1 <= Len(s) BY <3>2, <4>1, <4>2
      <4>3. CASE ~ (k + 1 <= Len(s)) BY <3>2, <4>1, <4>3
      <4> QED BY <4>2, <4>3
    <3>4. ASSUME NEW j \in 1 .. Len(s) - k PROVE b[j] = s[k + j]
      <4>1. (k + 1) + j - 1 = k + j OBVIOUS
      <4> QED BY <4>1, <3>2, <3>3
    <3> QED BY <3>2, <3>3, <3>4
  <2> HIDE DEF a, b
  <2>7. /\ t \in Seq(S) /\ Len(t) = Len(s) - 1
        /\ \A j \in 1 .. k - 1 : t[j] = s[j]
        /\ \A j \in k .. Len(s) - 1 : t[j] = s[j + 1]
    <3>1. /\ t \in Seq(S) /\ Len(t) = Len(a) + Len(b)
          /\ \A j \in 1 .. Len(a) + Len(b) :
               t[j] = IF j <= Len(a) THEN a[j] ELSE b[j - Len(a)] BY <2>5, <2>6, ConcatProperties
    <3>2. \A j \in 1 .. k - 1 : t[j] = s[j] BY <3>1, <2>5, <2>6, <2>3
    <3>3. ASSUME NEW j \in k .. Len(s) - 1 PROVE t[j] = s[j + 1]
      <4>1. t[j] = b[j - (k - 1)] /\ j - (k - 1) \in 1 .. Len(s) - k BY <3>1, <2>5, <2>6, <2>3
      <4>2. k + (j - (k - 1)) = j + 1 OBVIOUS
      <4> QED BY <4>1, <4>2, <2>6
    <3> QED BY <3>1, <3>2, <3>3, <2>5, <2>6, <2>3
  <2> HIDE DEF t
  <2>8. Unlink(s, e) = t BY <1>2, <2>4 DEF Unlink, RemoveAt, t, a, b
  <2>9. \A j \in 1 .. Len(t) : \E i \in 1 .. Len(s) :
           i # k /\ t[j] = s[i] /\ i = IF j < k THEN j ELSE j + 1 BY <2>3, <2>7
  <2>10. \A i \in 1 .. Len(s) : i # k => \E j \in 1 .. Len(t) : t[j] = s[i]
    <3> SUFFICES ASSUME NEW i \in 1 .. Len(s), i # k
                 PROVE  \E j \in 1 .. Len(t) : t[j] = s[i] OBVIOUS
    <3>1. CASE i < k BY <3>1, <2>3, <2>7
    <3>2. CASE i > k
      <4>1. i - 1 \in k .. Len(s) - 1 /\ i - 1 \in 1 .. Len(t) /\ (i - 1) + 1 = i BY <3>2, <2>3, <2>7
      <4>2. t[i - 1] = s[i] BY <4>1, <2>7
      <4> QED BY <4>1, <4>2
    <3> QED BY <3>1, <3>2, <2>3
  <2>11. Range(t) = Range(s) \ {e}
    <3>1. Range(t) = {t[j] : j \in 1 .. Len(t)} BY <2>7, RangeElements
    <3>2. Range(s) = {s[j] : j \in 1 .. Len(s)} BY RangeElements
    <3> QED BY <3>1, <3>2, <2>1, <2>2, <2>9, <2>10, SMTT(30)
  <2>12. IsInjective(t)
    <3> SUFFICES ASSUME NEW i \in 1 .. Len(t), NEW j \in 1 .. Len(t), t[i] = t[j]
                 PROVE  i = j BY <2>7, RangeElements
    <3> QED BY <2>2, <2>3, <2>7, <2>9
  <2>13. \A x, y : Precedes(t, x, y) => Precedes(s, x, y)
    <3> SUFFICES ASSUME NEW i \in 1 .. Len(t), NEW j \in 1 .. Len(t), i < j
                 PROVE  Precedes(s, t[i], t[j])
      <4>1. DOMAIN t = 1 .. Len(t) BY <2>7
      <4> QED BY <4>1 DEF Precedes
    <3>1. PICK a1 \in 1 .. Len(s) : t[i] = s[a1] /\ a1 = IF i < k THEN i ELSE i + 1 BY <2>9
    <3>2. PICK a2 \in 1 .. Len(s) : t[j] = s[a2] /\ a2 = IF j < k THEN j ELSE j + 1 BY <2>9
    <3>3. a1 < a2 BY <2>3, <2>7, <3>1, <3>2
    <3> QED BY <2>3, <3>1, <3>2, <3>3 DEF Precedes
  <2> QED BY <2>7, <2>8, <2>11, <2>12, <2>13
<1> QED BY <1>1, <1>2

----------------------------------------------------------------------------
(* The band map                                                             *)

\* The band map ks, bs lists the slots sl at the priorities sp.
Banded(ks, bs, sl, sp) ==
  /\ ks \subseteq Priorities /\ bs \in [Priorities -> Seq(Streams)]
  /\ \A p \in Priorities :
       /\ p \in ks <=> bs[p] # <<>>
       /\ Range(bs[p]) = {s \in sl : sp[s] = p} /\ IsInjective(bs[p])

\* arm schedules an id that is not scheduled yet.
LEMMA ArmBanded ==
  ASSUME NEW ks, NEW bs, NEW sl \in SUBSET Streams,
         NEW sp \in [Streams -> Priorities],
         NEW id \in Streams \ sl, NEW band \in Priorities,
         Banded(ks, bs, sl, sp)
  PROVE  Banded(Arm(ks, bs, id, band).keys, Arm(ks, bs, id, band).bands,
                sl \cup {id}, [sp EXCEPT ![id] = band])
<1> DEFINE nb == [bs EXCEPT ![band] = Append(bs[band], id)]
           np == [sp EXCEPT ![id] = band]
           nk == ks \cup {band}
<1>1. bs \in [Priorities -> Seq(Streams)] /\ ks \subseteq Priorities BY DEF Banded
<1>2. /\ Append(bs[band], id) \in Seq(Streams) /\ Append(bs[band], id) # <<>>
      /\ Range(Append(bs[band], id)) = Range(bs[band]) \cup {id} /\ id \notin Range(bs[band])
      /\ IsInjective(Append(bs[band], id)) BY <1>1, AppendElements DEF Banded
<1>3. nb \in [Priorities -> Seq(Streams)] BY <1>1, <1>2
<1>4. ASSUME NEW p \in Priorities
      PROVE  /\ p \in nk <=> nb[p] # <<>>
             /\ Range(nb[p]) = {s \in sl \cup {id} : np[s] = p} /\ IsInjective(nb[p])
  <2>1. /\ p \in ks <=> bs[p] # <<>>
        /\ Range(bs[p]) = {s \in sl : sp[s] = p}
        /\ IsInjective(bs[p]) BY DEF Banded
  <2>2. CASE p = band
    <3>1. nb[p] = Append(bs[band], id) BY <1>1, <2>2
    <3>2. {s \in sl \cup {id} : np[s] = p} = {s \in sl : sp[s] = p} \cup {id} BY <2>2
    <3> QED BY <1>2, <2>1, <2>2, <3>1, <3>2
  <2>3. CASE p # band
    <3>1. nb[p] = bs[p] BY <1>1, <2>3
    <3>2. {s \in sl \cup {id} : np[s] = p} = {s \in sl : sp[s] = p} BY <2>3
    <3> QED BY <2>1, <2>3, <3>1, <3>2
  <2> QED BY <2>2, <2>3
<1>5. Banded(nk, nb, sl \cup {id}, np) BY <1>1, <1>3, <1>4 DEF Banded
<1>6. Arm(ks, bs, id, band).keys = nk /\ Arm(ks, bs, id, band).bands = nb BY DEF Arm
<1> QED BY <1>5, <1>6

\* A band that loses id and no other stays exact for the slots without id;
\* an emptied band leaves the map.
LEMMA ShortenedBanded ==
  ASSUME NEW ks, NEW bs, NEW sl \in SUBSET Streams,
         NEW sp \in [Streams -> Priorities],
         NEW id \in sl, NEW rest \in Seq(Streams),
         Range(rest) = Range(bs[sp[id]]) \ {id}, IsInjective(rest),
         Banded(ks, bs, sl, sp)
  PROVE  Banded(IF rest = <<>> THEN ks \ {sp[id]} ELSE ks,
                [bs EXCEPT ![sp[id]] = rest], sl \ {id}, sp)
<1> DEFINE band == sp[id]
           nb == [bs EXCEPT ![band] = rest]
           nk == IF rest = <<>> THEN ks \ {band} ELSE ks
<1>1. bs \in [Priorities -> Seq(Streams)] /\ ks \subseteq Priorities BY DEF Banded
<1>2. band \in Priorities /\ id \in Range(bs[band]) BY DEF Banded
<1>3. band \in ks BY <1>1, <1>2, RangeElements DEF Banded
<1>4. nb \in [Priorities -> Seq(Streams)] /\ nk \subseteq Priorities BY <1>1, <1>2
<1>5. ASSUME NEW p \in Priorities
      PROVE  /\ p \in nk <=> nb[p] # <<>>
             /\ Range(nb[p]) = {s \in sl \ {id} : sp[s] = p} /\ IsInjective(nb[p])
  <2>1. /\ p \in ks <=> bs[p] # <<>>
        /\ Range(bs[p]) = {s \in sl : sp[s] = p}
        /\ IsInjective(bs[p]) BY DEF Banded
  <2>2. CASE p = band
    <3>1. nb[p] = rest BY <1>1, <2>2
    <3>2. {s \in sl \ {id} : sp[s] = p} = {s \in sl : sp[s] = p} \ {id} OBVIOUS
    <3> QED BY <1>3, <2>1, <2>2, <3>1, <3>2
  <2>3. CASE p # band
    <3>1. nb[p] = bs[p] BY <1>1, <2>3
    <3>2. {s \in sl \ {id} : sp[s] = p} = {s \in sl : sp[s] = p} BY <2>3
    <3> QED BY <2>1, <2>3, <3>1, <3>2
  <2> QED BY <2>2, <2>3
<1> QED BY <1>4, <1>5 DEF Banded

\* set_priority and remove take the pointer of a scheduled id out of its band.
LEMMA UnscheduleBanded ==
  ASSUME NEW ks, NEW bs, NEW sl \in SUBSET Streams,
         NEW sp \in [Streams -> Priorities], NEW id \in sl,
         Banded(ks, bs, sl, sp)
  PROVE  /\ Contains(bs[sp[id]], id)
         /\ Banded(Unschedule(ks, bs, id, sp[id]).keys,
                   Unschedule(ks, bs, id, sp[id]).bands, sl \ {id}, sp)
<1> DEFINE rest == Unlink(bs[sp[id]], id)
<1>1. bs[sp[id]] \in Seq(Streams) /\ IsInjective(bs[sp[id]])
      /\ id \in Range(bs[sp[id]]) BY DEF Banded
<1>2. Contains(bs[sp[id]], id) BY <1>1, RangeElements
<1>3. /\ rest \in Seq(Streams) /\ IsInjective(rest)
      /\ Range(rest) = Range(bs[sp[id]]) \ {id} BY <1>1, UnlinkElements
<1> HIDE DEF rest
<1>4. Banded(IF rest = <<>> THEN ks \ {sp[id]} ELSE ks,
             [bs EXCEPT ![sp[id]] = rest], sl \ {id}, sp) BY <1>3, ShortenedBanded
<1>5. Unschedule(ks, bs, id, sp[id]) =
        [keys  |-> IF rest = <<>> THEN ks \ {sp[id]} ELSE ks,
         bands |-> [bs EXCEPT ![sp[id]] = rest]] BY DEF Unschedule, rest
<1> QED BY <1>2, <1>4, <1>5

\* pop_locked takes the front id of a band that is in the map: it has a slot,
\* whose priority is the band's.
LEMMA PopBanded ==
  ASSUME NEW ks, NEW bs, NEW sl \in SUBSET Streams,
         NEW sp \in [Streams -> Priorities], NEW band \in ks,
         Banded(ks, bs, sl, sp)
  PROVE  /\ Head(bs[band]) \in sl /\ sp[Head(bs[band])] = band
         /\ Banded(IF Tail(bs[band]) = <<>> THEN ks \ {band} ELSE ks,
                   [bs EXCEPT ![band] = Tail(bs[band])],
                   sl \ {Head(bs[band])}, sp)
<1> DEFINE id == Head(bs[band])
           rest == Tail(bs[band])
<1>1. /\ band \in Priorities /\ bs[band] \in Seq(Streams) /\ bs[band] # <<>> /\ IsInjective(bs[band])
      /\ Range(bs[band]) = {s \in sl : sp[s] = band} BY DEF Banded
<1>2. /\ id \in Range(bs[band]) /\ rest \in Seq(Streams)
      /\ Range(rest) = Range(bs[band]) \ {id} /\ IsInjective(rest) BY <1>1, TailElements
<1> HIDE DEF id, rest
<1>3. id \in sl /\ sp[id] = band BY <1>1, <1>2
<1>4. Banded(IF rest = <<>> THEN ks \ {band} ELSE ks,
             [bs EXCEPT ![band] = rest], sl \ {id}, sp) BY <1>2, <1>3, ShortenedBanded
<1> QED BY <1>3, <1>4 DEF id, rest

\* The map of the queue in these terms.
LEMMA BandsForm ==
  ASSUME TypeOK
  PROVE  /\ BandsExact <=> /\ Banded(keys, bands, slots, slotPriority)
                           /\ SlotsHaveFrames BY DEF TypeOK, BandsExact, KeysAreNonEmpty, BandsHoldSlots, Banded

----------------------------------------------------------------------------
(* Counting                                                                 *)

\* The queued frames, stream by stream.
LEMMA QueuedElements ==
  Queued = {q \in Streams \X Nat : q[2] \in 1 .. Len(frames[q[1]])} BY DEF Queued

\* Appending a frame adds one to the queued frames.
LEMMA CountAppend ==
  ASSUME TypeOK, IsFiniteSet(Queued), NEW id \in Streams, NEW f \in Frame,
         frames' = [frames EXCEPT ![id] = Append(@, f)]
  PROVE  IsFiniteSet(Queued') /\ Cardinality(Queued') = Cardinality(Queued) + 1
<1> DEFINE n == Len(frames[id])
           new == <<id, n + 1>>
<1>1. frames \in [Streams -> Seq(Frame)] /\ n \in Nat BY DEF TypeOK
<1>2. \A s \in Streams : Len(frames'[s]) = IF s = id THEN n + 1 ELSE Len(frames[s]) BY <1>1
<1>3. new \notin Queued BY <1>1, QueuedElements
<1>4. Queued' = Queued \cup {new}
  <2>1. 1 .. n + 1 = (1 .. n) \cup {n + 1} BY <1>1
  <2>2. \A s \in Streams, i \in Nat :
          <<s, i>> \in Queued' <=> <<s, i>> \in Queued \/ <<s, i>> = new BY <1>2, <2>1 DEF Queued
  <2>3. /\ Queued \subseteq Streams \X Nat /\ new \in Streams \X Nat
        /\ Queued' \subseteq Streams \X Nat BY <1>1, QueuedElements DEF Queued
  <2> QED BY <2>2, <2>3
<1> QED BY <1>3, <1>4, FS_AddElement

\* Taking the first frame of a stream removes one queued frame.
LEMMA CountTail ==
  ASSUME TypeOK, IsFiniteSet(Queued), NEW id \in Streams, frames[id] # <<>>,
         frames' = [frames EXCEPT ![id] = Tail(frames[id])]
  PROVE  IsFiniteSet(Queued') /\ Cardinality(Queued') = Cardinality(Queued) - 1
<1> DEFINE n == Len(frames[id])
           old == <<id, n>>
<1>1. frames \in [Streams -> Seq(Frame)] /\ n \in Nat \ {0} BY EmptySeq DEF TypeOK
<1>2. \A s \in Streams : Len(frames'[s]) = IF s = id THEN n - 1 ELSE Len(frames[s]) BY <1>1
<1>3. old \in Queued BY <1>1, QueuedElements
<1>4. Queued' = Queued \ {old}
  <2>1. 1 .. n - 1 = (1 .. n) \ {n} BY <1>1
  <2>2. \A s \in Streams, i \in Nat :
          <<s, i>> \in Queued' <=> <<s, i>> \in Queued /\ <<s, i>> # old BY <1>2, <2>1 DEF Queued
  <2>3. Queued \subseteq Streams \X Nat /\ Queued' \subseteq Streams \X Nat BY QueuedElements DEF Queued
  <2> QED BY <2>2, <2>3
<1> QED BY <1>3, <1>4, FS_RemoveElement

\* Dropping a stream's frames removes as many queued frames as it had.
LEMMA CountClear ==
  ASSUME TypeOK, IsFiniteSet(Queued), NEW id \in Streams,
         frames' = [frames EXCEPT ![id] = <<>>]
  PROVE  /\ IsFiniteSet(Queued') /\ Cardinality(Queued') = Cardinality(Queued) - Len(frames[id])
<1> DEFINE n == Len(frames[id])
           old == {id} \X (1 .. n)
<1>1. frames \in [Streams -> Seq(Frame)] /\ n \in Nat BY DEF TypeOK
<1>2. \A s \in Streams : Len(frames'[s]) = IF s = id THEN 0 ELSE Len(frames[s]) BY <1>1
<1>3. IsFiniteSet(old) /\ Cardinality(old) = n
  <2>1. IsFiniteSet(1 .. n) /\ Cardinality(1 .. n) = n
    <3> HIDE DEF n
    <3>1. /\ IsFiniteSet(1 .. n)
          /\ Cardinality(1 .. n) = IF 1 > n THEN 0 ELSE n - 1 + 1 BY <1>1, FS_Interval
    <3> QED BY <1>1, <3>1
  <2>2. IsFiniteSet({id}) /\ Cardinality({id}) = 1 BY FS_Singleton
  <2>3. IsFiniteSet(old) /\ Cardinality(old) = 1 * n BY <2>1, <2>2, FS_Product
  <2> QED BY <2>3, <1>1
<1>4. Queued' = Queued \ old
  <2>2. \A s \in Streams, i \in Nat :
          <<s, i>> \in Queued' <=> <<s, i>> \in Queued /\ <<s, i>> \notin old BY <1>2 DEF Queued
  <2>3. Queued \subseteq Streams \X Nat /\ Queued' \subseteq Streams \X Nat BY QueuedElements DEF Queued
  <2> QED BY <2>2, <2>3
<1>5. Queued \cap old = old BY DEF Queued
<1>6. /\ IsFiniteSet(Queued \ old)
      /\ Cardinality(Queued \ old) = Cardinality(Queued) - Cardinality(Queued \cap old) BY FS_Difference
<1> QED BY <1>3, <1>4, <1>5, <1>6

\* The producers that hold a permit are finitely many, one more or one less of
\* them when one gains or loses it.
LEMMA CountHolders ==
  ASSUME NEW p \in [Streams -> ProducerState], NEW id \in Streams,
         NEW st \in ProducerState
  PROVE  LET H == {s \in Streams : p[s] = "permit"}
             G == {s \in Streams : [p EXCEPT ![id] = st][s] = "permit"}
         IN  /\ IsFiniteSet(H) /\ Cardinality(H) \in Nat
             /\ (p[id] # "permit" /\ st # "permit") => G = H
             /\ (p[id] # "permit" /\ st = "permit") => Cardinality(G) = Cardinality(H) + 1
             /\ (p[id] = "permit" /\ st # "permit") => Cardinality(G) = Cardinality(H) - 1
<1> DEFINE H == {s \in Streams : p[s] = "permit"}
           G == {s \in Streams : [p EXCEPT ![id] = st][s] = "permit"}
<1>1. IsFiniteSet(H) /\ Cardinality(H) \in Nat BY StreamsAreFinite, FS_Subset, FS_CardinalityType
<1>2. (p[id] # "permit" /\ st # "permit") => G = H OBVIOUS
<1>3. (p[id] # "permit" /\ st = "permit") => G = H \cup {id} /\ id \notin H OBVIOUS
<1>4. (p[id] = "permit" /\ st # "permit") => G = H \ {id} /\ id \in H OBVIOUS
<1> HIDE DEF G, H
<1>5. (p[id] # "permit" /\ st = "permit") => Cardinality(G) = Cardinality(H) + 1 BY <1>1, <1>3, FS_AddElement
<1>6. (p[id] = "permit" /\ st # "permit") => Cardinality(G) = Cardinality(H) - 1 BY <1>1, <1>4, FS_RemoveElement
<1> QED BY <1>1, <1>2, <1>5, <1>6 DEF G, H

\* The same for a step of one producer.
LEMMA HoldersStep ==
  ASSUME pc \in [Streams -> ProducerState], NEW id \in Streams,
         NEW st \in ProducerState, pc' = [pc EXCEPT ![id] = st]
  PROVE  /\ Cardinality(Holders) \in Nat
         /\ (pc[id] # "permit" /\ st # "permit") => Holders' = Holders
         /\ (pc[id] # "permit" /\ st = "permit") =>
              Cardinality(Holders') = Cardinality(Holders) + 1
         /\ (pc[id] = "permit" /\ st # "permit") =>
              Cardinality(Holders') = Cardinality(Holders) - 1
<1>1. Holders' = {s \in Streams : [pc EXCEPT ![id] = st][s] = "permit"} BY DEF Holders
<1>2. Holders = {s \in Streams : pc[s] = "permit"} BY DEF Holders
<1> QED BY <1>1, <1>2, CountHolders

----------------------------------------------------------------------------
(* Notifications                                                            *)

\* notify_one wakes a waiting producer or stores a permit: whoever holds a slot
\* keeps it, and the others stay parked.
LEMMA NotifyKeepsHolders ==
  ASSUME NEW p \in [Streams -> ProducerState], spaceWaiters \in Seq(Streams),
         spacePermit \in BOOLEAN, IsInjective(spaceWaiters),
         \A s \in Range(spaceWaiters) : p[s] = "waiting",
         NotifySpace(p)
  PROVE  /\ pc' \in [Streams -> ProducerState] /\ spaceWaiters' \in Seq(Streams) /\ spacePermit' \in BOOLEAN
         /\ WaitersParked' /\ {s \in Streams : pc'[s] = "permit"} = {s \in Streams : p[s] = "permit"}
<1>1. CASE spaceWaiters = <<>> BY <1>1 DEF NotifySpace, WaitersParked
<1>2. CASE spaceWaiters # <<>>
  <2> DEFINE h == Head(spaceWaiters)
  <2>1. /\ h \in Range(spaceWaiters) /\ Tail(spaceWaiters) \in Seq(Streams)
        /\ Range(Tail(spaceWaiters)) = Range(spaceWaiters) \ {h}
        /\ IsInjective(Tail(spaceWaiters)) BY <1>2, TailElements
  <2>2. h \in Streams /\ p[h] = "waiting" BY <2>1, RangeElements
  <2>3. /\ pc' = [p EXCEPT ![h] = "woken"] /\ spaceWaiters' = Tail(spaceWaiters)
        /\ spacePermit' = spacePermit BY <1>2 DEF NotifySpace
  <2>4. pc' \in [Streams -> ProducerState] BY <2>2, <2>3 DEF ProducerState
  <2>5. WaitersParked'
    <3>1. Range(spaceWaiters) \subseteq Streams BY RangeElements
    <3> QED BY <2>1, <2>3, <3>1 DEF WaitersParked
  <2> QED BY <2>1, <2>2, <2>3, <2>4, <2>5
<1> QED BY <1>1, <1>2

----------------------------------------------------------------------------
(* Steps that leave the map alone                                           *)

\* What the map, the frames and the owners' calls determine is unchanged when
\* they are.
LEMMA MapUntouched ==
  ASSUME IInv, UNCHANGED <<keys, bands, slots, slotPriority, frames>>,
         UNCHANGED <<owner, popped>>
  PROVE  BandsExact' /\ Queued' = Queued /\ StreamFifo'
  BY DEF IInv, BandsExact, KeysAreNonEmpty, BandsHoldSlots, SlotsHaveFrames, Queued, StreamFifo, owner

\* len is what the counts say, hence a natural number.
LEMMA LenIsNatural ==
  ASSUME IsFiniteSet(Queued'), LenExact'
  PROVE  len' \in Nat
<1>1. IsFiniteSet(Holders') BY StreamsAreFinite, FS_Subset DEF Holders
<1> QED BY <1>1, FS_CardinalityType DEF LenExact

\* A producer that is not parked can change its own state.
LEMMA OwnStepParked ==
  ASSUME WaitersParked, spaceWaiters \in Seq(Streams),
         pc \in [Streams -> ProducerState],
         NEW id \in Streams, pc[id] # "waiting", NEW st \in ProducerState,
         pc' = [pc EXCEPT ![id] = st], UNCHANGED spaceWaiters
  PROVE  WaitersParked' /\ pc' \in [Streams -> ProducerState]
<1>1. Range(spaceWaiters) \subseteq Streams BY RangeElements
<1>2. \A s \in Range(spaceWaiters) : s # id /\ pc'[s] = "waiting" BY <1>1 DEF WaitersParked
<1> QED BY <1>2 DEF WaitersParked

\* reserve() counts the slot it hands out, and leaves the map alone when it cannot.
LEMMA ReserveKeeps ==
  ASSUME IInv, NEW id \in Streams, Reserve(id)
  PROVE  IInv'
<1> USE DEF IInv
<1>1. BandsExact' /\ Queued' = Queued /\ StreamFifo' BY MapUntouched DEF Reserve
<1>2. pc \in [Streams -> ProducerState] /\ spaceWaiters \in Seq(Streams) BY DEF TypeOK
<1>3. pc[id] \in {"idle", "retry", "woken"} /\ UNCHANGED spaceWaiters BY DEF Reserve, AtRest, space
<1>4. PICK st \in {"idle", "permit", "checked"} :
        /\ pc' = [pc EXCEPT ![id] = st]
        /\ len' = IF st = "permit" THEN len + 1 ELSE len BY DEF Reserve
<1>5. st \in ProducerState BY DEF ProducerState
<1>6. WaitersParked' /\ pc' \in [Streams -> ProducerState] BY <1>2, <1>3, <1>4, <1>5, OwnStepParked
<1>7. LenExact'
  <2>1. /\ Cardinality(Holders) \in Nat
        /\ Cardinality(Holders') =
             IF st = "permit" THEN Cardinality(Holders) + 1 ELSE Cardinality(Holders)
    <3>1. pc[id] # "permit" BY <1>3
    <3> QED BY <3>1, <1>2, <1>4, <1>5, HoldersStep
  <2>2. Cardinality(Queued) \in Nat BY FS_CardinalityType
  <2> QED BY <1>1, <1>4, <2>1, <2>2 DEF LenExact
<1>8. IsFiniteSet(Queued') BY <1>1
<1>9. len' \in Nat BY <1>4 DEF TypeOK
<1>10. TypeOK' BY <1>6, <1>9 DEF Reserve, TypeOK, space, owner
<1> QED BY <1>1, <1>6, <1>7, <1>8, <1>10

\* A producer parks on has_space, or takes the permit stored there.
LEMMA AwaitSpaceKeeps ==
  ASSUME IInv, NEW id \in Streams, AwaitSpace(id)
  PROVE  IInv'
<1> USE DEF IInv
<1>1. BandsExact' /\ Queued' = Queued /\ StreamFifo' /\ UNCHANGED len BY MapUntouched DEF AwaitSpace, inner
<1>2. pc \in [Streams -> ProducerState] /\ spaceWaiters \in Seq(Streams)
      /\ pc[id] = "checked" BY DEF TypeOK, AwaitSpace
<1>3. PICK st \in {"retry", "waiting"} : pc' = [pc EXCEPT ![id] = st] BY DEF AwaitSpace
<1>4. st \in ProducerState /\ pc' \in [Streams -> ProducerState] BY <1>2, <1>3 DEF ProducerState
<1>5. WaitersParked' /\ spaceWaiters' \in Seq(Streams) /\ spacePermit' \in BOOLEAN
  <2>1. CASE spacePermit BY <1>2, <1>3, <1>4, <2>1, OwnStepParked DEF AwaitSpace
  <2>2. CASE ~ spacePermit
    <3>1. /\ spaceWaiters' = Append(spaceWaiters, id) /\ UNCHANGED spacePermit
          /\ pc' = [pc EXCEPT ![id] = "waiting"] BY <2>2 DEF AwaitSpace
    <3>2. id \notin Range(spaceWaiters) /\ Range(spaceWaiters) \subseteq Streams
      BY <1>2, RangeElements DEF WaitersParked
    <3>3. /\ spaceWaiters' \in Seq(Streams) /\ IsInjective(spaceWaiters')
          /\ Range(spaceWaiters') = Range(spaceWaiters) \cup {id} BY <1>2, <3>1, <3>2, AppendElements DEF WaitersParked
    <3>4. \A s \in Range(spaceWaiters') : pc'[s] = "waiting" BY <1>2, <3>1, <3>2, <3>3 DEF WaitersParked
    <3> QED BY <3>1, <3>3, <3>4 DEF WaitersParked, TypeOK
  <2> QED BY <2>1, <2>2
<1>6. LenExact' /\ IsFiniteSet(Queued')
  <2>1. Holders' = Holders BY <1>2, <1>3, <1>4, CountHolders DEF Holders
  <2> QED BY <1>1, <2>1 DEF LenExact
<1>7. TypeOK' BY <1>4, <1>5 DEF AwaitSpace, TypeOK, inner, owner
<1> QED BY <1>1, <1>5, <1>6, <1>7

\* A step that notifies after the map was released.
LEMMA NotifyStep ==
  ASSUME IInv, NEW p \in [Streams -> ProducerState], NotifySpace(p),
         {s \in Streams : p[s] = "permit"} = Holders,
         \A s \in Range(spaceWaiters) : p[s] = "waiting",
         owed' \in [Streams -> Nat], UNCHANGED <<inner, closer, popper>>,
         UNCHANGED <<dataPermit, owner, popped>>
  PROVE  IInv'
<1> USE DEF IInv
<1>1. BandsExact' /\ Queued' = Queued /\ StreamFifo' /\ UNCHANGED len BY MapUntouched DEF inner
<1>2. spaceWaiters \in Seq(Streams) /\ spacePermit \in BOOLEAN
      /\ IsInjective(spaceWaiters) BY DEF TypeOK, WaitersParked
<1>3. /\ pc' \in [Streams -> ProducerState] /\ spaceWaiters' \in Seq(Streams) /\ spacePermit' \in BOOLEAN
      /\ WaitersParked' /\ Holders' = Holders BY <1>2, NotifyKeepsHolders DEF Holders
<1>4. LenExact' /\ IsFiniteSet(Queued') BY <1>1, <1>3 DEF LenExact
<1>5. TypeOK' BY <1>3 DEF TypeOK, inner, owner
<1> QED BY <1>1, <1>3, <1>4, <1>5

\* A remove() that still owes notify_one calls delivers one of them.
LEMMA PayNotifyKeeps ==
  ASSUME IInv, NEW id \in Streams, PayNotify(id)
  PROVE  IInv'
<1>1. pc \in [Streams -> ProducerState] /\ owed' \in [Streams -> Nat] BY DEF IInv, TypeOK, PayNotify
<1>2. \A s \in Range(spaceWaiters) : pc[s] = "waiting" BY DEF IInv, WaitersParked
<1> QED BY <1>1, <1>2, NotifyStep DEF PayNotify, Holders

\* Dropping the future of reserve() leaves no slot counted for the producer.
LEMMA CancelReserveKeeps ==
  ASSUME IInv, NEW id \in Streams, CancelReserve(id)
  PROVE  IInv'
<1> USE DEF IInv
<1>1. BandsExact' /\ Queued' = Queued /\ StreamFifo' /\ UNCHANGED len BY MapUntouched DEF CancelReserve, inner
<1>2. pc \in [Streams -> ProducerState] /\ spaceWaiters \in Seq(Streams)
      /\ spacePermit \in BOOLEAN /\ Range(spaceWaiters) \subseteq Streams BY RangeElements DEF TypeOK
<1>3. "idle" \in ProducerState BY DEF ProducerState
<1>4. CASE pc[id] = "woken" /\ NotifySpace([pc EXCEPT ![id] = "idle"])
  <2> DEFINE p == [pc EXCEPT ![id] = "idle"]
  <2>1. p \in [Streams -> ProducerState] BY <1>2, <1>3
  <2>2. {s \in Streams : p[s] = "permit"} = Holders BY <1>2, <1>3, <1>4, CountHolders DEF Holders
  <2>3. \A s \in Range(spaceWaiters) : p[s] = "waiting" BY <1>2, <1>4 DEF WaitersParked
  <2>4. owed' \in [Streams -> Nat] BY DEF CancelReserve, TypeOK
  <2> HIDE DEF p
  <2>5. NotifySpace(p) BY <1>4 DEF p
  <2> QED BY <2>1, <2>2, <2>3, <2>4, <2>5, NotifyStep DEF CancelReserve
<1>5. CASE pc[id] \in {"checked", "waiting"}
  <2>1. pc' = [pc EXCEPT ![id] = "idle"] /\ UNCHANGED spacePermit BY <1>5 DEF CancelReserve, space
  <2>2. WaitersParked' /\ spaceWaiters' \in Seq(Streams)
    <3>1. CASE pc[id] = "checked" BY <3>1, <1>2, <1>3, <2>1, OwnStepParked DEF CancelReserve, space
    <3>2. CASE pc[id] = "waiting"
      <4>1. spaceWaiters' = Unlink(spaceWaiters, id) BY <3>2 DEF CancelReserve
      <4>2. /\ spaceWaiters' \in Seq(Streams) /\ IsInjective(spaceWaiters')
            /\ Range(spaceWaiters') = Range(spaceWaiters) \ {id} BY <1>2, <4>1, UnlinkElements DEF WaitersParked
      <4>3. \A s \in Range(spaceWaiters') : pc'[s] = "waiting" BY <1>2, <2>1, <4>2 DEF WaitersParked
      <4> QED BY <4>2, <4>3 DEF WaitersParked
    <3> QED BY <3>1, <3>2, <1>5
  <2>3. Holders' = Holders BY <1>2, <1>3, <1>5, <2>1, CountHolders DEF Holders
  <2>4. LenExact' /\ IsFiniteSet(Queued') BY <1>1, <2>3 DEF LenExact
  <2>5. TypeOK' BY <1>2, <1>3, <2>1, <2>2 DEF CancelReserve, TypeOK, inner, owner
  <2> QED BY <1>1, <2>2, <2>4, <2>5
<1> QED BY <1>4, <1>5 DEF CancelReserve

\* A permit dropped unsent gives its slot back.
LEMMA DropPermitKeeps ==
  ASSUME IInv, NEW id \in Streams, DropPermit(id)
  PROVE  IInv'
<1> USE DEF IInv
<1>1. BandsExact' /\ Queued' = Queued /\ StreamFifo' BY MapUntouched DEF DropPermit
<1>2. pc \in [Streams -> ProducerState] /\ spaceWaiters \in Seq(Streams)
      /\ "idle" \in ProducerState BY DEF TypeOK, ProducerState
<1>3. pc[id] = "permit" /\ pc' = [pc EXCEPT ![id] = "idle"] /\ len' = len - 1
      /\ UNCHANGED spaceWaiters BY DEF DropPermit, space
<1>4. WaitersParked' /\ pc' \in [Streams -> ProducerState] BY <1>2, <1>3, OwnStepParked
<1>5. LenExact' /\ IsFiniteSet(Queued')
  <2>1. Cardinality(Holders) \in Nat /\ Cardinality(Holders') = Cardinality(Holders) - 1 BY <1>2, <1>3, HoldersStep
  <2>2. Cardinality(Queued) \in Nat BY FS_CardinalityType
  <2> QED BY <1>1, <1>3, <2>1, <2>2 DEF LenExact
<1>6. len' \in Nat BY <1>5, LenIsNatural
<1>7. TypeOK' BY <1>4, <1>6 DEF DropPermit, TypeOK, space, owner
<1> QED BY <1>1, <1>4, <1>5, <1>7

\* The steps that only move the consumer or the closed flag keep the invariant.
LEMMA ControlKeeps ==
  ASSUME IInv, AwaitData \/ CancelPop \/ Close
  PROVE  IInv'
<1> USE DEF IInv
<1>1. BandsExact' /\ Queued' = Queued /\ StreamFifo' BY MapUntouched DEF AwaitData, CancelPop, Close, inner
<1>2. UNCHANGED <<len, pc, spaceWaiters, spacePermit>> BY DEF AwaitData, CancelPop, Close, inner, space
<1>3. LenExact' /\ IsFiniteSet(Queued') /\ WaitersParked' BY <1>1, <1>2 DEF LenExact, WaitersParked, Holders
<1>4. popper' \in ConsumerState /\ dataPermit' \in BOOLEAN BY DEF AwaitData, CancelPop, Close, ConsumerState, TypeOK
<1>5. TypeOK' BY <1>2, <1>4 DEF AwaitData, CancelPop, Close, TypeOK, inner, owner
<1> QED BY <1>1, <1>3, <1>5

\* The notify_waiters of close() wakes producers that hold nothing.
LEMMA CloseNotifyKeeps ==
  ASSUME IInv, CloseNotify
  PROVE  IInv'
<1> USE DEF IInv
<1>1. BandsExact' /\ Queued' = Queued /\ StreamFifo' /\ UNCHANGED len BY MapUntouched DEF CloseNotify, inner
<1>2. pc' \in [Streams -> ProducerState] /\ popper' \in ConsumerState
  BY DEF CloseNotify, TypeOK, ProducerState, ConsumerState
<1>3. Holders' = Holders BY DEF CloseNotify, TypeOK, Holders
<1>4. spaceWaiters' = <<>> /\ WaitersParked' BY DEF CloseNotify, WaitersParked, Range, IsInjective
<1>5. LenExact' /\ IsFiniteSet(Queued') BY <1>1, <1>3 DEF LenExact
<1>6. TypeOK' BY <1>2, <1>4 DEF CloseNotify, TypeOK, inner, owner
<1> QED BY <1>1, <1>4, <1>5, <1>6

----------------------------------------------------------------------------
(* Steps that change the map                                                *)

\* The map and the owners' view of it after a step, put together.
LEMMA BandsFromParts ==
  ASSUME Banded(keys, bands, slots, slotPriority)', SlotsHaveFrames'
  PROVE  BandsExact' BY DEF Banded, BandsExact, KeysAreNonEmpty, BandsHoldSlots

\* enqueue_locked of the next frame of a stream that was not reset.
LEMMA EnqueueKeeps ==
  ASSUME IInv, NEW id \in Streams, ended[id] # "reset", NEW fin \in BOOLEAN,
         EnqueueLocked(id, [seq |-> enqueued[id] + 1, fin |-> fin]),
         enqueued' = [enqueued EXCEPT ![id] = @ + 1],
         UNCHANGED <<priority, popped>>,
         \A s \in Streams : ended'[s] = "reset" <=> ended[s] = "reset"
  PROVE  /\ BandsExact' /\ StreamFifo' /\ IsFiniteSet(Queued') /\ Cardinality(Queued') = Cardinality(Queued) + 1
         /\ Cardinality(Queued) \in Nat /\ keys' \in SUBSET Priorities /\ bands' \in [Priorities -> Seq(Streams)]
         /\ slots' \in SUBSET Streams /\ slotPriority' \in [Streams -> Priorities]
         /\ frames' \in [Streams -> Seq(Frame)] /\ popper' \in ConsumerState /\ dataPermit' \in BOOLEAN
         /\ enqueued' \in [Streams -> Nat]
<1> USE DEF IInv
<1> DEFINE f == [seq |-> enqueued[id] + 1, fin |-> fin]
<1>1. /\ slots \in SUBSET Streams /\ slotPriority \in [Streams -> Priorities]
      /\ frames \in [Streams -> Seq(Frame)] /\ priority \in [Streams -> Priorities]
      /\ enqueued \in [Streams -> Nat] /\ popped \in [Streams -> Nat] BY DEF TypeOK
<1>2. f \in Frame /\ enqueued' \in [Streams -> Nat] BY <1>1 DEF Frame
<1>3. Banded(keys, bands, slots, slotPriority) /\ SlotsHaveFrames BY BandsForm
<1>4. /\ frames' = [frames EXCEPT ![id] = Append(@, f)]
      /\ slots' = slots \cup {id} BY DEF EnqueueLocked
<1> HIDE DEF f
<1>5. Banded(keys, bands, slots, slotPriority)'
      /\ slotPriority' \in [Streams -> Priorities]
      /\ (id \notin slots => slotPriority' = [slotPriority EXCEPT ![id] = priority[id]])
      /\ (id \in slots => slotPriority' = slotPriority)
  <2>1. CASE id \in slots
    <3>1. UNCHANGED <<keys, bands, slotPriority>> /\ slots' = slots BY <2>1, <1>4 DEF EnqueueLocked
    <3> QED BY <1>1, <1>3, <2>1, <3>1 DEF Banded
  <2>2. CASE id \notin slots
    <3> DEFINE a == Arm(keys, bands, id, priority[id])
    <3>1. /\ slotPriority' = [slotPriority EXCEPT ![id] = priority[id]]
          /\ keys' = a.keys /\ bands' = a.bands BY <2>2 DEF EnqueueLocked, Schedule
    <3>2. Banded(a.keys, a.bands, slots \cup {id},
                 [slotPriority EXCEPT ![id] = priority[id]]) BY <1>1, <1>3, <2>2, ArmBanded
    <3> HIDE DEF a
    <3> QED BY <1>1, <1>4, <2>2, <3>1, <3>2 DEF Banded
  <2> QED BY <2>1, <2>2
<1>6. frames' \in [Streams -> Seq(Frame)] /\ frames'[id] # <<>>
  <2>1. Append(frames[id], f) \in Seq(Frame) /\ Append(frames[id], f) # <<>> BY <1>1, <1>2, AppendElements
  <2> QED BY <1>1, <1>4, <2>1
<1>7. SlotsHaveFrames' BY <1>1, <1>3, <1>4, <1>5, <1>6 DEF SlotsHaveFrames
<1>8. BandsExact' BY <1>5, <1>7, BandsFromParts
<1>9. /\ IsFiniteSet(Queued') /\ Cardinality(Queued') = Cardinality(Queued) + 1
      /\ Cardinality(Queued) \in Nat BY <1>2, <1>4, CountAppend, FS_CardinalityType
<1>10. StreamFifo'
  <2> SUFFICES ASSUME NEW s \in Streams
               PROVE  IF ended'[s] = "reset" THEN frames'[s] = <<>>
                      ELSE /\ Len(frames'[s]) = enqueued'[s] - popped'[s]
                           /\ \A i \in DOMAIN frames'[s] :
                                frames'[s][i].seq = popped'[s] + i BY DEF StreamFifo
  <2>1. CASE s # id BY <1>1, <1>4, <2>1 DEF StreamFifo
  <2>2. CASE s = id
    <3>1. /\ Len(frames[id]) = enqueued[id] - popped[id]
          /\ \A i \in DOMAIN frames[id] : frames[id][i].seq = popped[id] + i BY DEF StreamFifo
    <3>2. frames'[id] = Append(frames[id], f) /\ f.seq = enqueued[id] + 1 BY <1>1, <1>4 DEF f
    <3>3. frames[id] \in Seq(Frame) /\ Len(frames[id]) \in Nat BY <1>1
    <3>4. /\ Len(frames'[id]) = Len(frames[id]) + 1 /\ DOMAIN frames'[id] = 1 .. Len(frames[id]) + 1
          /\ \A i \in 1 .. Len(frames[id]) : frames'[id][i] = frames[id][i]
          /\ frames'[id][Len(frames[id]) + 1] = f BY <3>2, <3>3, <1>2
    <3>5. Len(frames'[id]) = enqueued'[id] - popped'[id] BY <1>1, <3>1, <3>4
    <3>6. ASSUME NEW i \in DOMAIN frames'[id]
          PROVE  frames'[id][i].seq = popped'[id] + i
      <4>1. CASE i \in 1 .. Len(frames[id]) BY <4>1, <3>1, <3>3, <3>4
      <4>2. CASE i = Len(frames[id]) + 1
        <5>1. f.seq = popped[id] + i BY <4>2, <3>1, <3>2, <3>3, <1>1
        <5> QED BY <5>1, <4>2, <3>4
      <4> QED BY <4>1, <4>2, <3>3, <3>4
    <3> QED BY <2>2, <3>5, <3>6
  <2> QED BY <2>1, <2>2
<1>11. popper' \in ConsumerState /\ dataPermit' \in BOOLEAN BY DEF EnqueueLocked, NotifyData, TypeOK, ConsumerState
<1> QED BY <1>1, <1>2, <1>4, <1>5, <1>6, <1>8, <1>9, <1>10, <1>11 DEF Banded

\* Permit::send turns a counted slot into a counted frame.
LEMMA SendKeeps ==
  ASSUME IInv, NEW id \in Streams, Send(id)
  PROVE  IInv'
<1> USE DEF IInv
<1>1. ended[id] # "reset" /\ FALSE \in BOOLEAN
      /\ \A s \in Streams : ended'[s] = "reset" <=> ended[s] = "reset" BY DEF Send
<1>2. /\ BandsExact' /\ StreamFifo' /\ IsFiniteSet(Queued') /\ Cardinality(Queued') = Cardinality(Queued) + 1
      /\ Cardinality(Queued) \in Nat /\ keys' \in SUBSET Priorities /\ bands' \in [Priorities -> Seq(Streams)]
      /\ slots' \in SUBSET Streams /\ slotPriority' \in [Streams -> Priorities] /\ frames' \in [Streams -> Seq(Frame)]
      /\ popper' \in ConsumerState /\ dataPermit' \in BOOLEAN
      /\ enqueued' \in [Streams -> Nat] BY <1>1, EnqueueKeeps DEF Send
<1>3. pc \in [Streams -> ProducerState] /\ spaceWaiters \in Seq(Streams)
      /\ "idle" \in ProducerState BY DEF TypeOK, ProducerState
<1>4. pc[id] = "permit" /\ pc' = [pc EXCEPT ![id] = "idle"]
      /\ UNCHANGED <<len, spaceWaiters>> BY DEF Send, space
<1>5. WaitersParked' /\ pc' \in [Streams -> ProducerState] BY <1>3, <1>4, OwnStepParked
<1>6. LenExact'
  <2>1. Cardinality(Holders) \in Nat /\ Cardinality(Holders') = Cardinality(Holders) - 1 BY <1>3, <1>4, HoldersStep
  <2> QED BY <1>2, <1>4, <2>1 DEF LenExact
<1>7. TypeOK' BY <1>2, <1>5 DEF Send, TypeOK, space
<1> QED BY <1>2, <1>5, <1>6, <1>7

\* push_now counts the frame it adds without a slot.
LEMMA PushNowKeeps ==
  ASSUME IInv, NEW id \in Streams, PushNow(id)
  PROVE  IInv'
<1> USE DEF IInv
<1>1. ended[id] # "reset" /\ TRUE \in BOOLEAN
      /\ (\A s \in Streams : ended'[s] = "reset" <=> ended[s] = "reset")
      /\ ended' \in [Streams -> {"open", "fin", "reset"}] BY DEF PushNow, TypeOK
<1>2. /\ BandsExact' /\ StreamFifo' /\ IsFiniteSet(Queued') /\ Cardinality(Queued') = Cardinality(Queued) + 1
      /\ Cardinality(Queued) \in Nat /\ keys' \in SUBSET Priorities /\ bands' \in [Priorities -> Seq(Streams)]
      /\ slots' \in SUBSET Streams /\ slotPriority' \in [Streams -> Priorities] /\ frames' \in [Streams -> Seq(Frame)]
      /\ popper' \in ConsumerState /\ dataPermit' \in BOOLEAN
      /\ enqueued' \in [Streams -> Nat] BY <1>1, EnqueueKeeps DEF PushNow
<1>3. UNCHANGED <<pc, spaceWaiters, spacePermit>> /\ len' = len + 1 /\ len \in Nat BY DEF PushNow, space, TypeOK
<1>4. WaitersParked' /\ Holders' = Holders BY <1>3 DEF WaitersParked, Holders
<1>5. LenExact'
  <2>1. Cardinality(Holders) \in Nat BY StreamsAreFinite, FS_Subset, FS_CardinalityType DEF Holders
  <2> QED BY <1>2, <1>3, <1>4, <2>1 DEF LenExact
<1>6. UNCHANGED <<closed, closer, owed, priority, popped>> BY DEF PushNow
<1>7. TypeOK'
  <2>1. /\ len' \in Nat /\ closed' \in BOOLEAN /\ closer' \in {"open", "closing", "done"}
        /\ pc' \in [Streams -> ProducerState] /\ owed' \in [Streams -> Nat]
        /\ spaceWaiters' \in Seq(Streams) /\ spacePermit' \in BOOLEAN
        /\ priority' \in [Streams -> Priorities] /\ popped' \in [Streams -> Nat] BY <1>3, <1>6 DEF TypeOK
  <2> QED BY <1>1, <1>2, <2>1 DEF TypeOK
<1> QED BY <1>2, <1>4, <1>5, <1>7

\* set_priority moves a stream's pointer to the band of its new priority.
LEMMA SetPriorityKeeps ==
  ASSUME IInv, NEW id \in Streams, NEW new \in Priorities, SetPriority(id, new)
  PROVE  IInv'
<1> USE DEF IInv
<1>1. /\ slots \in SUBSET Streams /\ slotPriority \in [Streams -> Priorities]
      /\ priority \in [Streams -> Priorities] BY DEF TypeOK
<1>2. Banded(keys, bands, slots, slotPriority) /\ SlotsHaveFrames BY BandsForm
<1>3. /\ UNCHANGED <<slots, frames, len, pc, spaceWaiters, spacePermit>> /\ UNCHANGED <<ended, enqueued, popped>>
      /\ priority' = [priority EXCEPT ![id] = new] BY DEF SetPriority, space
<1>4. Banded(keys, bands, slots, slotPriority)' /\ SlotsHaveFrames'
      /\ slotPriority' \in [Streams -> Priorities]
  <2>1. CASE id \notin slots
    <3>1. UNCHANGED <<keys, bands, slotPriority>> BY <2>1 DEF SetPriority
    <3> QED BY <1>1, <1>2, <1>3, <2>1, <3>1 DEF Banded, SlotsHaveFrames
  <2>2. CASE id \in slots
    <3> DEFINE old == slotPriority[id]
               un == Unschedule(keys, bands, id, old)
               a == Arm(un.keys, un.bands, id, new)
    <3>1. old = priority[id] /\ old # new BY <1>2, <2>2 DEF SlotsHaveFrames, SetPriority
    <3>2. /\ Contains(bands[old], id)
          /\ Banded(un.keys, un.bands, slots \ {id}, slotPriority) BY <1>1, <1>2, <2>2, UnscheduleBanded
    <3>3. /\ keys' = a.keys /\ bands' = a.bands
          /\ slotPriority' = [slotPriority EXCEPT ![id] = new] BY <2>2, <3>1, <3>2 DEF SetPriority, Schedule
    <3> HIDE DEF un
    <3>4. Banded(a.keys, a.bands, (slots \ {id}) \cup {id},
                 [slotPriority EXCEPT ![id] = new])
      <4>1. slots \ {id} \in SUBSET Streams /\ id \in Streams \ (slots \ {id}) BY <1>1
      <4> QED BY <1>1, <3>2, <4>1, ArmBanded
    <3> HIDE DEF a
    <3>5. (slots \ {id}) \cup {id} = slots BY <2>2
    <3>6. Banded(keys, bands, slots, slotPriority)' BY <1>3, <3>3, <3>4, <3>5 DEF Banded
    <3>7. SlotsHaveFrames' BY <1>1, <1>2, <1>3, <3>3 DEF SlotsHaveFrames
    <3> QED BY <1>1, <3>3, <3>6, <3>7
  <2> QED BY <2>1, <2>2
<1>5. BandsExact' BY <1>4, BandsFromParts
<1>6. StreamFifo' /\ Queued' = Queued /\ Holders' = Holders /\ WaitersParked'
  BY <1>3 DEF StreamFifo, Queued, Holders, WaitersParked
<1>7. LenExact' /\ IsFiniteSet(Queued') BY <1>3, <1>6 DEF LenExact
<1>8. TypeOK' BY <1>1, <1>3, <1>4 DEF TypeOK, SetPriority, Banded
<1> QED BY <1>5, <1>6, <1>7, <1>8

\* remove() takes a stream out of both maps and out of the count.
LEMMA RemoveIdKeeps ==
  ASSUME IInv, NEW id \in Streams, RemoveId(id)
  PROVE  IInv'
<1> USE DEF IInv
<1>1. /\ slots \in SUBSET Streams /\ slotPriority \in [Streams -> Priorities]
      /\ frames \in [Streams -> Seq(Frame)] /\ owed \in [Streams -> Nat]
      /\ ended \in [Streams -> {"open", "fin", "reset"}] BY DEF TypeOK
<1>2. Banded(keys, bands, slots, slotPriority) /\ SlotsHaveFrames BY BandsForm
<1>3. /\ UNCHANGED <<slotPriority, pc, spaceWaiters, spacePermit>> /\ UNCHANGED <<priority, enqueued, popped>>
      /\ ended' = [ended EXCEPT ![id] = "reset"] BY DEF RemoveId, space
<1>4. frames' = [frames EXCEPT ![id] = <<>>] /\ len' = len - Len(frames[id])
      /\ slots' = slots \ {id}
  <2>1. CASE id \in slots BY <2>1 DEF RemoveId
  <2>2. CASE id \notin slots
    <3>1. frames[id] = <<>> /\ UNCHANGED <<slots, frames, len>> /\ len \in Nat
      BY <1>2, <2>2 DEF RemoveId, SlotsHaveFrames, TypeOK
    <3> QED BY <1>1, <2>2, <3>1
  <2> QED BY <2>1, <2>2
<1>5. Banded(keys, bands, slots, slotPriority)'
  <2>1. CASE id \in slots
    <3> DEFINE un == Unschedule(keys, bands, id, slotPriority[id])
    <3>1. Banded(un.keys, un.bands, slots \ {id}, slotPriority) BY <1>1, <1>2, <2>1, UnscheduleBanded
    <3>2. keys' = un.keys /\ bands' = un.bands BY <2>1 DEF RemoveId, Schedule
    <3> HIDE DEF un
    <3> QED BY <1>3, <1>4, <3>1, <3>2 DEF Banded
  <2>2. CASE id \notin slots BY <2>2, <1>2, <1>3 DEF RemoveId, Banded
  <2> QED BY <2>1, <2>2
<1>6. SlotsHaveFrames' BY <1>1, <1>2, <1>3, <1>4 DEF SlotsHaveFrames
<1>7. BandsExact' BY <1>5, <1>6, BandsFromParts
<1>8. StreamFifo' BY <1>1, <1>3, <1>4 DEF StreamFifo
<1>9. WaitersParked' /\ Holders' = Holders BY <1>3 DEF WaitersParked, Holders
<1>10. LenExact' /\ IsFiniteSet(Queued')
  <2>1. /\ IsFiniteSet(Queued')
        /\ Cardinality(Queued') = Cardinality(Queued) - Len(frames[id]) BY <1>4, CountClear
  <2>2. Cardinality(Queued) \in Nat /\ Len(frames[id]) \in Nat BY <1>1, FS_CardinalityType
  <2>3. Cardinality(Holders) \in Nat BY StreamsAreFinite, FS_Subset, FS_CardinalityType DEF Holders
  <2> QED BY <1>4, <1>9, <2>1, <2>2, <2>3 DEF LenExact
<1>11. len' \in Nat BY <1>10, LenIsNatural
<1>12. /\ frames' \in [Streams -> Seq(Frame)] /\ owed' \in [Streams -> Nat]
       /\ ended' \in [Streams -> {"open", "fin", "reset"}]
  <2>1. <<>> \in Seq(Frame) /\ Len(frames[id]) \in Nat BY <1>1
  <2>2. owed' = owed \/ owed' = [owed EXCEPT ![id] = Len(frames[id])] BY DEF RemoveId
  <2> QED BY <1>1, <1>3, <1>4, <2>1, <2>2
<1>13. TypeOK' BY <1>1, <1>3, <1>4, <1>5, <1>11, <1>12 DEF TypeOK, RemoveId, Banded
<1> QED BY <1>7, <1>8, <1>9, <1>10, <1>13

\* pop_locked on a queue with a band.
LEMMA PopLockedKeeps ==
  ASSUME IInv, keys # {}, PopLocked, popper' = "run",
         UNCHANGED <<slotPriority, closed, closer, owed, dataPermit, owner>>
  PROVE  IInv'
<1> USE DEF IInv
<1> DEFINE band == MaxBand
           id == Head(bands[band])
           rest == Tail(bands[band])
           ks == IF rest = <<>> THEN keys \ {band} ELSE keys
           bs == [bands EXCEPT ![band] = rest]
           left == Tail(frames[id])
<1>1. /\ slots \in SUBSET Streams /\ slotPriority \in [Streams -> Priorities]
      /\ frames \in [Streams -> Seq(Frame)] /\ keys \in SUBSET Priorities
      /\ enqueued \in [Streams -> Nat] /\ popped \in [Streams -> Nat]
      /\ pc \in [Streams -> ProducerState] BY DEF TypeOK
<1>2. Banded(keys, bands, slots, slotPriority) /\ SlotsHaveFrames BY BandsForm
<1>3. band \in keys BY <1>1, MaxExists DEF MaxBand
<1>4. /\ id \in slots /\ slotPriority[id] = band
      /\ Banded(ks, bs, slots \ {id}, slotPriority) BY <1>1, <1>2, <1>3, PopBanded
<1>5. /\ frames' = [frames EXCEPT ![id] = left] /\ popped' = [popped EXCEPT ![id] = Head(frames[id]).seq]
      /\ IF left = <<>>
         THEN slots' = slots \ {id} /\ keys' = ks /\ bands' = bs
         ELSE /\ slots' = slots /\ keys' = Arm(ks, bs, id, slotPriority[id]).keys
              /\ bands' = Arm(ks, bs, id, slotPriority[id]).bands
      /\ len' = len - 1
      /\ NotifySpace(pc) BY DEF PopLocked, Schedule
<1>6. UNCHANGED <<slotPriority, priority, ended, enqueued>> BY DEF owner
<1> HIDE DEF band, id, rest, ks, bs
<1>7. id \in Streams /\ frames[id] # <<>> /\ frames[id] \in Seq(Frame)
      /\ ended[id] # "reset" BY <1>1, <1>2, <1>4 DEF SlotsHaveFrames, StreamFifo
<1>8. /\ left \in Seq(Frame) /\ Len(left) = Len(frames[id]) - 1
      /\ \A i \in 1 .. Len(frames[id]) - 1 : left[i] = frames[id][i + 1]
      /\ Head(frames[id]) = frames[id][1] /\ Head(frames[id]) \in Frame
      /\ Len(frames[id]) \in Nat \ {0} BY <1>7, EmptySeq
<1>9. Banded(keys, bands, slots, slotPriority)' /\ slots' \in SUBSET Streams
  <2>1. CASE left = <<>> BY <2>1, <1>1, <1>4, <1>5, <1>6 DEF Banded
  <2>2. CASE left # <<>>
    <3> DEFINE a == Arm(ks, bs, id, slotPriority[id])
    <3>1. slots \ {id} \in SUBSET Streams /\ id \in Streams \ (slots \ {id})
          /\ slotPriority[id] \in Priorities BY <1>1, <1>7
    <3>2. Banded(a.keys, a.bands, (slots \ {id}) \cup {id},
                 [slotPriority EXCEPT ![id] = slotPriority[id]]) BY <1>1, <1>4, <3>1, ArmBanded
    <3>3. /\ (slots \ {id}) \cup {id} = slots
          /\ [slotPriority EXCEPT ![id] = slotPriority[id]] = slotPriority BY <1>1, <1>4, <1>7
    <3>4. keys' = a.keys /\ bands' = a.bands /\ slots' = slots BY <2>2, <1>5
    <3> HIDE DEF a
    <3> QED BY <1>1, <1>6, <3>2, <3>3, <3>4 DEF Banded
  <2> QED BY <2>1, <2>2
<1>10. slots' = IF left = <<>> THEN slots \ {id} ELSE slots BY <1>5
<1> HIDE DEF left
<1>11. frames' \in [Streams -> Seq(Frame)] /\ popped' \in [Streams -> Nat] BY <1>1, <1>5, <1>7, <1>8 DEF Frame
<1>12. SlotsHaveFrames' BY <1>1, <1>2, <1>4, <1>5, <1>6, <1>7, <1>10 DEF SlotsHaveFrames
<1>13. BandsExact' BY <1>9, <1>12, BandsFromParts
<1>14. StreamFifo'
  <2> SUFFICES ASSUME NEW s \in Streams
               PROVE  IF ended'[s] = "reset" THEN frames'[s] = <<>>
                      ELSE /\ Len(frames'[s]) = enqueued'[s] - popped'[s]
                           /\ \A i \in DOMAIN frames'[s] :
                                frames'[s][i].seq = popped'[s] + i BY DEF StreamFifo
  <2>1. CASE s # id BY <1>1, <1>5, <1>6, <2>1 DEF StreamFifo
  <2>2. CASE s = id
    <3>1. /\ Len(frames[id]) = enqueued[id] - popped[id]
          /\ \A i \in DOMAIN frames[id] : frames[id][i].seq = popped[id] + i BY <1>7 DEF StreamFifo
    <3>2. frames'[id] = left /\ popped'[id] = Head(frames[id]).seq BY <1>1, <1>5, <1>7
    <3>3. DOMAIN frames[id] = 1 .. Len(frames[id]) /\ DOMAIN left = 1 .. Len(left) BY <1>7, <1>8
    <3>4. popped'[id] = popped[id] + 1 BY <1>8, <3>1, <3>2, <3>3
    <3>5. Len(left) = enqueued[id] - popped'[id] BY <1>1, <1>7, <1>8, <3>1, <3>4
    <3>6. ASSUME NEW i \in DOMAIN left PROVE left[i].seq = popped'[id] + i
      <4>1. i \in 1 .. Len(frames[id]) - 1 /\ i + 1 \in DOMAIN frames[id] BY <1>8, <3>3
      <4>2. left[i].seq = popped[id] + (i + 1) BY <4>1, <1>8, <3>1
      <4> QED BY <1>1, <1>7, <4>1, <4>2, <3>4
    <3> QED BY <2>2, <1>6, <1>7, <3>2, <3>5, <3>6
  <2> QED BY <2>1, <2>2
<1>15. /\ pc' \in [Streams -> ProducerState] /\ spaceWaiters' \in Seq(Streams) /\ spacePermit' \in BOOLEAN
       /\ WaitersParked' /\ Holders' = Holders
  <2>1. spaceWaiters \in Seq(Streams) /\ spacePermit \in BOOLEAN BY DEF TypeOK
  <2> QED BY <1>1, <1>5, <2>1, NotifyKeepsHolders DEF WaitersParked, Holders
<1>16. LenExact' /\ IsFiniteSet(Queued')
  <2>1. IsFiniteSet(Queued') /\ Cardinality(Queued') = Cardinality(Queued) - 1 BY <1>5, <1>7, CountTail DEF left
  <2>2. Cardinality(Queued) \in Nat BY FS_CardinalityType
  <2>3. Cardinality(Holders) \in Nat BY StreamsAreFinite, FS_Subset, FS_CardinalityType DEF Holders
  <2> QED BY <1>5, <1>15, <2>1, <2>2, <2>3 DEF LenExact
<1>17. len' \in Nat BY <1>16, LenIsNatural
<1>18. popper' \in ConsumerState BY DEF ConsumerState
<1>19. TypeOK' BY <1>9, <1>11, <1>15, <1>17, <1>18 DEF TypeOK, Banded, owner
<1> QED BY <1>13, <1>14, <1>15, <1>16, <1>19

\* pop() takes one frame, or learns that there is none.
LEMMA PopKeeps ==
  ASSUME IInv, Pop
  PROVE  IInv'
<1>1. CASE keys # {} BY <1>1, PopLockedKeeps DEF Pop
<1>2. CASE keys = {}
  <2> USE DEF IInv
  <2>1. /\ UNCHANGED <<keys, bands, slots, slotPriority, frames>>
        /\ UNCHANGED <<owner, popped>> /\ UNCHANGED <<len, pc, space>>
        /\ UNCHANGED <<closed, closer, owed, dataPermit>> BY <1>2 DEF Pop
  <2>2. BandsExact' /\ Queued' = Queued /\ StreamFifo' BY <2>1, MapUntouched
  <2>3. LenExact' /\ IsFiniteSet(Queued') /\ WaitersParked' BY <2>1, <2>2 DEF LenExact, WaitersParked, Holders, space
  <2>4. popper' \in ConsumerState BY <1>2 DEF Pop, ConsumerState
  <2>5. TypeOK' BY <2>1, <2>4 DEF TypeOK, space, owner
  <2> QED BY <2>2, <2>3, <2>5
<1> QED BY <1>1, <1>2

----------------------------------------------------------------------------
(* The theorems                                                             *)

\* The empty queue satisfies the invariant.
LEMMA InitEstablishes ==
  ASSUME Init
  PROVE  IInv
<1>1. TypeOK
  <2>1. /\ bands \in [Priorities -> Seq(Streams)] /\ frames \in [Streams -> Seq(Frame)]
        /\ spaceWaiters \in Seq(Streams) BY DEF Init
  <2>2. /\ pc \in [Streams -> ProducerState] /\ owed \in [Streams -> Nat]
        /\ ended \in [Streams -> {"open", "fin", "reset"}]
        /\ enqueued \in [Streams -> Nat] /\ popped \in [Streams -> Nat]
        /\ popper \in ConsumerState BY DEF Init, ProducerState, ConsumerState
  <2>3. /\ keys \in SUBSET Priorities /\ slots \in SUBSET Streams /\ len \in Nat
        /\ closed \in BOOLEAN /\ closer \in {"open", "closing", "done"}
        /\ spacePermit \in BOOLEAN /\ dataPermit \in BOOLEAN /\ priority \in [Streams -> Priorities]
        /\ slotPriority \in [Streams -> Priorities] BY DEF Init
  <2> QED BY <2>1, <2>2, <2>3 DEF TypeOK
<1>2. BandsExact BY DEF Init, BandsExact, KeysAreNonEmpty, BandsHoldSlots, SlotsHaveFrames, Range, IsInjective
<1>3. WaitersParked BY DEF Init, WaitersParked, Range, IsInjective
<1>4. Queued = {} /\ Holders = {} BY DEF Init, Queued, Holders
<1>5. IsFiniteSet(Queued) /\ LenExact BY <1>4, FS_EmptySet DEF Init, LenExact
<1>6. StreamFifo BY DEF Init, StreamFifo
<1> QED BY <1>1, <1>2, <1>3, <1>5, <1>6 DEF IInv

\* Every step of a producer, of the consumer and of close() keeps it.
LEMMA StepKeeps ==
  ASSUME IInv, [Next]_vars
  PROVE  IInv'
<1>1. ASSUME NEW s \in Streams, Producer(s)
      PROVE  IInv'
  BY <1>1, ReserveKeeps, AwaitSpaceKeeps, CancelReserveKeeps, SendKeeps, DropPermitKeeps, PushNowKeeps,
    SetPriorityKeeps, RemoveIdKeeps, PayNotifyKeeps DEF Producer
<1>2. CASE Consumer BY <1>2, PopKeeps, ControlKeeps DEF Consumer
<1>3. CASE Close BY <1>3, ControlKeeps
<1>4. CASE CloseNotify BY <1>4, CloseNotifyKeeps
<1>5. CASE UNCHANGED vars
  <2> USE DEF IInv
  <2>1. /\ UNCHANGED <<keys, bands, slots, slotPriority, frames>>
        /\ UNCHANGED <<owner, popped>> BY <1>5 DEF vars, inner
  <2>2. BandsExact' /\ Queued' = Queued /\ StreamFifo' BY <2>1, MapUntouched
  <2>3. LenExact' /\ IsFiniteSet(Queued') /\ WaitersParked'
    BY <1>5, <2>2 DEF LenExact, WaitersParked, Holders, vars, inner, space
  <2>4. TypeOK' BY <1>5 DEF TypeOK, vars, inner, space, owner
  <2> QED BY <2>2, <2>3, <2>4
<1> QED BY <1>1, <1>2, <1>3, <1>4, <1>5 DEF Next

\* The queue keeps its invariant for any streams, priorities and capacity.
THEOREM QueueInvariant == Spec => []IInv
<1>1. Init => IInv BY InitEstablishes
<1>2. IInv /\ [Next]_vars => IInv' BY StepKeeps
<1> QED BY <1>1, <1>2, PTL DEF Spec

\* Every field keeps its type: the usize len never goes below zero.
THEOREM QueueTypes == Spec => []TypeOK
<1>1. IInv => TypeOK BY DEF IInv
<1> QED BY <1>1, QueueInvariant, PTL

\* The band map and the stream map of Inner always agree, so no expect() of
\* pop_locked can panic.
THEOREM MapsAgree == Spec => []BandsExact
<1>1. IInv => BandsExact BY DEF IInv
<1> QED BY <1>1, QueueInvariant, PTL

\* Inner.len is exactly the queued frames and the outstanding permits: no slot
\* is leaked and no decrement underflows.
THEOREM CountIsExact == Spec => []LenExact
<1>1. IInv => LenExact BY DEF IInv
<1> QED BY <1>1, QueueInvariant, PTL

\* Every stream's frames leave the queue in order with none missing, and a reset
\* stream has none left.
THEOREM FramesInOrder == Spec => []StreamFifo
<1>1. IInv => StreamFifo BY DEF IInv
<1> QED BY <1>1, QueueInvariant, PTL

----------------------------------------------------------------------------
(* Nobody sleeps for ever                                                   *)

\* There is a band exactly while there is a slot, before and after a step.
LEMMA KeysMeanSlots ==
  ASSUME IInv, IInv'
  PROVE  (keys = {} <=> slots = {}) /\ (keys' = {} <=> slots' = {})
<1>1. ASSUME NEW ks, NEW bs, NEW sl \in SUBSET Streams,
             NEW sp \in [Streams -> Priorities], Banded(ks, bs, sl, sp)
      PROVE  ks = {} <=> sl = {}
  <2>1. \A p \in Priorities : p \in ks <=> Range(bs[p]) # {} BY <1>1, RangeElements DEF Banded
  <2>2. \A s \in sl : sp[s] \in Priorities /\ s \in Range(bs[sp[s]]) BY <1>1 DEF Banded
  <2>3. \A p \in ks : p \in Priorities /\ \E s \in sl : sp[s] = p BY <1>1, <2>1 DEF Banded
  <2> QED BY <2>1, <2>2, <2>3
<1>2. Banded(keys, bands, slots, slotPriority) BY DEF IInv, TypeOK, BandsExact, KeysAreNonEmpty, BandsHoldSlots, Banded
<1>3. Banded(keys', bands', slots', slotPriority')
  BY DEF IInv, TypeOK, BandsExact, KeysAreNonEmpty, BandsHoldSlots, Banded
<1>4. /\ slots \in SUBSET Streams /\ slotPriority \in [Streams -> Priorities]
      /\ slots' \in SUBSET Streams /\ slotPriority' \in [Streams -> Priorities] BY DEF IInv, TypeOK
<1> QED BY <1>1, <1>2, <1>3, <1>4

\* notify_one leaves no parked producer behind unannounced: it wakes the first
\* one, or nobody is parked and the permit is there for who has yet to await.
LEMMA NotifyAnnounces ==
  ASSUME IInv, NEW p \in [Streams -> ProducerState], NotifySpace(p),
         \A s \in Range(spaceWaiters) : p[s] = "waiting",
         \A s \in Streams : p[s] = "waiting" => s \in Range(spaceWaiters)
  PROVE  /\ \A s \in Streams :
              pc'[s] = "waiting" => s \in Range(spaceWaiters') /\ Announced'
         /\ \A s \in Streams : pc'[s] = "checked" => Announced' \/ spacePermit'
         /\ \A s \in Streams :
              pc'[s] \in {"checked", "waiting"} => pc'[s] = p[s]
<1>1. spaceWaiters \in Seq(Streams) /\ IsInjective(spaceWaiters) BY DEF IInv, TypeOK, WaitersParked
<1>2. CASE spaceWaiters = <<>>
  <2>1. Range(spaceWaiters) = {} /\ pc' = p /\ spacePermit' = TRUE BY <1>1, <1>2, RangeElements DEF NotifySpace
  <2> QED BY <2>1
<1>3. CASE spaceWaiters # <<>>
  <2> DEFINE h == Head(spaceWaiters)
  <2>1. /\ h \in Range(spaceWaiters)
        /\ Range(Tail(spaceWaiters)) = Range(spaceWaiters) \ {h} BY <1>1, <1>3, TailElements
  <2>2. h \in Streams BY <1>1, <2>1, RangeElements
  <2>3. pc' = [p EXCEPT ![h] = "woken"] /\ spaceWaiters' = Tail(spaceWaiters) BY <1>3 DEF NotifySpace
  <2> HIDE DEF h
  <2>4. pc'[h] = "woken" BY <2>2, <2>3
  <2>5. Announced' BY <2>2, <2>4 DEF Announced
  <2> QED BY <2>1, <2>2, <2>3, <2>5
<1> QED BY <1>2, <1>3

\* The consumer is told of every frame that reaches an empty queue.
LEMMA EnqueueTellsConsumer ==
  ASSUME ConsumerAwake, popper \in ConsumerState, NotifyData, UNCHANGED closer
  PROVE  ConsumerAwake' BY DEF ConsumerAwake, NotifyData

\* Nothing is added to the map while the consumer sleeps.
LEMMA StillEmpty ==
  ASSUME ConsumerAwake, keys = {} => keys' = {}, UNCHANGED <<popper, dataPermit, closer>>
  PROVE  ConsumerAwake' BY DEF ConsumerAwake

\* A producer's own step, when it leaves the list of parked tasks alone, keeps
\* the promises made to the others.
LEMMA OwnStepAwake ==
  ASSUME IInv, AwakeInv, ConsumerAwake', NEW id \in Streams, pc[id] # "waiting",
         NEW st \in ProducerState \ {"waiting"}, pc' = [pc EXCEPT ![id] = st],
         UNCHANGED <<spaceWaiters, spacePermit, closer, closed>>,
         Announced => Announced', 
         st = "checked" => Announced' /\ closer # "done"
  PROVE  AwakeInv'
<1>1. pc \in [Streams -> ProducerState] BY DEF IInv, TypeOK
<1>2. ASSUME NEW s \in Streams, pc'[s] \in {"checked", "waiting"}
      PROVE  /\ closer' # "done"
             /\ pc'[s] = "waiting" => s \in Range(spaceWaiters') /\ Announced'
             /\ pc'[s] = "checked" => Announced' \/ spacePermit'
  <2>1. CASE s = id BY <1>1, <1>2, <2>1
  <2>2. CASE s # id BY <1>1, <1>2, <2>2 DEF AwakeInv
  <2> QED BY <2>1, <2>2
<1> QED BY <1>2 DEF AwakeInv

\* A producer that is told to wait has found the queue full.
LEMMA ReserveAwake ==
  ASSUME IInv, AwakeInv, NEW id \in Streams, Reserve(id)
  PROVE  AwakeInv'
<1>1. pc \in [Streams -> ProducerState] /\ len \in Nat /\ closed \in BOOLEAN BY DEF IInv, TypeOK
<1>2. /\ UNCHANGED <<spaceWaiters, spacePermit, closer, closed>>
      /\ UNCHANGED <<keys, popper, dataPermit, owed>> BY DEF Reserve, space
<1>3. ConsumerAwake' BY <1>2, StillEmpty DEF AwakeInv
<1>4. pc[id] \in {"idle", "retry", "woken"} BY DEF Reserve, AtRest
<1>5. CASE closed
  <2>1. pc' = [pc EXCEPT ![id] = "idle"] /\ closer # "open" /\ UNCHANGED len BY <1>5 DEF Reserve, AwakeInv
  <2>2. closer \in {"closing", "done"} BY <2>1 DEF IInv, TypeOK
  <2>3. ASSUME NEW s \in Streams, pc'[s] \in {"checked", "waiting"}
        PROVE  /\ s # id /\ pc'[s] = pc[s] /\ closer = "closing"
    <3>1. s # id /\ pc'[s] = pc[s] BY <1>1, <2>1, <2>3
    <3> QED BY <2>2, <2>3, <3>1 DEF AwakeInv
  <2>4. closer = "closing" => Announced' BY <1>2 DEF Announced
  <2> QED BY <1>2, <1>3, <2>3, <2>4 DEF AwakeInv
<1>6. CASE ~ closed /\ len < Capacity
  <2>1. pc' = [pc EXCEPT ![id] = "permit"] /\ len' = len + 1 BY <1>6 DEF Reserve, HasSpace
  <2>2. Announced' /\ "permit" \in ProducerState \ {"waiting"} BY <1>1, <2>1 DEF Announced, ProducerState
  <2> QED BY <1>2, <1>3, <1>4, <2>1, <2>2, OwnStepAwake
<1>7. CASE ~ closed /\ ~ (len < Capacity)
  <2>1. pc' = [pc EXCEPT ![id] = "checked"] /\ len' = len BY <1>7 DEF Reserve, HasSpace
  <2>2. Announced' /\ "checked" \in ProducerState \ {"waiting"}
    BY <1>1, <1>7, <2>1, CapacityIsPositive DEF Announced, ProducerState
  <2>3. closer # "done" BY <1>7 DEF AwakeInv
  <2> QED BY <1>2, <1>3, <1>4, <2>1, <2>2, <2>3, OwnStepAwake
<1> QED BY <1>5, <1>6, <1>7

\* A producer parks only when it can rely on a later notification.
LEMMA AwaitSpaceAwake ==
  ASSUME IInv, AwakeInv, NEW id \in Streams, AwaitSpace(id)
  PROVE  AwakeInv'
<1>1. pc \in [Streams -> ProducerState] /\ spaceWaiters \in Seq(Streams)
      /\ pc[id] = "checked" BY DEF IInv, TypeOK, AwaitSpace
<1>2. UNCHANGED <<keys, len, closed, closer, popper, dataPermit, owed>> BY DEF AwaitSpace, inner
<1>3. ConsumerAwake' BY <1>2, StillEmpty DEF AwakeInv
<1>4. CASE spacePermit
  <2>1. pc' = [pc EXCEPT ![id] = "retry"] /\ UNCHANGED spaceWaiters BY <1>4 DEF AwaitSpace
  <2>2. pc'[id] = "retry" /\ \A s \in Streams \ {id} : pc'[s] = pc[s] BY <1>1, <2>1
  <2>3. Announced' BY <2>2 DEF Announced
  <2> QED BY <1>2, <1>3, <2>1, <2>2, <2>3 DEF AwakeInv
<1>5. CASE ~ spacePermit
  <2>1. /\ spaceWaiters' = Append(spaceWaiters, id) /\ UNCHANGED spacePermit
        /\ pc' = [pc EXCEPT ![id] = "waiting"] BY <1>5 DEF AwaitSpace
  <2>2. Range(spaceWaiters') = Range(spaceWaiters) \cup {id} BY <1>1, <2>1, AppendElements
  <2>3. pc'[id] = "waiting" /\ \A s \in Streams \ {id} : pc'[s] = pc[s] BY <1>1, <2>1
  <2>4. Announced /\ closer # "done" BY <1>1, <1>5 DEF AwakeInv
  <2>5. Announced' BY <1>1, <1>2, <2>3, <2>4 DEF Announced
  <2> QED BY <1>2, <1>3, <2>2, <2>3, <2>4, <2>5 DEF AwakeInv
<1> QED BY <1>4, <1>5

\* A dropped reserve() hands the notification it had received on.
LEMMA CancelReserveAwake ==
  ASSUME IInv, AwakeInv, NEW id \in Streams, CancelReserve(id)
  PROVE  AwakeInv'
<1>1. pc \in [Streams -> ProducerState] /\ spaceWaiters \in Seq(Streams)
      /\ IsInjective(spaceWaiters) /\ Range(spaceWaiters) \subseteq Streams
  BY RangeElements DEF IInv, TypeOK, WaitersParked
<1>2. UNCHANGED <<keys, len, closed, closer, popper, dataPermit, owed>> BY DEF CancelReserve, inner
<1>3. ConsumerAwake' BY <1>2, StillEmpty DEF AwakeInv
<1>4. "idle" \in ProducerState \ {"waiting"} BY DEF ProducerState
<1>5. CASE pc[id] = "checked"
  <2>1. pc' = [pc EXCEPT ![id] = "idle"] /\ UNCHANGED <<spaceWaiters, spacePermit>> BY <1>5 DEF CancelReserve, space
  <2>2. Announced => Announced' BY <1>1, <1>2, <1>5, <2>1 DEF Announced
  <2> QED BY <1>2, <1>3, <1>4, <1>5, <2>1, <2>2, OwnStepAwake
<1>6. CASE pc[id] = "waiting"
  <2>1. /\ pc' = [pc EXCEPT ![id] = "idle"] /\ UNCHANGED spacePermit
        /\ spaceWaiters' = Unlink(spaceWaiters, id) BY <1>6 DEF CancelReserve
  <2>2. Range(spaceWaiters') = Range(spaceWaiters) \ {id} BY <1>1, <2>1, UnlinkElements
  <2>3. pc'[id] = "idle" /\ \A s \in Streams \ {id} : pc'[s] = pc[s] BY <1>1, <2>1
  <2>4. Announced => Announced' BY <1>2, <1>6, <2>3 DEF Announced
  <2> QED BY <1>2, <1>3, <2>1, <2>2, <2>3, <2>4 DEF AwakeInv
<1>7. CASE pc[id] = "woken"
  <2> DEFINE p == [pc EXCEPT ![id] = "idle"]
  <2>1. /\ p \in [Streams -> ProducerState] /\ p[id] = "idle"
        /\ \A s \in Streams \ {id} : p[s] = pc[s] BY <1>1, <1>4
  <2>2. NotifySpace(p) BY <1>7 DEF CancelReserve
  <2> HIDE DEF p
  <2>3. \A s \in Range(spaceWaiters) : p[s] = "waiting"
    <3>1. \A s \in Range(spaceWaiters) : pc[s] = "waiting" BY DEF IInv, WaitersParked
    <3> QED BY <3>1, <1>1, <1>7, <2>1
  <2>4. \A s \in Streams : p[s] \in {"checked", "waiting"} => p[s] = pc[s] BY <2>1
  <2>5. /\ \A s \in Streams :
             pc'[s] = "waiting" => s \in Range(spaceWaiters') /\ Announced'
        /\ \A s \in Streams : pc'[s] = "checked" => Announced' \/ spacePermit'
        /\ \A s \in Streams :
             pc'[s] \in {"checked", "waiting"} => pc'[s] = p[s]
    <3>1. \A s \in Streams : p[s] = "waiting" => s \in Range(spaceWaiters) BY <2>4 DEF AwakeInv
    <3> QED BY <2>1, <2>2, <2>3, <3>1, NotifyAnnounces
  <2> QED BY <1>2, <1>3, <2>4, <2>5 DEF AwakeInv
<1> QED BY <1>5, <1>6, <1>7 DEF CancelReserve

\* A freed slot is announced by the step that freed it.
LEMMA PayNotifyAwake ==
  ASSUME IInv, AwakeInv, NEW id \in Streams, PayNotify(id)
  PROVE  AwakeInv'
<1>1. pc \in [Streams -> ProducerState] BY DEF IInv, TypeOK
<1>2. UNCHANGED <<keys, closed, closer, popper, dataPermit>> /\ NotifySpace(pc) BY DEF PayNotify, inner
<1>3. ConsumerAwake' BY <1>2, StillEmpty DEF AwakeInv
<1>4. \A s \in Range(spaceWaiters) : pc[s] = "waiting" BY DEF IInv, WaitersParked
<1>5. \A s \in Streams : pc[s] = "waiting" => s \in Range(spaceWaiters) BY DEF AwakeInv
<1>6. /\ \A s \in Streams :
           pc'[s] = "waiting" => s \in Range(spaceWaiters') /\ Announced'
      /\ \A s \in Streams : pc'[s] = "checked" => Announced' \/ spacePermit'
      /\ \A s \in Streams :
           pc'[s] \in {"checked", "waiting"} => pc'[s] = pc[s] BY <1>1, <1>2, <1>4, <1>5, NotifyAnnounces
<1> QED BY <1>2, <1>3, <1>6 DEF AwakeInv

\* Permit::send and push_now keep every slot they find and wake the consumer.
LEMMA EnqueueAwake ==
  ASSUME IInv, AwakeInv, NEW id \in Streams, Send(id) \/ PushNow(id)
  PROVE  AwakeInv'
<1>1. /\ pc \in [Streams -> ProducerState] /\ len \in Nat
      /\ popper \in ConsumerState BY DEF IInv, TypeOK
<1>2. /\ UNCHANGED <<spaceWaiters, spacePermit, closer, closed>> /\ UNCHANGED owed /\ NotifyData
      /\ len' = len \/ len' = len + 1 BY DEF Send, PushNow, space, EnqueueLocked
<1>3. ConsumerAwake' BY <1>1, <1>2, EnqueueTellsConsumer DEF AwakeInv
<1>4. pc' = [pc EXCEPT ![id] = "idle"] /\ pc[id] \in {"idle", "permit"} BY <1>1 DEF Send, PushNow, AtRest
<1>5. Announced => Announced' BY <1>1, <1>2, <1>4 DEF Announced
<1>6. "idle" \in ProducerState \ {"waiting"} BY DEF ProducerState
<1> QED BY <1>2, <1>3, <1>4, <1>5, <1>6, OwnStepAwake

\* Whoever frees slots owes the notifications for them.
LEMMA ReleaseAwake ==
  ASSUME IInv, AwakeInv, NEW id \in Streams, DropPermit(id) \/ RemoveId(id), IInv'
  PROVE  AwakeInv'
<1>1. /\ pc \in [Streams -> ProducerState] /\ owed \in [Streams -> Nat]
      /\ frames \in [Streams -> Seq(Frame)] BY DEF IInv, TypeOK
<1>2. /\ UNCHANGED <<spaceWaiters, spacePermit, closer, closed>>
      /\ UNCHANGED <<popper, dataPermit>> /\ owed[id] = 0 BY DEF DropPermit, RemoveId, space
<1>3. ConsumerAwake'
  <2>1. slots' \subseteq slots BY DEF DropPermit, RemoveId
  <2>2. keys = {} => keys' = {} BY <2>1, KeysMeanSlots
  <2> QED BY <1>2, <2>2, StillEmpty DEF AwakeInv
<1>4. PICK st \in {"idle", "permit"} : pc' = [pc EXCEPT ![id] = st] BY <1>1 DEF DropPermit, RemoveId
<1>5. pc[id] \in {"idle", "permit"} BY DEF DropPermit, RemoveId
<1>6. Announced => Announced'
  <2>1. CASE owed' = owed /\ len' = len BY <1>1, <1>2, <1>4, <1>5, <2>1 DEF Announced
  <2>2. CASE owed'[id] > 0 BY <2>2 DEF Announced
  <2>3. \/ owed' = owed /\ len' = len
        \/ owed'[id] > 0
    <3>1. CASE DropPermit(id) BY <3>1, <1>1 DEF DropPermit
    <3>2. CASE RemoveId(id) /\ id \in slots
      <4>1. frames[id] # <<>> BY <3>2 DEF IInv, BandsExact, SlotsHaveFrames
      <4>2. Len(frames[id]) \in Nat \ {0} BY <1>1, <4>1, EmptySeq
      <4>3. owed'[id] = Len(frames[id]) BY <1>1, <3>2 DEF RemoveId
      <4> QED BY <4>2, <4>3
    <3>3. CASE RemoveId(id) /\ id \notin slots BY <3>3 DEF RemoveId
    <3> QED BY <3>1, <3>2, <3>3
  <2> QED BY <2>1, <2>2, <2>3
<1>7. st \in ProducerState \ {"waiting"} /\ st # "checked" BY DEF ProducerState
<1> QED BY <1>2, <1>3, <1>4, <1>5, <1>6, <1>7, OwnStepAwake

\* set_priority moves pointers of a queue that has frames.
LEMMA SetPriorityAwake ==
  ASSUME IInv, AwakeInv, NEW id \in Streams, NEW new \in Priorities,
         SetPriority(id, new), IInv'
  PROVE  AwakeInv'
<1>1. /\ UNCHANGED <<spaceWaiters, spacePermit, closer, closed>>
      /\ UNCHANGED <<popper, dataPermit, owed, pc, len, slots>> BY DEF SetPriority, space
<1>2. keys = {} => keys' = {} BY <1>1, KeysMeanSlots
<1>3. ConsumerAwake' BY <1>1, <1>2, StillEmpty DEF AwakeInv
<1>4. Announced' = Announced BY <1>1 DEF Announced
<1> QED BY <1>1, <1>3, <1>4 DEF AwakeInv

\* Every frame that leaves announces its slot; the consumer sleeps only on an
\* empty open queue.
LEMMA ConsumerStepAwake ==
  ASSUME IInv, AwakeInv, Consumer
  PROVE  AwakeInv'
<1>1. pc \in [Streams -> ProducerState] /\ closer \in {"open", "closing", "done"} BY DEF IInv, TypeOK
<1>2. CASE Pop /\ keys # {}
  <2>1. UNCHANGED <<closed, closer, dataPermit>> /\ popper' = "run" /\ NotifySpace(pc) BY <1>2 DEF Pop, PopLocked
  <2>2. \A s \in Range(spaceWaiters) : pc[s] = "waiting" BY DEF IInv, WaitersParked
  <2>3. \A s \in Streams : pc[s] = "waiting" => s \in Range(spaceWaiters) BY DEF AwakeInv
  <2>4. /\ \A s \in Streams :
             pc'[s] = "waiting" => s \in Range(spaceWaiters') /\ Announced'
        /\ \A s \in Streams : pc'[s] = "checked" => Announced' \/ spacePermit'
        /\ \A s \in Streams :
             pc'[s] \in {"checked", "waiting"} => pc'[s] = pc[s] BY <1>1, <2>1, <2>2, <2>3, NotifyAnnounces
  <2> QED BY <2>1, <2>4 DEF AwakeInv, ConsumerAwake
<1>3. CASE (Pop /\ keys = {}) \/ AwaitData \/ CancelPop
  <2>1. /\ UNCHANGED <<keys, len, closed, closer, pc, owed>>
        /\ UNCHANGED <<spaceWaiters, spacePermit>> BY <1>3 DEF Pop, AwaitData, CancelPop, inner, space
  <2>2. ConsumerAwake' BY <1>3, <2>1 DEF Pop, AwaitData, CancelPop, ConsumerAwake, AwakeInv
  <2>3. Announced' = Announced BY <2>1 DEF Announced
  <2> QED BY <2>1, <2>2, <2>3 DEF AwakeInv
<1> QED BY <1>2, <1>3 DEF Consumer, Pop

\* close() reaches whoever checked the queue before it.
LEMMA CloseAwake ==
  ASSUME IInv, AwakeInv, Close \/ CloseNotify
  PROVE  AwakeInv'
<1>1. pc \in [Streams -> ProducerState] BY DEF IInv, TypeOK
<1>2. CASE Close
  <2>1. /\ closer' = "closing" /\ closed' = TRUE /\ UNCHANGED <<keys, pc, owed, spaceWaiters, spacePermit>>
        /\ UNCHANGED <<popper, dataPermit>> BY <1>2 DEF Close, space
  <2>2. Announced' BY <2>1 DEF Announced
  <2>3. ConsumerAwake' BY <2>1 DEF AwakeInv, ConsumerAwake
  <2> QED BY <2>1, <2>2, <2>3 DEF AwakeInv
<1>3. CASE CloseNotify
  <2>1. \A s \in Streams : pc'[s] \notin {"checked", "waiting"} BY <1>1, <1>3 DEF CloseNotify
  <2>2. closer' = "done" /\ UNCHANGED closed /\ popper' \notin {"checked", "waiting"}
        /\ closer = "closing" BY <1>3 DEF CloseNotify, inner
  <2> QED BY <2>1, <2>2 DEF AwakeInv, ConsumerAwake
<1> QED BY <1>2, <1>3

\* Every step keeps both invariants.
LEMMA StepAwake ==
  ASSUME IInv, AwakeInv, [Next]_vars
  PROVE  AwakeInv'
<1>1. IInv' BY StepKeeps
<1>2. ASSUME NEW s \in Streams, Producer(s)
      PROVE  AwakeInv'
  BY <1>1, <1>2, ReserveAwake, AwaitSpaceAwake, CancelReserveAwake, EnqueueAwake, ReleaseAwake, SetPriorityAwake,
    PayNotifyAwake DEF Producer
<1>3. CASE UNCHANGED vars BY <1>3 DEF vars, inner, space, AwakeInv, ConsumerAwake, Announced
<1> QED BY <1>2, <1>3, ConsumerStepAwake, CloseAwake DEF Next

----------------------------------------------------------------------------
(* Data within the capacity                                                 *)

\* The queued frames that are not FINs: the ones the capacity counts.
DataFrames == {q \in Queued : ~frames[q[1]][q[2]].fin}

\* Data frames and permits can be counted, and len counts at least these.
LEMMA DataCounted ==
  ASSUME IInv
  PROVE  /\ IsFiniteSet(DataFrames) /\ IsFiniteSet(Holders)
         /\ Cardinality(DataFrames) \in Nat /\ Cardinality(Holders) \in Nat
         /\ Cardinality(DataFrames) + Cardinality(Holders) <= len
<1>1. IsFiniteSet(Queued) /\ DataFrames \subseteq Queued BY DEF IInv, DataFrames
<1>2. IsFiniteSet(Holders) /\ Cardinality(Holders) \in Nat
  BY StreamsAreFinite, FS_Subset, FS_CardinalityType DEF Holders
<1>3. /\ IsFiniteSet(DataFrames) /\ Cardinality(DataFrames) <= Cardinality(Queued)
      /\ Cardinality(DataFrames) \in Nat /\ Cardinality(Queued) \in Nat BY <1>1, FS_Subset, FS_CardinalityType
<1> QED BY <1>2, <1>3 DEF IInv, LenExact

\* A step that adds neither data nor permits keeps the bound.
LEMMA NoMoreData ==
  ASSUME IInv, DataWithinCapacity, Holders' \subseteq Holders,
         IsFiniteSet(DataFrames'), Cardinality(DataFrames') <= Cardinality(DataFrames)
  PROVE  DataWithinCapacity'
<1>1. /\ IsFiniteSet(Holders) /\ Cardinality(Holders) \in Nat
      /\ Cardinality(DataFrames) \in Nat BY DataCounted
<1>2. Cardinality(Holders') <= Cardinality(Holders) /\ Cardinality(Holders') \in Nat
  BY <1>1, FS_Subset, FS_CardinalityType
<1>3. Cardinality(DataFrames) + Cardinality(Holders) <= Capacity BY DEF DataWithinCapacity, DataFrames
<1>4. Cardinality(DataFrames') \in Nat BY FS_CardinalityType
<1>5. Cardinality(DataFrames') + Cardinality(Holders') <= Capacity BY <1>1, <1>2, <1>3, <1>4, CapacityIsPositive
<1> QED BY <1>5 DEF DataWithinCapacity, DataFrames

\* The same when the frames are left alone.
LEMMA SameData ==
  ASSUME IInv, DataWithinCapacity, Holders' \subseteq Holders, UNCHANGED frames
  PROVE  DataWithinCapacity'
<1>1. DataFrames' = DataFrames BY DEF DataFrames, Queued
<1>2. IsFiniteSet(DataFrames) /\ Cardinality(DataFrames) \in Nat BY DataCounted
<1> QED BY <1>1, <1>2, NoMoreData

\* A permit is handed out only while len, which counts the FINs too, is below
\* the capacity.
LEMMA ReserveBounded ==
  ASSUME IInv, DataWithinCapacity, NEW id \in Streams, Reserve(id)
  PROVE  DataWithinCapacity'
<1>1. pc \in [Streams -> ProducerState] /\ len \in Nat BY DEF IInv, TypeOK
<1>2. UNCHANGED frames /\ DataFrames' = DataFrames BY DEF Reserve, DataFrames, Queued
<1>3. pc[id] # "permit" BY DEF Reserve, AtRest
<1>4. CASE ~ closed /\ len < Capacity
  <2>1. pc' = [pc EXCEPT ![id] = "permit"] /\ "permit" \in ProducerState BY <1>4 DEF Reserve, HasSpace, ProducerState
  <2>2. Cardinality(Holders') = Cardinality(Holders) + 1 BY <1>1, <1>3, <2>1, HoldersStep
  <2>3. /\ Cardinality(DataFrames) \in Nat /\ Cardinality(Holders) \in Nat
        /\ Cardinality(DataFrames) + Cardinality(Holders) <= len BY DataCounted
  <2>4. Cardinality(DataFrames') + Cardinality(Holders') <= Capacity BY <1>1, <1>2, <1>4, <2>2, <2>3, CapacityIsPositive
  <2> QED BY <2>4 DEF DataWithinCapacity, DataFrames
<1>5. CASE ~ (~ closed /\ len < Capacity)
  <2>1. \E st \in {"idle", "checked"} : pc' = [pc EXCEPT ![id] = st] BY <1>5 DEF Reserve, HasSpace
  <2>2. Holders' \subseteq Holders BY <1>1, <2>1 DEF Holders
  <2> QED BY <1>2, <2>2, SameData
<1> QED BY <1>4, <1>5

\* What an appended frame adds to the data frames.
LEMMA DataAppended ==
  ASSUME IInv, NEW id \in Streams, NEW f \in Frame,
         frames' = [frames EXCEPT ![id] = Append(@, f)]
  PROVE  IF f.fin THEN DataFrames' = DataFrames
         ELSE DataFrames' = DataFrames \cup {<<id, Len(frames[id]) + 1>>}
<1> DEFINE n == Len(frames[id])
           new == <<id, n + 1>>
<1>1. frames \in [Streams -> Seq(Frame)] /\ n \in Nat /\ frames[id] \in Seq(Frame) BY DEF IInv, TypeOK
<1>2. frames'[id] = Append(frames[id], f) /\ \A s \in Streams \ {id} : frames'[s] = frames[s] BY <1>1
<1>3. /\ Len(frames'[id]) = n + 1 /\ frames'[id][n + 1] = f
      /\ \A i \in 1 .. n : frames'[id][i] = frames[id][i] BY <1>1, <1>2
<1>4. 1 .. n + 1 = (1 .. n) \cup {n + 1} /\ n + 1 \notin 1 .. n BY <1>1
<1>5. \A s \in Streams, i \in Nat :
        <<s, i>> \in DataFrames' <=>
          \/ <<s, i>> \in DataFrames
          \/ <<s, i>> = new /\ ~ f.fin
  <2> SUFFICES ASSUME NEW s \in Streams, NEW i \in Nat
               PROVE  <<s, i>> \in DataFrames' <=>
                        \/ <<s, i>> \in DataFrames
                        \/ <<s, i>> = new /\ ~ f.fin OBVIOUS
  <2>1. <<s, i>> \in DataFrames <=> i \in 1 .. Len(frames[s]) /\ ~ frames[s][i].fin BY DEF DataFrames, Queued
  <2>2. <<s, i>> \in DataFrames' <=> i \in 1 .. Len(frames'[s]) /\ ~ frames'[s][i].fin BY DEF DataFrames, Queued
  <2>3. CASE s # id BY <1>2, <2>1, <2>2, <2>3
  <2>4. CASE s = id BY <1>1, <1>3, <1>4, <2>1, <2>2, <2>4
  <2> QED BY <2>3, <2>4
<1>6. /\ DataFrames \subseteq Streams \X Nat /\ DataFrames' \subseteq Streams \X Nat
      /\ new \in Streams \X Nat BY <1>1, QueuedElements DEF DataFrames, Queued
<1> HIDE DEF new, n
<1>7. CASE f.fin
  <2>1. \A s \in Streams, i \in Nat : <<s, i>> \in DataFrames' <=> <<s, i>> \in DataFrames BY <1>5, <1>7, Zenon
  <2>2. DataFrames' \subseteq DataFrames /\ DataFrames \subseteq DataFrames' BY <1>6, <2>1
  <2>3. DataFrames' = DataFrames BY <2>2, Zenon
  <2> QED BY <2>3, <1>7
<1>8. CASE ~ f.fin
  <2>1. DataFrames' = DataFrames \cup {new} BY <1>5, <1>6, <1>8
  <2> QED BY <2>1, <1>8 DEF new, n
<1> QED BY <1>7, <1>8

\* A data frame takes the place of the permit it was sent with.
LEMMA SendBounded ==
  ASSUME IInv, DataWithinCapacity, NEW id \in Streams, Send(id)
  PROVE  DataWithinCapacity'
<1> DEFINE f == [seq |-> enqueued[id] + 1, fin |-> FALSE]
<1>1. pc \in [Streams -> ProducerState] /\ enqueued[id] \in Nat
      /\ "idle" \in ProducerState BY DEF IInv, TypeOK, ProducerState
<1>2. frames' = [frames EXCEPT ![id] = Append(@, f)] /\ f \in Frame /\ f.fin = FALSE
  BY <1>1 DEF Send, EnqueueLocked, Frame
<1> HIDE DEF f
<1>3. DataFrames' = DataFrames \cup {<<id, Len(frames[id]) + 1>>} BY <1>2, DataAppended
<1>4. /\ IsFiniteSet(DataFrames) /\ Cardinality(DataFrames) \in Nat
      /\ Cardinality(Holders) \in Nat BY DataCounted
<1>5. Cardinality(DataFrames') \in {Cardinality(DataFrames), Cardinality(DataFrames) + 1} BY <1>3, <1>4, FS_AddElement
<1>6. Cardinality(Holders') = Cardinality(Holders) - 1 BY <1>1, HoldersStep DEF Send
<1>7. Cardinality(DataFrames) + Cardinality(Holders) <= Capacity BY DEF DataWithinCapacity, DataFrames
<1>8. Cardinality(DataFrames') + Cardinality(Holders') <= Capacity BY <1>4, <1>5, <1>6, <1>7, CapacityIsPositive
<1> QED BY <1>8 DEF DataWithinCapacity, DataFrames

\* A FIN takes no slot of the capacity.
LEMMA PushNowBounded ==
  ASSUME IInv, DataWithinCapacity, NEW id \in Streams, PushNow(id)
  PROVE  DataWithinCapacity'
<1> DEFINE f == [seq |-> enqueued[id] + 1, fin |-> TRUE]
<1>1. enqueued[id] \in Nat BY DEF IInv, TypeOK
<1>2. frames' = [frames EXCEPT ![id] = Append(@, f)] /\ f \in Frame /\ f.fin = TRUE
  BY <1>1 DEF PushNow, EnqueueLocked, Frame
<1> HIDE DEF f
<1>3. DataFrames' = DataFrames /\ Holders' = Holders BY <1>2, DataAppended DEF PushNow, Holders
<1>4. IsFiniteSet(DataFrames) /\ Cardinality(DataFrames) \in Nat BY DataCounted
<1> QED BY <1>3, <1>4, NoMoreData

\* remove() takes frames away.
LEMMA RemoveIdBounded ==
  ASSUME IInv, DataWithinCapacity, NEW id \in Streams, RemoveId(id)
  PROVE  DataWithinCapacity'
<1>1. frames \in [Streams -> Seq(Frame)] BY DEF IInv, TypeOK
<1>2. frames' = [frames EXCEPT ![id] = <<>>] \/ UNCHANGED frames BY DEF RemoveId
<1>3. \A s \in Streams : frames'[s] = frames[s] \/ frames'[s] = <<>> BY <1>1, <1>2
<1>4. DataFrames' \subseteq DataFrames
  <2>1. \A s \in Streams : \A i \in 1 .. Len(frames'[s]) : frames'[s] = frames[s] BY <1>3
  <2> QED BY <2>1 DEF DataFrames, Queued
<1>5. IsFiniteSet(DataFrames) /\ Holders' = Holders BY DataCounted DEF RemoveId, Holders
<1> QED BY <1>4, <1>5, FS_Subset, NoMoreData

\* pop_locked takes the first frame of a stream: the others move up by one.
LEMMA PopBounded ==
  ASSUME IInv, DataWithinCapacity, Pop
  PROVE  DataWithinCapacity'
<1>1. pc \in [Streams -> ProducerState] /\ frames \in [Streams -> Seq(Frame)] BY DEF IInv, TypeOK
<1>2. CASE keys = {}
  <2>1. UNCHANGED <<frames, pc>> BY <1>2 DEF Pop
  <2> QED BY <2>1, SameData DEF Holders
<1>3. CASE keys # {}
  <2> DEFINE id == Head(bands[MaxBand])
             up(q) == <<q[1], IF q[1] = id THEN q[2] + 1 ELSE q[2]>>
             g == [q \in DataFrames' |-> up(q)]
  <2>1. frames' = [frames EXCEPT ![id] = Tail(frames[id])] /\ NotifySpace(pc) BY <1>3 DEF Pop, PopLocked
  <2>2. Holders' \subseteq Holders BY <1>1, <2>1 DEF NotifySpace, Holders
  <2>3. id \in slots
    <3>1. /\ keys \in SUBSET Priorities /\ slots \in SUBSET Streams /\ slotPriority \in [Streams -> Priorities]
          /\ Banded(keys, bands, slots, slotPriority) BY BandsForm DEF IInv, TypeOK
    <3>2. MaxBand \in keys BY <1>3, <3>1, MaxExists DEF MaxBand
    <3> QED BY <3>1, <3>2, PopBanded
  <2>4. id \in Streams /\ frames[id] # <<>> BY <2>3 DEF IInv, TypeOK, BandsExact, SlotsHaveFrames
  <2> HIDE DEF id
  <2>5. /\ frames'[id] = Tail(frames[id])
        /\ \A s \in Streams \ {id} : frames'[s] = frames[s] BY <1>1, <2>1, <2>4
  <2>6. /\ Len(frames'[id]) = Len(frames[id]) - 1 /\ Len(frames[id]) \in Nat \ {0}
        /\ \A i \in 1 .. Len(frames[id]) - 1 : frames'[id][i] = frames[id][i + 1] BY <1>1, <2>4, <2>5, EmptySeq
  <2>7. \A q \in DataFrames' : up(q) \in DataFrames
    <3> SUFFICES ASSUME NEW s \in Streams, NEW i \in 1 .. Len(frames'[s]),
                        ~ frames'[s][i].fin
                 PROVE  up(<<s, i>>) \in DataFrames BY DEF DataFrames, Queued
    <3>1. \A t \in Streams : \A j \in 1 .. Len(frames[t]) :
            ~ frames[t][j].fin => <<t, j>> \in DataFrames BY DEF DataFrames, Queued
    <3>2. CASE s = id
      <4>1. i \in 1 .. Len(frames[id]) - 1 /\ i + 1 \in 1 .. Len(frames[id]) BY <3>2, <2>6
      <4>2. ~ frames[id][i + 1].fin BY <3>2, <4>1, <2>6
      <4> QED BY <3>1, <3>2, <4>1, <4>2
    <3>3. CASE s # id BY <3>1, <3>3, <2>5
    <3> QED BY <3>2, <3>3
  <2>8. \A q, r \in DataFrames' : up(q) = up(r) => q = r
    <3>1. \A q \in DataFrames' : q = <<q[1], q[2]>> /\ q[2] \in Nat BY DEF DataFrames, Queued
    <3> QED BY <3>1
  <2> HIDE DEF up
  <2>9. IsFiniteSet(DataFrames) BY DataCounted
  <2>10. g \in Injection(DataFrames', DataFrames) BY <2>7, <2>8 DEF Injection, IsInjective
  <2>11. IsFiniteSet(DataFrames') /\ Cardinality(DataFrames') <= Cardinality(DataFrames) BY <2>9, <2>10, FS_Injection
  <2> QED BY <2>2, <2>11, NoMoreData
<1> QED BY <1>2, <1>3

\* Every step keeps the bound.
LEMMA StepBounded ==
  ASSUME IInv, DataWithinCapacity, [Next]_vars
  PROVE  DataWithinCapacity'
<1>1. pc \in [Streams -> ProducerState] /\ spaceWaiters \in Seq(Streams) BY DEF IInv, TypeOK
<1>2. ASSUME NEW s \in Streams, Producer(s)
      PROVE  DataWithinCapacity'
  <2>1. CASE AwaitSpace(s) BY <1>1, <2>1, SameData DEF AwaitSpace, inner, Holders
  <2>2. CASE CancelReserve(s) BY <1>1, <2>2, SameData DEF CancelReserve, NotifySpace, inner, Holders
  <2>3. CASE DropPermit(s) BY <1>1, <2>3, SameData DEF DropPermit, Holders
  <2>4. CASE \E p \in Priorities : SetPriority(s, p) BY <2>4, SameData DEF SetPriority, Holders
  <2>5. CASE PayNotify(s) BY <1>1, <2>5, SameData DEF PayNotify, NotifySpace, inner, Holders
  <2> QED
    BY <1>2, <2>1, <2>2, <2>3, <2>4, <2>5, ReserveBounded, SendBounded, PushNowBounded, RemoveIdBounded DEF Producer
<1>3. CASE AwaitData \/ CancelPop \/ Close \/ UNCHANGED vars
  BY <1>3, SameData DEF AwaitData, CancelPop, Close, vars, inner, Holders
<1>4. CASE CloseNotify BY <1>1, <1>4, SameData DEF CloseNotify, inner, Holders
<1> QED BY <1>2, <1>3, <1>4, PopBounded DEF Next, Consumer

----------------------------------------------------------------------------
(* The order of the bands                                                   *)

\* No two ids of a band precede each other.
LEMMA OneOrder ==
  ASSUME NEW S, NEW q \in Seq(S), IsInjective(q), NEW x, NEW y, Precedes(q, x, y)
  PROVE  ~ Precedes(q, y, x) /\ x \in Range(q) /\ y \in Range(q) /\ x # y
<1>1. DOMAIN q = 1 .. Len(q) /\ Len(q) \in Nat OBVIOUS
<1>2. \A i, j \in 1 .. Len(q) : q[i] = q[j] => i = j BY RangeElements
<1>3. Range(q) = {q[i] : i \in 1 .. Len(q)} BY RangeElements
<1> QED BY <1>1, <1>2, <1>3 DEF Precedes

\* An id pushed at the back comes after all the others, whose order stays.
LEMMA AppendOrder ==
  ASSUME NEW S, NEW q \in Seq(S), NEW e \in S
  PROVE  /\ \A x, y : Precedes(Append(q, e), x, y) => Precedes(q, x, y) \/ y = e
         /\ \A x \in Range(q) : Precedes(Append(q, e), x, e)
<1> DEFINE t == Append(q, e)
<1>1. /\ Len(t) = Len(q) + 1 /\ Len(q) \in Nat /\ DOMAIN t = 1 .. Len(q) + 1 /\ DOMAIN q = 1 .. Len(q)
      /\ \A i \in 1 .. Len(q) : t[i] = q[i]
      /\ t[Len(q) + 1] = e OBVIOUS
<1> HIDE DEF t
<1>2. ASSUME NEW i \in DOMAIN t, NEW j \in DOMAIN t, i < j
      PROVE  Precedes(q, t[i], t[j]) \/ t[j] = e
  <2>1. CASE j = Len(q) + 1 BY <1>1, <2>1
  <2>2. CASE j \in 1 .. Len(q)
    <3>1. i \in 1 .. Len(q) BY <1>1, <1>2, <2>2
    <3>2. t[i] = q[i] /\ t[j] = q[j] BY <1>1, <2>2, <3>1
    <3> QED BY <1>1, <1>2, <2>2, <3>1, <3>2 DEF Precedes
  <2> QED BY <1>1, <2>1, <2>2
<1>3. \A x, y : Precedes(t, x, y) => Precedes(q, x, y) \/ y = e BY <1>2 DEF Precedes
<1>4. ASSUME NEW x \in Range(q) PROVE Precedes(t, x, e)
  <2>1. PICK i \in 1 .. Len(q) : q[i] = x BY RangeElements
  <2>2. i < Len(q) + 1 /\ i \in DOMAIN t /\ Len(q) + 1 \in DOMAIN t /\ t[i] = x BY <1>1, <2>1
  <2> QED BY <1>1, <2>2 DEF Precedes
<1> QED BY <1>3, <1>4 DEF t

\* The ids behind the front keep their order when it is popped.
LEMMA TailOrder ==
  ASSUME NEW S, NEW q \in Seq(S), q # <<>>, NEW x, NEW y,
         Precedes(Tail(q), x, y)
  PROVE  Precedes(q, x, y)
<1> DEFINE t == Tail(q)
<1>1. /\ Len(q) \in Nat \ {0} /\ DOMAIN t = 1 .. Len(q) - 1 /\ DOMAIN q = 1 .. Len(q)
      /\ \A i \in 1 .. Len(q) - 1 : t[i] = q[i + 1] BY EmptySeq
<1> HIDE DEF t
<1>2. PICK i \in DOMAIN t, j \in DOMAIN t : i < j /\ t[i] = x /\ t[j] = y BY DEF Precedes, t
<1>3. /\ i + 1 \in DOMAIN q /\ j + 1 \in DOMAIN q /\ i + 1 < j + 1
      /\ q[i + 1] = x /\ q[j + 1] = y BY <1>1, <1>2
<1> QED BY <1>3 DEF Precedes

\* No band of nb has two ids in the other order than bs.
OrderKept(bs, nb) ==
  \A p \in Priorities : \A x, y : Precedes(bs[p], x, y) => ~ Precedes(nb[p], y, x)

\* A band map keeps its own order.
LEMMA SameOrder ==
  ASSUME NEW ks, NEW bs, NEW sl, NEW sp, Banded(ks, bs, sl, sp)
  PROVE  OrderKept(bs, bs) BY OneOrder DEF OrderKept, Banded

\* arm of an id that is not scheduled lets nobody overtake.
LEMMA ArmOrder ==
  ASSUME NEW ks, NEW bs, NEW sl, NEW sp, Banded(ks, bs, sl, sp),
         NEW id \in Streams \ sl, NEW band \in Priorities
  PROVE  OrderKept(bs, Arm(ks, bs, id, band).bands)
<1> DEFINE nb == [bs EXCEPT ![band] = Append(bs[band], id)]
<1>1. bs \in [Priorities -> Seq(Streams)] BY DEF Banded
<1>2. ASSUME NEW p \in Priorities, NEW x, NEW y, Precedes(bs[p], x, y)
      PROVE  ~ Precedes(nb[p], y, x)
  <2>1. /\ bs[p] \in Seq(Streams) /\ IsInjective(bs[p]) /\ id \notin Range(bs[p]) BY <1>1 DEF Banded
  <2>2. ~ Precedes(bs[p], y, x) /\ x # id BY <1>2, <2>1, OneOrder
  <2>3. CASE p # band BY <1>1, <2>2, <2>3
  <2>4. CASE p = band
    <3>1. nb[p] = Append(bs[p], id) BY <1>1, <2>4
    <3> QED BY <2>1, <2>2, <3>1, AppendOrder
  <2> QED BY <2>3, <2>4
<1>3. Arm(ks, bs, id, band).bands = nb BY DEF Arm
<1> QED BY <1>2, <1>3 DEF OrderKept

\* Taking an id out of its band lets nobody overtake.
LEMMA UnscheduleOrder ==
  ASSUME NEW ks, NEW bs, NEW sl \in SUBSET Streams,
         NEW sp \in [Streams -> Priorities],
         Banded(ks, bs, sl, sp), NEW id \in sl
  PROVE  OrderKept(bs, Unschedule(ks, bs, id, sp[id]).bands)
<1> DEFINE old == sp[id]
           ub == [bs EXCEPT ![old] = Unlink(bs[old], id)]
<1>1. bs \in [Priorities -> Seq(Streams)] /\ old \in Priorities BY DEF Banded
<1>2. ASSUME NEW p \in Priorities, NEW x, NEW y, Precedes(bs[p], x, y)
      PROVE  ~ Precedes(ub[p], y, x)
  <2>1. bs[p] \in Seq(Streams) /\ IsInjective(bs[p]) BY <1>1 DEF Banded
  <2>2. ~ Precedes(bs[p], y, x) BY <1>2, <2>1, OneOrder
  <2>3. ub[p] = bs[p] \/ ub[p] = Unlink(bs[p], id) BY <1>1
  <2> QED BY <2>1, <2>2, <2>3, UnlinkElements
<1>3. Unschedule(ks, bs, id, old).bands = ub BY DEF Unschedule
<1> QED BY <1>2, <1>3 DEF OrderKept

\* Nor does arming it again at the back of another band.
LEMMA MoveOrder ==
  ASSUME NEW ks, NEW bs, NEW sl \in SUBSET Streams,
         NEW sp \in [Streams -> Priorities],
         Banded(ks, bs, sl, sp), NEW id \in sl, NEW new \in Priorities, new # sp[id]
  PROVE  LET un == Unschedule(ks, bs, id, sp[id])
         IN  OrderKept(bs, Arm(un.keys, un.bands, id, new).bands)
<1> DEFINE un == Unschedule(ks, bs, id, sp[id])
           nb == [un.bands EXCEPT ![new] = Append(un.bands[new], id)]
<1>1. bs \in [Priorities -> Seq(Streams)] /\ sp[id] \in Priorities /\ id \in Streams BY DEF Banded
<1>2. un.bands \in [Priorities -> Seq(Streams)] /\ un.bands[new] = bs[new]
  <2>1. Unlink(bs[sp[id]], id) \in Seq(Streams) BY <1>1, UnlinkElements DEF Banded
  <2>2. un.bands = [bs EXCEPT ![sp[id]] = Unlink(bs[sp[id]], id)] BY DEF Unschedule
  <2> QED BY <1>1, <2>1, <2>2
<1>3. OrderKept(bs, un.bands) BY UnscheduleOrder
<1> HIDE DEF un
<1>4. ASSUME NEW p \in Priorities, NEW x, NEW y, Precedes(bs[p], x, y)
      PROVE  ~ Precedes(nb[p], y, x)
  <2>1. CASE p # new BY <1>2, <1>3, <1>4, <2>1 DEF OrderKept
  <2>2. CASE p = new
    <3>1. nb[p] = Append(bs[p], id) /\ bs[p] \in Seq(Streams) /\ IsInjective(bs[p]) BY <1>1, <1>2, <2>2 DEF Banded
    <3>2. id \notin Range(bs[p]) BY <2>2 DEF Banded
    <3>3. ~ Precedes(bs[p], y, x) /\ x \in Range(bs[p]) BY <1>4, <3>1, OneOrder
    <3>4. ~ Precedes(Append(bs[p], id), y, x)
      <4> HIDE DEF nb
      <4> QED BY <1>1, <3>1, <3>2, <3>3, AppendOrder
    <3> QED BY <3>1, <3>4
  <2> QED BY <2>1, <2>2
<1>5. Arm(un.keys, un.bands, id, new).bands = nb BY DEF Arm
<1>6. OrderKept(bs, Arm(un.keys, un.bands, id, new).bands) BY <1>4, <1>5 DEF OrderKept
<1> QED BY <1>6 DEF un

----------------------------------------------------------------------------
(* Priority, then round robin                                               *)

\* The property of one step that PriorityThenRoundRobin states.
RoundRobinStep ==
  \A s, t \in Streams :
    /\ (s \in slots /\ s # t /\ popped'[t] # popped[t]) =>
         /\ priority[s] <= priority[t]
         /\ (priority[s] = priority[t] /\ t \in slots') =>
              Ahead(priority[s], s, t)'
    /\ \A p \in Priorities :
         (Ahead(p, s, t) /\ Ahead(p, t, s)') => popped'[s] # popped[s]

\* A step that pops nothing and reorders nothing.
LEMMA QuietStep ==
  ASSUME UNCHANGED popped, OrderKept(bands, bands')
  PROVE  RoundRobinStep BY DEF RoundRobinStep, OrderKept, Ahead, Precedes

\* pop_locked serves the front of the highest band and sends it to the back.
LEMMA PopRoundRobin ==
  ASSUME IInv, keys # {}, PopLocked, UNCHANGED <<slotPriority, owner>>
  PROVE  RoundRobinStep
<1>1. /\ slots \in SUBSET Streams /\ slotPriority \in [Streams -> Priorities]
      /\ keys \in SUBSET Priorities /\ bands \in [Priorities -> Seq(Streams)]
      /\ popped \in [Streams -> Nat] /\ frames \in [Streams -> Seq(Frame)]
      /\ priority \in [Streams -> Priorities] BY DEF IInv, TypeOK
<1>2. Banded(keys, bands, slots, slotPriority) /\ SlotsHaveFrames BY BandsForm DEF IInv
<1>3. PICK band \in keys : band = MaxBand /\ \A p \in keys : p <= band BY <1>1, MaxExists DEF MaxBand
<1>4. PICK id \in slots : id = Head(bands[band]) /\ slotPriority[id] = band
  <2>1. Head(bands[band]) \in Range(bands[band]) BY <1>1, <1>2, <1>3, TailElements DEF Banded
  <2> QED BY <1>1, <1>2, <1>3, <2>1 DEF Banded
<1> DEFINE rest == Tail(bands[band])
           left == Tail(frames[id])
<1>5. /\ bands[band] \in Seq(Streams) /\ bands[band] # <<>>
      /\ IsInjective(bands[band]) BY <1>1, <1>2, <1>3 DEF Banded
<1>6. /\ popped' = [popped EXCEPT ![id] = Head(frames[id]).seq]
      /\ bands' = [bands EXCEPT ![band] = IF left = <<>> THEN rest ELSE Append(rest, id)]
      /\ slots' = IF left = <<>> THEN slots \ {id} ELSE slots
  <2>1. Arm(IF rest = <<>> THEN keys \ {band} ELSE keys,
            [bands EXCEPT ![band] = rest], id, band).bands
          = [bands EXCEPT ![band] = Append(rest, id)] BY <1>1, <1>3 DEF Arm
  <2> QED BY <1>3, <1>4, <2>1 DEF PopLocked, Schedule
<1>7. /\ rest \in Seq(Streams) /\ Range(rest) = Range(bands[band]) \ {id}
      /\ \A x, y : Precedes(rest, x, y) => Precedes(bands[band], x, y) BY <1>4, <1>5, TailElements, TailOrder
<1> HIDE DEF rest, left
<1>8. popped'[id] # popped[id] /\ \A t \in Streams \ {id} : popped'[t] = popped[t]
  <2>1. ended[id] # "reset" /\ frames[id] # <<>> /\ frames[id] \in Seq(Frame)
    BY <1>1, <1>2, <1>4 DEF IInv, StreamFifo, SlotsHaveFrames
  <2>2. 1 \in DOMAIN frames[id] /\ Head(frames[id]) = frames[id][1] BY <2>1, EmptySeq
  <2>3. Head(frames[id]).seq = popped[id] + 1 BY <1>1, <1>4, <2>1, <2>2 DEF IInv, StreamFifo
  <2> QED BY <1>1, <1>4, <1>6, <2>3
<1>9. UNCHANGED priority /\ \A s \in slots : slotPriority[s] = priority[s] BY <1>1, <1>2 DEF SlotsHaveFrames, owner
<1>10. ASSUME NEW s \in slots, s # id
       PROVE  /\ priority[s] <= priority[id]
              /\ (priority[s] = priority[id] /\ id \in slots') =>
                   Ahead(priority[s], s, id)'
  <2>1. slotPriority[s] \in Priorities /\ s \in Range(bands[slotPriority[s]]) BY <1>1, <1>2 DEF Banded
  <2>2. slotPriority[s] \in keys
    <3>1. bands[slotPriority[s]] # <<>> BY <1>1, <2>1, RangeElements
    <3> QED BY <1>2, <2>1, <3>1 DEF Banded
  <2>3. priority[s] <= priority[id] BY <1>3, <1>4, <1>9, <2>2
  <2>4. ASSUME priority[s] = priority[id], id \in slots'
        PROVE  Ahead(priority[s], s, id)'
    <3>1. bands'[band] = Append(rest, id) BY <1>1, <1>3, <1>6, <2>4
    <3>2. s \in Range(rest) BY <1>4, <1>7, <1>9, <1>10, <2>1, <2>4
    <3>3. Precedes(bands'[band], s, id) BY <1>1, <1>4, <1>7, <3>1, <3>2, AppendOrder
    <3>4. priority'[s] = band BY <1>4, <1>9, <2>4
    <3>5. Ahead(priority[s], s, id)' <=> Precedes(bands'[priority'[s]], s, id) BY DEF Ahead, Precedes
    <3> QED BY <3>3, <3>4, <3>5
  <2> QED BY <2>3, <2>4
<1>11. ASSUME NEW s \in Streams, NEW t \in Streams, NEW p \in Priorities,
              Ahead(p, s, t), Ahead(p, t, s)'
       PROVE  s = id
  <2>1. Precedes(bands[p], s, t) /\ Precedes(bands'[p], t, s) BY <1>11 DEF Ahead, Precedes
  <2>2. bands[p] \in Seq(Streams) /\ IsInjective(bands[p]) BY <1>1, <1>2 DEF Banded
  <2>3. ~ Precedes(bands[p], t, s) BY <2>1, <2>2, OneOrder
  <2>4. p = band /\ bands'[p] \in {rest, Append(rest, id)} BY <1>1, <1>6, <2>1, <2>3
  <2>5. id \in Streams BY <1>1, <1>4
  <2>6. ~ Precedes(rest, t, s) BY <1>7, <2>3, <2>4
  <2>7. Precedes(Append(rest, id), t, s) BY <2>1, <2>4, <2>6
  <2> QED BY <1>7, <2>5, <2>6, <2>7, AppendOrder
<1>12. ASSUME NEW s \in Streams, NEW t \in Streams
       PROVE  /\ (s \in slots /\ s # t /\ popped'[t] # popped[t]) =>
                   /\ priority[s] <= priority[t]
                   /\ (priority[s] = priority[t] /\ t \in slots') =>
                        Ahead(priority[s], s, t)'
              /\ \A p \in Priorities :
                   (Ahead(p, s, t) /\ Ahead(p, t, s)') => popped'[s] # popped[s]
  <2>1. ASSUME s \in slots, s # t, popped'[t] # popped[t]
        PROVE  /\ priority[s] <= priority[t]
               /\ (priority[s] = priority[t] /\ t \in slots') =>
                    Ahead(priority[s], s, t)'
    <3>1. t = id BY <1>8, <2>1
    <3> QED BY <1>10, <2>1, <3>1
  <2>2. ASSUME NEW p \in Priorities, Ahead(p, s, t), Ahead(p, t, s)'
        PROVE  popped'[s] # popped[s] BY <1>8, <1>11, <2>2
  <2> QED BY <2>1, <2>2
<1> QED BY <1>12 DEF RoundRobinStep

\* Every step serves the highest priority first and shares it round robin.
LEMMA StepRoundRobin ==
  ASSUME IInv, [Next]_vars
  PROVE  RoundRobinStep
<1>1. /\ slots \in SUBSET Streams /\ slotPriority \in [Streams -> Priorities]
      /\ priority \in [Streams -> Priorities] BY DEF IInv, TypeOK
<1>2. Banded(keys, bands, slots, slotPriority) /\ SlotsHaveFrames BY BandsForm DEF IInv
<1>3. CASE UNCHANGED <<bands, popped>> BY <1>2, <1>3, SameOrder, QuietStep
<1>4. ASSUME NEW id \in Streams, Send(id) \/ PushNow(id)
      PROVE  RoundRobinStep
  <2>1. UNCHANGED popped BY <1>4 DEF Send, PushNow
  <2>2. CASE id \in slots BY <1>3, <1>4, <2>1, <2>2 DEF Send, PushNow, EnqueueLocked
  <2>3. CASE id \notin slots
    <3>1. bands' = Arm(keys, bands, id, priority[id]).bands BY <1>4, <2>3 DEF Send, PushNow, EnqueueLocked, Schedule
    <3>2. OrderKept(bands, Arm(keys, bands, id, priority[id]).bands) BY <1>1, <1>2, <2>3, ArmOrder
    <3> QED BY <2>1, <3>1, <3>2, QuietStep
  <2> QED BY <2>2, <2>3
<1>5. ASSUME NEW id \in Streams, NEW new \in Priorities, SetPriority(id, new)
      PROVE  RoundRobinStep
  <2>1. UNCHANGED popped BY <1>5 DEF SetPriority
  <2>2. CASE UNCHANGED bands BY <1>3, <2>1, <2>2
  <2>3. CASE ~ UNCHANGED bands
    <3> DEFINE un == Unschedule(keys, bands, id, slotPriority[id])
    <3>1. /\ id \in slots /\ slotPriority[id] # new
          /\ bands' = Arm(un.keys, un.bands, id, new).bands BY <1>5, <2>3 DEF SetPriority, Schedule
    <3>2. OrderKept(bands, Arm(un.keys, un.bands, id, new).bands) BY <1>1, <1>2, <3>1, MoveOrder
    <3> HIDE DEF un
    <3> QED BY <2>1, <3>1, <3>2, QuietStep
  <2> QED BY <2>2, <2>3
<1>6. ASSUME NEW id \in Streams, RemoveId(id)
      PROVE  RoundRobinStep
  <2>1. UNCHANGED popped BY <1>6 DEF RemoveId
  <2>2. CASE id \notin slots BY <1>3, <1>6, <2>1, <2>2 DEF RemoveId
  <2>3. CASE id \in slots
    <3> DEFINE un == Unschedule(keys, bands, id, slotPriority[id])
    <3>1. bands' = un.bands BY <1>6, <2>3 DEF RemoveId, Schedule
    <3>2. OrderKept(bands, un.bands) BY <1>1, <1>2, <2>3, UnscheduleOrder
    <3> HIDE DEF un
    <3> QED BY <2>1, <3>1, <3>2, QuietStep
  <2> QED BY <2>2, <2>3
<1>7. CASE Pop
  <2>1. CASE keys = {} BY <1>3, <1>7, <2>1 DEF Pop
  <2>2. CASE keys # {} BY <1>7, <2>2, PopRoundRobin DEF Pop
  <2> QED BY <2>1, <2>2
<1>8. ASSUME NEW id \in Streams,
             \/ Reserve(id) \/ AwaitSpace(id) \/ CancelReserve(id)
             \/ DropPermit(id) \/ PayNotify(id)
      PROVE  UNCHANGED <<bands, popped>> BY <1>8 DEF Reserve, AwaitSpace, CancelReserve, DropPermit, PayNotify, inner
<1>9. CASE AwaitData \/ CancelPop \/ Close \/ CloseNotify \/ UNCHANGED vars
  BY <1>3, <1>9 DEF AwaitData, CancelPop, Close, CloseNotify, vars, inner
<1> QED BY <1>3, <1>4, <1>5, <1>6, <1>7, <1>8, <1>9 DEF Next, Producer, Consumer

----------------------------------------------------------------------------
(* Capacity, wake-ups and order                                             *)

\* The queue is awake in every state: the invariant behind the next theorems.
THEOREM AwakeInvariant == Spec => []AwakeInv
<1>1. Init => AwakeInv BY DEF Init, AwakeInv, ConsumerAwake
<1>2. IInv /\ AwakeInv /\ [Next]_vars => AwakeInv' BY StepAwake
<1> QED BY <1>1, <1>2, QueueInvariant, PTL DEF Spec

\* The writer never sleeps on a queue that has a frame, nor through close().
THEOREM ConsumerNeverSleeps == Spec => []ConsumerAwake
<1>1. AwakeInv => ConsumerAwake BY DEF AwakeInv
<1> QED BY <1>1, AwakeInvariant, PTL

\* Whatever finish() adds past the bound, data frames and reserved slots never
\* exceed the capacity.
THEOREM DataBounded == Spec => []DataWithinCapacity
<1>1. Init => DataWithinCapacity
  <2> SUFFICES ASSUME Init PROVE DataWithinCapacity OBVIOUS
  <2>1. Queued = {} /\ Holders = {} BY DEF Init, Queued, Holders
  <2>2. DataFrames = {} BY <2>1 DEF DataFrames
  <2> QED BY <2>1, <2>2, FS_EmptySet, CapacityIsPositive DEF DataWithinCapacity, DataFrames
<1>2. IInv /\ DataWithinCapacity /\ [Next]_vars => DataWithinCapacity' BY StepBounded
<1> QED BY <1>1, <1>2, QueueInvariant, PTL DEF Spec

\* The bound is kept and used: data stays within the capacity, and a parked
\* producer can rely on a slot in use or a notification under way.
THEOREM SlotsAreServed == Spec => []SlotsServed
<1>1. AwakeInv => ProducersAwake BY DEF AwakeInv, ProducersAwake, Announced
<1>2. ProducersAwake /\ DataWithinCapacity => SlotsServed BY DEF SlotsServed
<1> QED BY <1>1, <1>2, AwakeInvariant, DataBounded, PTL

\* Frames leave by priority and round robin within one, and nothing a producer
\* does lets its stream overtake another of its priority.
THEOREM ServedInTurn == Spec => PriorityThenRoundRobin
<1>1. IInv /\ [Next]_vars => [RoundRobinStep]_vars BY StepRoundRobin
<1>2. [][RoundRobinStep]_vars => PriorityThenRoundRobin BY PTL DEF PriorityThenRoundRobin, RoundRobinStep
<1> QED BY <1>1, <1>2, QueueInvariant, PTL DEF Spec

-----------------------------------------------------------------------------
(* The inductive invariants of the idle timer                               *)

\* Every ping that is queued, in flight or answered is one the counter has
\* already counted.
PingInv ==
  /\ pingsSent = nextSeq
  /\ timer = "enqueue" => nextSeq > 0
  /\ \A i \in DOMAIN control : control[i].kind = "ping" => control[i].seq < pingsSent
  /\ sending.kind = "ping" => sending.seq < pingsSent
  /\ \A i \in DOMAIN answers : answers[i].seq < pingsSent
  /\ \A i \in DOMAIN inbound : inbound[i].kind = "answer" => inbound[i].seq < pingsSent
  /\ verdict # "violation"

\* What the timer has folded in was published before; the credit for a send is
\* there only while no send has counted since the last receive, and a send that
\* counted was within two windows of it.
ActivityInv ==
  /\ lastRecv <= now /\ lastSend <= now /\ activity.recvSeen <= lastRecv /\ activity.sendResetAt <= now
  /\ lastRecv > activity.recvSeen => activity.sendResetAt <= lastRecv
  /\ activity.sendCredit => activity.sendResetAt <= activity.recvSeen
  /\ activity.sendResetAt <= activity.recvSeen + 2 * Idle

\* The instant at which the session is closed or given its window of grace.
Deadline == (IF deferredSince # None THEN deferredSince ELSE LastActivity(activity)) + Idle

\* While the session is open the clock has not passed it.
DeadlineInv ==
  /\ deferredSince # None => deferredSince <= LastActivity(activity) + Idle
  /\ now <= Deadline
  /\ timer = "sleep" => wake <= Deadline
  /\ timer \in {"ping", "enqueue", "idle", "idleSend", "decide", "readerBp"} => wokeAt = now
  /\ timer # "done"

\* What the timer has loaded in this iteration is stale only if a frame was read at
\* this very instant.
FreshInv ==
  timer \in {"idleSend", "decide", "readerBp", "arm", "armSend", "armPing"} =>
    lastRecv = activity.recvSeen \/ lastRecv = now

OpenInv == verdict = "open" => ActivityInv /\ DeadlineInv /\ FreshInv

\* What excuses a live peer that was not heard for a window: a task of ours has been
\* blocked since an earlier instant, or was until now.
ReaderStalled == reader = "parked" /\ parkedAt < now
Excused == ReaderStalled \/ (writer = "sending" /\ sendSince < now) \/ relieved = now

\* A live peer was heard less than two windows ago, and less than one if nothing
\* excuses it; the flags say what the two tasks do.
HeardInv ==
  /\ (readerBp <=> reader = "parked") /\ (writerBp <=> writer = "sending")
  /\ heard <= now /\ lastPing <= now /\ (writer = "sending" => sendSince <= now)
  /\ inbound = <<>> => heard <= lastRecv
  /\ reader = "parked" => parkedAt = lastRecv
  /\ now < lastRecv + 2 * Idle
  /\ lastRecv + Idle <= now => Excused

\* The flags the timer has yet to load excuse what it has seen.
WatchInv ==
  /\ timer \in {"idleSend", "decide", "readerBp"} => now < activity.recvSeen + 2 * Idle
  /\ timer = "idleSend" /\ activity.recvSeen + Idle <= now => Excused
  /\ timer = "decide" => Excused
  /\ timer \in {"decide", "readerBp"} => activity.recvSeen + Idle <= now
  /\ timer = "readerBp" => ReaderStalled \/ relieved = now
  /\ timer = "sleep" => wake <= now + PingEvery

\* The grace began a window after the last receive the timer knows of, or the timer
\* is about to find a newer one and take the grace back before it ends.
Expired == activity.recvSeen + Idle <= deferredSince
GraceInv ==
  deferredSince # None =>
    /\ timer \in {"arm", "decide", "readerBp"} => Expired
    /\ timer \in {"armSend", "armPing"} => Expired \/ activity.recvSeen = now
    /\ timer \in {"sleep", "ping", "enqueue", "idle", "idleSend"} =>
          Expired \/ now < activity.recvSeen + Idle
    /\ timer \in {"sleep", "ping", "enqueue", "idle"} /\ lastRecv > activity.recvSeen =>
          now < lastRecv + Idle
    /\ timer = "sleep" => Expired \/ wake < activity.recvSeen + Idle
    /\ timer = "sleep" /\ lastRecv > activity.recvSeen => wake < lastRecv + Idle

LiveInv ==
  peer = "live" =>
    /\ verdict = "idle" => relieved = now
    /\ verdict = "open" => HeardInv /\ WatchInv /\ GraceInv

-----------------------------------------------------------------------------
(* Types                                                                    *)

ActivityType == [recvSeen : Nat, sendResetAt : Nat, sendCredit : BOOLEAN]
AnswerType == [seq : Nat, by : Nat]

\* The type invariant, variable by variable.
ClockTypes ==
  /\ now \in Nat /\ lastRecv \in Nat /\ lastSend \in Nat /\ pingsSent \in Nat
  /\ readerBp \in BOOLEAN /\ writerBp \in BOOLEAN /\ relieved \in Nat \cup {None}
TimerTypes ==
  /\ timer \in {"arm", "armSend", "armPing", "sleep", "ping", "enqueue", "idle", "idleSend",
                "decide", "readerBp", "done"}
  /\ activity \in ActivityType /\ deferredSince \in Nat \cup {None}
  /\ lastPing \in Nat /\ nextSeq \in Nat /\ pingDue \in Nat /\ wake \in Nat /\ wokeAt \in Nat
TaskTypes ==
  /\ control \in Seq(PingFrame) /\ inbound \in Seq(PingFrame) /\ sending \in PingFrame
  /\ writer \in {"run", "sending", "landed"} /\ reader \in {"run", "parked"} /\ sendSince \in Nat /\ parkedAt \in Nat
PeerTypes ==
  /\ peer \in {"live", "silent"} /\ verdict \in {"open", "idle", "violation"}
  /\ heard \in Nat /\ answers \in Seq(AnswerType)
Types == ClockTypes /\ TimerTypes /\ TaskTypes /\ PeerTypes

\* That is the type invariant.
LEMMA TypesOK == Types <=> IdleTypes
<1>1. /\ {readerBp, writerBp} \subseteq BOOLEAN <=> readerBp \in BOOLEAN /\ writerBp \in BOOLEAN
      /\ {relieved, deferredSince} \subseteq Nat \cup {None}
         <=> relieved \in Nat \cup {None} /\ deferredSince \in Nat \cup {None} OBVIOUS
<1>2. {now, lastRecv, lastSend, lastPing, nextSeq, pingDue, wake, wokeAt, pingsSent,
       sendSince, parkedAt, heard} \subseteq Nat
      <=> /\ now \in Nat /\ lastRecv \in Nat /\ lastSend \in Nat /\ lastPing \in Nat
          /\ nextSeq \in Nat /\ pingDue \in Nat /\ wake \in Nat /\ wokeAt \in Nat
          /\ pingsSent \in Nat /\ sendSince \in Nat /\ parkedAt \in Nat /\ heard \in Nat OBVIOUS
<1>3. QED BY <1>1, <1>2 DEF Types, ClockTypes, TimerTypes, TaskTypes, PeerTypes, IdleTypes, ActivityType, AnswerType

\* A third of the window.
LEMMA PingEveryFacts == PingEvery \in Nat /\ PingEvery >= 1
<1>1. Idle \in Nat BY IdleIsPositive
<1>2. Idle \div 3 \in Int BY <1>1
<1>3. QED BY <1>2 DEF PingEvery, MaxOf

\* A receive always counts.
LEMMA ObserveRecvFacts ==
  ASSUME NEW a \in ActivityType, NEW r \in Nat, NEW o, o = ObserveRecv(a, r)
  PROVE  /\ o \in ActivityType /\ o.recvSeen = MaxOf(a.recvSeen, r) /\ o.sendResetAt = a.sendResetAt
         /\ o.sendCredit <=> (a.sendCredit \/ r > a.recvSeen)
BY DEF ObserveRecv, MaxOf, ActivityType

\* A send counts once for each receive.
Counted(a, s, o) ==
  \/ o.sendResetAt = a.sendResetAt /\ (o.sendCredit => a.sendCredit)
  \/ a.sendCredit /\ o.sendResetAt = s /\ ~o.sendCredit /\ s > a.sendResetAt

LEMMA ObserveSendFacts ==
  ASSUME NEW a \in ActivityType, NEW s \in Nat, NEW o, o = ObserveSend(a, s)
  PROVE  o \in ActivityType /\ o.recvSeen = a.recvSeen /\ Counted(a, s, o)
<1>1. CASE a.sendCredit /\ s > a.sendResetAt
  <2>1. o = [a EXCEPT !.sendResetAt = s, !.sendCredit = FALSE] BY <1>1 DEF ObserveSend, ActivityType
  <2>2. QED BY <1>1, <2>1 DEF ActivityType, Counted
<1>2. CASE ~(a.sendCredit /\ s > a.sendResetAt)
  <2>1. o = [a EXCEPT !.sendResetAt = a.sendResetAt, !.sendCredit = a.sendCredit] BY <1>2 DEF ObserveSend, ActivityType
  <2>2. QED BY <1>2, <2>1 DEF ActivityType, Counted
<1>3. QED BY <1>1, <1>2

\* The two clocks never go back.
LEMMA ActivityFacts ==
  ASSUME NEW a \in ActivityType
  PROVE  /\ LastActivity(a) \in Nat /\ LastActivity(a) >= a.recvSeen /\ LastActivity(a) >= a.sendResetAt
         /\ LastActivity(a) = a.recvSeen \/ LastActivity(a) = a.sendResetAt
BY DEF LastActivity, MaxOf, ActivityType

\* The earlier of two instants.
LEMMA MinFacts ==
  ASSUME NEW a \in Nat, NEW b \in Nat
  PROVE  Min({a, b}) \in {a, b} /\ Min({a, b}) <= a /\ Min({a, b}) <= b
<1>1. \E x \in {a, b} : \A y \in {a, b} : x =< y OBVIOUS
<1>2. QED BY <1>1 DEF Min

\* The timer's steps leave the others' variables alone, and end in its verdict at most.
LEMMA TimerFrame ==
  ASSUME Timer
  PROVE  TimerOnly /\ verdict = "open" /\ verdict' \in {"open", "idle"}
<1>1. CASE ArmStep BY <1>1 DEF ArmStep, ArmRecv, ArmSend, ArmTimer, TimerAt
<1>2. CASE KeepAlive BY <1>2 DEF KeepAlive, Wake, PublishPing, PastPing, EnqueuePing, TimerAt
<1>3. CASE IdleCheck BY <1>3 DEF IdleCheck, IdleRecv, CheckIdle, ReadWriterFlag, ReadReaderFlag, Judge, TimerAt
<1>4. QED BY <1>1, <1>2, <1>3 DEF Timer

\* The steps of the others leave the timer's alone.
LEMMA OthersFrame ==
  ASSUME Writer \/ Reader \/ Peer
  PROVE  verdict = "open" /\ now' = now /\ pingsSent' = pingsSent /\ UNCHANGED timerVars
<1>1. CASE Writer BY <1>1 DEF Writer, SendControl, SendData, StartSend, SendLands, PublishSend, WriterAt
<1>2. CASE Reader BY <1>2 DEF Reader, Recv, Unpark, ReaderAt
<1>3. CASE Peer BY <1>3 DEF Peer, PeerAnswers, PeerSends, Arrive, FallSilent
<1>4. QED BY <1>1, <1>2, <1>3

\* The timer's own variables.
LEMMA TimerStep ==
  ASSUME Types, Timer
  PROVE  TimerTypes'
<1>t. ClockTypes /\ TimerTypes BY DEF Types
<1>1. ASSUME ArmRecv PROVE TimerTypes' BY <1>1, <1>t, ObserveRecvFacts DEF ArmRecv, ClockTypes, TimerTypes
<1>2. ASSUME ArmSend PROVE TimerTypes' BY <1>2, <1>t, ObserveSendFacts DEF ArmSend, ClockTypes, TimerTypes
<1>3. ASSUME ArmTimer PROVE TimerTypes'
  <2>1. LastActivity(activity) \in Nat BY <1>t, ActivityFacts DEF TimerTypes
  <2>2. pingDue' \in Nat BY <1>3, <1>t, PingEveryFacts DEF ArmTimer, MaxOf, ClockTypes, TimerTypes
  <2>3. PICK x \in Nat : wake' = Min({x + Idle, pingDue'}) BY <1>3, <2>1, <1>t DEF ArmTimer, TimerTypes, None
  <2>4. x + Idle \in Nat BY IdleIsPositive
  <2>5. wake' \in Nat BY <2>2, <2>3, <2>4, MinFacts
  <2>6. QED BY <1>3, <2>2, <2>5, <1>t DEF ArmTimer, TimerTypes
<1>4. ASSUME Wake PROVE TimerTypes' BY <1>4, <1>t DEF Wake, TimerTypes, ClockTypes
<1>5. ASSUME PublishPing PROVE TimerTypes'
  <2>1. nextSeq' \in Nat BY <1>5, <1>t DEF PublishPing, TimerTypes
  <2>2. timer' \in {"enqueue", "idle"} /\ lastPing' \in {wokeAt, lastPing} BY <1>5 DEF PublishPing, PastPing
  <2>3. QED BY <1>5, <2>1, <2>2, <1>t DEF PublishPing, PastPing, TimerTypes
<1>6. ASSUME EnqueuePing PROVE TimerTypes' BY <1>6, <1>t DEF EnqueuePing, TimerTypes
<1>7. ASSUME IdleRecv PROVE TimerTypes' BY <1>7, <1>t, ObserveRecvFacts DEF IdleRecv, ClockTypes, TimerTypes
<1>8. ASSUME CheckIdle PROVE TimerTypes'
  <2>1. activity' \in ActivityType BY <1>8, <1>t, ObserveSendFacts DEF CheckIdle, ClockTypes, TimerTypes
  <2>2. QED BY <1>8, <2>1, <1>t DEF CheckIdle, TimerTypes
<1>9. ASSUME ReadWriterFlag PROVE TimerTypes' BY <1>9, <1>t DEF ReadWriterFlag, Judge, TimerTypes
<1>10. ASSUME ReadReaderFlag PROVE TimerTypes' BY <1>10, <1>t DEF ReadReaderFlag, Judge, TimerTypes
<1>11. QED BY <1>1, <1>2, <1>3, <1>4, <1>5, <1>6, <1>7, <1>8, <1>9, <1>10 DEF Timer, ArmStep, KeepAlive, IdleCheck

\* What the timer publishes and enqueues.
LEMMA PublishStep ==
  ASSUME Types, PingInv, Timer
  PROVE  pingsSent' \in Nat /\ control' \in Seq(PingFrame)
<1>t. ClockTypes /\ TimerTypes /\ TaskTypes BY DEF Types
<1>1. CASE PublishPing BY <1>1, <1>t DEF PublishPing, PastPing, TimerTypes, TaskTypes
<1>2. CASE EnqueuePing
  <2>1. nextSeq - 1 \in Nat BY <1>2, <1>t DEF EnqueuePing, TimerAt, PingInv, TimerTypes
  <2>2. [kind |-> "ping", seq |-> nextSeq - 1] \in PingFrame BY <2>1 DEF PingFrame
  <2>3. QED BY <1>2, <2>2, <1>t DEF EnqueuePing, TaskTypes, ClockTypes
<1>3. CASE ArmStep \/ IdleCheck \/ Wake
  <2>1. UNCHANGED <<pingsSent, control>>
    BY <1>3 DEF ArmStep, IdleCheck, Wake, ArmRecv, ArmSend, ArmTimer, IdleRecv, CheckIdle, ReadWriterFlag,
      ReadReaderFlag
  <2>2. QED BY <2>1, <1>t DEF ClockTypes, TaskTypes
<1>4. QED BY <1>1, <1>2, <1>3 DEF Timer, KeepAlive

\* Every step keeps the types.
LEMMA TypeStep ==
  ASSUME Types, PingInv, IdleNext
  PROVE  Types'
<1>t. ClockTypes /\ TimerTypes /\ TaskTypes /\ PeerTypes BY DEF Types
<1>d. Data \in PingFrame BY DEF Data, PingFrame
<1>1. ASSUME Timer PROVE Types'
  <2>1. TimerOnly /\ verdict' \in {"open", "idle"} BY <1>1, TimerFrame
  <2>2. TimerTypes' /\ pingsSent' \in Nat /\ control' \in Seq(PingFrame) BY <1>1, TimerStep, PublishStep
  <2>3. ClockTypes' BY <2>1, <2>2, <1>t DEF TimerOnly, ClockTypes, clocks, flags
  <2>4. TaskTypes' /\ PeerTypes'
    BY <2>1, <2>2, <1>t DEF TimerOnly, TaskTypes, PeerTypes, writerVars, readerVars, peerVars
  <2>5. QED BY <2>2, <2>3, <2>4 DEF Types
<1>u. ASSUME Writer \/ Reader \/ Peer PROVE TimerTypes' /\ now' = now /\ pingsSent' = pingsSent
  BY <1>u, <1>t, OthersFrame DEF TimerTypes, timerVars, timerLocals
<1>2. ASSUME NEW f \in PingFrame, StartSend(f), control' \in Seq(PingFrame), Writer PROVE Types'
  <2>1. ClockTypes' /\ TimerTypes' BY <1>2, <1>t, <1>u DEF StartSend, ClockTypes, clocks
  <2>2. TaskTypes' /\ PeerTypes' BY <1>2, <1>t DEF StartSend, ClockTypes, TaskTypes, PeerTypes, readerVars, peerVars
  <2>3. QED BY <2>1, <2>2 DEF Types
<1>3. ASSUME SendControl PROVE Types'
  <2>1. Head(control) \in PingFrame /\ Tail(control) \in Seq(PingFrame) BY <1>3, <1>t DEF SendControl, TaskTypes
  <2>2. QED BY <1>2, <1>3, <2>1 DEF SendControl, Writer
<1>4. ASSUME SendData PROVE Types' BY <1>2, <1>4, <1>d, <1>t DEF SendData, Writer, TaskTypes
<1>5. ASSUME SendLands PROVE Types'
  <2>1. [seq |-> sending.seq, by |-> now + Rtt] \in AnswerType
    <3>1. sending.seq \in Nat /\ now + Rtt \in Nat BY <1>t, DelaysAreNatural DEF TaskTypes, ClockTypes, PingFrame
    <3>2. QED BY <3>1 DEF AnswerType
  <2>2. PeerTypes' BY <1>5, <2>1, <1>t DEF SendLands, PeerTypes
  <2>3. ClockTypes' BY <1>5, <1>t DEF SendLands, Relieved, ClockTypes, clocks
  <2>4. TaskTypes' BY <1>5, <1>d, <1>t DEF SendLands, TaskTypes, readerVars
  <2>5. QED BY <1>5, <2>2, <2>3, <2>4, <1>u DEF Types, Writer
<1>6. ASSUME PublishSend PROVE Types'
  <2>1. ClockTypes' /\ TimerTypes' BY <1>6, <1>t, <1>u DEF PublishSend, ClockTypes, flags, Writer
  <2>2. QED BY <1>6, <2>1, <1>t DEF PublishSend, Types, TaskTypes, PeerTypes, readerVars, peerVars
<1>7. ASSUME Recv PROVE Types'
  <2>1. Head(inbound) \in PingFrame /\ Tail(inbound) \in Seq(PingFrame) BY <1>7, <1>t DEF Recv, TaskTypes
  <2>2. [kind |-> "answer", seq |-> Head(inbound).seq] \in PingFrame BY <2>1 DEF PingFrame
  <2>3. control' \in Seq(PingFrame) BY <1>7, <2>2, <1>t DEF Recv, OnPing, TaskTypes
  <2>4. TaskTypes' BY <1>7, <2>1, <2>3, <1>t DEF Recv, TaskTypes, ClockTypes, writerVars
  <2>5. ClockTypes' /\ PeerTypes' BY <1>7, <1>t DEF Recv, OnPing, ClockTypes, PeerTypes, peerVars
  <2>6. QED BY <1>7, <2>4, <2>5, <1>u DEF Types, Reader
<1>8. ASSUME Unpark PROVE Types'
  <2>1. ClockTypes' BY <1>8, <1>t DEF Unpark, Relieved, ClockTypes, clocks
  <2>2. TaskTypes' /\ PeerTypes' BY <1>8, <1>t DEF Unpark, TaskTypes, PeerTypes, writerVars, peerVars
  <2>3. QED BY <1>8, <2>1, <2>2, <1>u DEF Types, Reader
<1>9. ASSUME NEW f \in PingFrame, Arrive(f), answers' \in Seq(AnswerType), Peer PROVE Types'
  <2>1. ClockTypes' /\ TimerTypes' BY <1>9, <1>t, <1>u DEF Arrive, ClockTypes, clocks, flags
  <2>2. TaskTypes' /\ PeerTypes' BY <1>9, <1>t DEF Arrive, ClockTypes, TaskTypes, PeerTypes, writerVars
  <2>3. QED BY <2>1, <2>2 DEF Types
<1>10. ASSUME PeerAnswers PROVE Types'
  <2>1. Head(answers) \in AnswerType /\ answers' \in Seq(AnswerType) BY <1>10, <1>t DEF PeerAnswers, PeerTypes
  <2>2. [kind |-> "answer", seq |-> Head(answers).seq] \in PingFrame BY <2>1 DEF AnswerType, PingFrame
  <2>3. QED BY <1>9, <1>10, <2>1, <2>2 DEF PeerAnswers, Peer
<1>11. ASSUME PeerSends PROVE Types'
  <2>1. PICK f \in PingFrame : Arrive(f) /\ answers' = answers BY <1>11 DEF PeerSends, PingFrame
  <2>2. QED BY <1>9, <1>11, <2>1, <1>t DEF Peer, PeerTypes
<1>12. ASSUME FallSilent PROVE Types'
  <2>1. ClockTypes' /\ TimerTypes' BY <1>12, <1>t, <1>u DEF FallSilent, ClockTypes, clocks, flags, Peer
  <2>2. QED BY <1>12, <2>1, <1>t DEF FallSilent, Types, TaskTypes, PeerTypes, writerVars, readerVars
<1>13. ASSUME Tick PROVE Types'
  <2>1. ClockTypes' /\ TimerTypes'
    BY <1>13, <1>t DEF Tick, ClockTypes, TimerTypes, clocks, flags, timerVars, timerLocals
  <2>2. QED BY <1>13, <2>1, <1>t DEF Tick, Types, TaskTypes, PeerTypes, writerVars, readerVars, peerVars
<1>14. QED BY <1>1, <1>3, <1>4, <1>5, <1>6, <1>7, <1>8, <1>10, <1>11, <1>12, <1>13 DEF IdleNext, Writer, Reader, Peer

\* The counter is published before the ping is enqueued, so it stays ahead.
LEMMA PingStep ==
  ASSUME Types, PingInv, IdleNext
  PROVE  PingInv'
<1>t. ClockTypes /\ TimerTypes /\ TaskTypes /\ PeerTypes BY DEF Types
<1>p. PingInv OBVIOUS
<1>1. ASSUME ArmStep \/ Wake \/ IdleCheck PROVE PingInv'
  <2>1. Timer BY <1>1 DEF Timer, KeepAlive
  <2>2. TimerOnly /\ verdict' # "violation" BY <2>1, TimerFrame
  <2>3. UNCHANGED <<pingsSent, control, nextSeq>> /\ timer' # "enqueue"
    BY <1>1 DEF ArmStep, IdleCheck, Wake, ArmRecv, ArmSend, ArmTimer, IdleRecv, CheckIdle, ReadWriterFlag,
      ReadReaderFlag, Judge
  <2>4. QED BY <2>2, <2>3, <1>p DEF TimerOnly, PingInv, writerVars, readerVars, peerVars
<1>2. ASSUME PublishPing PROVE PingInv'
  <2>1. PICK m \in {0, 1} : nextSeq' = nextSeq + m /\ pingsSent' = nextSeq' /\ (timer' = "enqueue" => m = 1)
    BY <1>2 DEF PublishPing, PastPing
  <2>2. /\ control' = control /\ sending' = sending /\ answers' = answers /\ inbound' = inbound
        /\ verdict' = verdict BY <1>2 DEF PublishPing, PastPing, TimerOnly, writerVars, readerVars, peerVars
  <2>3. pingsSent \in Nat /\ pingsSent <= pingsSent' /\ pingsSent' = nextSeq'
        /\ (timer' = "enqueue" => nextSeq' > 0) BY <2>1, <1>t, <1>p DEF PingInv, ClockTypes, TimerTypes
  <2>4. \A x \in Nat : x < pingsSent => x < pingsSent' BY <2>1, <2>3, <1>p DEF PingInv
  <2>5. \A j \in DOMAIN control : control[j].seq \in Nat
    <3>1. \A j \in DOMAIN control : control[j] \in PingFrame BY <1>t DEF TaskTypes
    <3>2. QED BY <3>1 DEF PingFrame
  <2>6. \A j \in DOMAIN inbound : inbound[j].seq \in Nat
    <3>1. \A j \in DOMAIN inbound : inbound[j] \in PingFrame BY <1>t DEF TaskTypes
    <3>2. QED BY <3>1 DEF PingFrame
  <2>7. \A j \in DOMAIN answers : answers[j].seq \in Nat
    <3>1. \A j \in DOMAIN answers : answers[j] \in AnswerType BY <1>t DEF PeerTypes
    <3>2. QED BY <3>1 DEF AnswerType
  <2>8. sending.seq \in Nat BY <1>t DEF TaskTypes, PingFrame
  <2>9. QED BY <2>2, <2>3, <2>4, <2>5, <2>6, <2>7, <2>8, <1>p DEF PingInv
<1>3. ASSUME EnqueuePing PROVE PingInv'
  <2>1. PICK f : f = [kind |-> "ping", seq |-> nextSeq - 1] OBVIOUS
  <2>2. control' = Append(control, f) /\ f.seq < pingsSent
    BY <1>3, <2>1, <1>t, <1>p DEF EnqueuePing, TimerAt, PingInv, TimerTypes
  <2>3. \A j \in DOMAIN control' : control'[j] = f \/ (j \in DOMAIN control /\ control'[j] = control[j])
    BY <2>2, <1>t DEF TaskTypes
  <2>4. /\ sending' = sending /\ answers' = answers /\ inbound' = inbound /\ verdict' = verdict
        /\ pingsSent' = pingsSent /\ nextSeq' = nextSeq /\ timer' = "idle"
    BY <1>3 DEF EnqueuePing, TimerOnly, writerVars, readerVars, peerVars
  <2>5. QED BY <2>2, <2>3, <2>4, <1>p DEF PingInv
<1>4. ASSUME SendControl PROVE PingInv'
  <2>1. sending' = Head(control) /\ control' = Tail(control) /\ control # <<>> BY <1>4 DEF SendControl, StartSend
  <2>2. Head(control) = control[1] /\ 1 \in DOMAIN control BY <2>1, <1>t DEF TaskTypes
  <2>3. \A j \in DOMAIN control' : j + 1 \in DOMAIN control /\ control'[j] = control[j + 1] BY <2>1, <1>t DEF TaskTypes
  <2>4. /\ answers' = answers /\ inbound' = inbound /\ verdict' = verdict
        /\ pingsSent' = pingsSent /\ nextSeq' = nextSeq /\ timer' = timer
    BY <1>4 DEF SendControl, StartSend, readerVars, peerVars, timerVars, timerLocals
  <2>5. QED BY <2>1, <2>2, <2>3, <2>4, <1>p DEF PingInv
<1>5. ASSUME SendData PROVE PingInv'
  BY <1>5, <1>p DEF SendData, StartSend, Data, PingInv, writerVars, readerVars, peerVars, timerVars, timerLocals,
    TimerAt
<1>6. ASSUME SendLands PROVE PingInv'
  <2>1. /\ inbound' = inbound /\ verdict' = verdict /\ sending' = Data /\ control' = control
        /\ pingsSent' = pingsSent /\ nextSeq' = nextSeq /\ timer' = timer
    BY <1>6 DEF SendLands, readerVars, timerVars, timerLocals
  <2>2. Data.kind # "ping" BY DEF Data
  <2>3. \A j \in DOMAIN answers' : answers'[j].seq < pingsSent
    <3>1. CASE answers' = answers BY <3>1, <1>p DEF PingInv
    <3>2. CASE sending.kind = "ping" /\ answers' = Append(answers, [seq |-> sending.seq, by |-> now + Rtt])
      <4>1. PICK e : e = [seq |-> sending.seq, by |-> now + Rtt] OBVIOUS
      <4>2. \A j \in DOMAIN answers' : answers'[j] = e \/ (j \in DOMAIN answers /\ answers'[j] = answers[j])
        BY <3>2, <4>1, <1>t DEF PeerTypes
      <4>3. e.seq < pingsSent BY <3>2, <4>1, <1>p DEF PingInv
      <4>4. QED BY <4>2, <4>3, <1>p DEF PingInv
    <3>3. QED BY <1>6, <3>1, <3>2 DEF SendLands
  <2>4. QED BY <2>1, <2>2, <2>3, <1>p DEF PingInv
<1>7. ASSUME PublishSend PROVE PingInv'
  BY <1>7, <1>p DEF PublishSend, PingInv, writerVars, readerVars, peerVars, timerVars, timerLocals, TimerAt
<1>8. ASSUME Recv PROVE PingInv'
  <2>1. inbound # <<>> /\ inbound' = Tail(inbound) /\ OnPing(Head(inbound)) BY <1>8 DEF Recv
  <2>2. Head(inbound) = inbound[1] /\ 1 \in DOMAIN inbound BY <2>1, <1>t DEF TaskTypes
  <2>3. \A j \in DOMAIN inbound' : j + 1 \in DOMAIN inbound /\ inbound'[j] = inbound[j + 1] BY <2>1, <1>t DEF TaskTypes
  <2>4. Head(inbound).kind = "answer" => ~(Head(inbound).seq >= pingsSent)
    <3>0. Head(inbound) \in PingFrame BY <2>2, <1>t DEF TaskTypes
    <3>1. Head(inbound).seq \in Nat BY <3>0 DEF PingFrame
    <3>2. QED BY <3>1, <2>2, <1>t, <1>p DEF PingInv, ClockTypes
  <2>5. verdict' = verdict BY <2>1, <2>4 DEF OnPing
  <2>6. \A j \in DOMAIN control' : control'[j].kind = "ping" => control'[j].seq < pingsSent
    <3>1. CASE control' = control BY <3>1, <1>p DEF PingInv
    <3>2. CASE control' = Append(control, [kind |-> "answer", seq |-> Head(inbound).seq])
      <4>1. PICK e : e = [kind |-> "answer", seq |-> Head(inbound).seq] OBVIOUS
      <4>2. \A j \in DOMAIN control' : control'[j] = e \/ (j \in DOMAIN control /\ control'[j] = control[j])
        BY <3>2, <4>1, <1>t DEF TaskTypes
      <4>3. e.kind # "ping" BY <4>1
      <4>4. QED BY <4>2, <4>3, <1>p DEF PingInv
    <3>3. QED BY <2>1, <3>1, <3>2 DEF OnPing
  <2>7. /\ sending' = sending /\ answers' = answers /\ pingsSent' = pingsSent /\ nextSeq' = nextSeq /\ timer' = timer
    BY <1>8 DEF Recv, writerVars, peerVars, timerVars, timerLocals
  <2>8. QED BY <2>3, <2>5, <2>6, <2>7, <1>p DEF PingInv
<1>9. ASSUME Unpark PROVE PingInv'
  BY <1>9, <1>p DEF Unpark, PingInv, writerVars, readerVars, peerVars, timerVars, timerLocals, TimerAt
<1>10. ASSUME PeerAnswers PROVE PingInv'
  <2>1. PICK f : f = [kind |-> "answer", seq |-> Head(answers).seq] OBVIOUS
  <2>2. Head(answers) = answers[1] /\ 1 \in DOMAIN answers /\ answers' = Tail(answers)
    BY <1>10, <1>t DEF PeerAnswers, PeerTypes
  <2>3. \A j \in DOMAIN answers' : answers'[j].seq < pingsSent
    <3>1. \A j \in DOMAIN answers' : j + 1 \in DOMAIN answers /\ answers'[j] = answers[j + 1]
      BY <1>10, <2>2, <1>t DEF PeerTypes, PeerAnswers
    <3>2. QED BY <3>1, <1>p DEF PingInv
  <2>4. Arrive(f) /\ (f.kind = "answer" => f.seq < pingsSent) BY <1>10, <2>1, <2>2, <1>p DEF PeerAnswers, PingInv
  <2>5. inbound' = Append(inbound, f) BY <2>4 DEF Arrive
  <2>6. \A j \in DOMAIN inbound' : inbound'[j] = f \/ (j \in DOMAIN inbound /\ inbound'[j] = inbound[j])
    BY <2>5, <1>t DEF TaskTypes
  <2>7. /\ sending' = sending /\ control' = control /\ verdict' = verdict
        /\ pingsSent' = pingsSent /\ nextSeq' = nextSeq /\ timer' = timer
    BY <2>4 DEF Arrive, writerVars, timerVars, timerLocals
  <2>8. QED BY <2>3, <2>4, <2>6, <2>7, <1>p DEF PingInv
<1>11. ASSUME PeerSends PROVE PingInv'
  <2>3. \A j \in DOMAIN answers' : answers'[j].seq < pingsSent BY <1>11, <1>p DEF PeerSends, PingInv
  <2>4. PICK f : Arrive(f) /\ (f.kind = "answer" => f.seq < pingsSent) BY <1>11 DEF PeerSends
  <2>5. inbound' = Append(inbound, f) BY <2>4 DEF Arrive
  <2>6. \A j \in DOMAIN inbound' : inbound'[j] = f \/ (j \in DOMAIN inbound /\ inbound'[j] = inbound[j])
    BY <2>5, <1>t DEF TaskTypes
  <2>7. /\ sending' = sending /\ control' = control /\ verdict' = verdict
        /\ pingsSent' = pingsSent /\ nextSeq' = nextSeq /\ timer' = timer
    BY <2>4 DEF Arrive, writerVars, timerVars, timerLocals
  <2>8. QED BY <2>3, <2>4, <2>6, <2>7, <1>p DEF PingInv
<1>12. ASSUME FallSilent PROVE PingInv'
  <2>1. answers' = <<>> /\ DOMAIN answers' = {} BY <1>12 DEF FallSilent
  <2>2. /\ sending' = sending /\ control' = control /\ verdict' = verdict /\ inbound' = inbound
        /\ pingsSent' = pingsSent /\ nextSeq' = nextSeq /\ timer' = timer
    BY <1>12 DEF FallSilent, writerVars, readerVars, timerVars, timerLocals
  <2>3. QED BY <2>1, <2>2, <1>p DEF PingInv
<1>13. ASSUME Tick PROVE PingInv'
  BY <1>13, <1>p DEF Tick, PingInv, writerVars, readerVars, peerVars, timerVars, timerLocals, TimerAt
<1>14. QED
  BY <1>1, <1>2, <1>3, <1>4, <1>5, <1>6, <1>7, <1>8, <1>9, <1>10, <1>11, <1>12, <1>13 DEF IdleNext, Timer, KeepAlive,
    Writer, Reader, Peer

-----------------------------------------------------------------------------
(* The deadline                                                             *)

\* Folding in what the others have published moves the activity forward.
LEMMA ObserveKeeps ==
  ASSUME ClockTypes, TimerTypes, ActivityInv, DeadlineInv, FreshInv, TimerOnly,
         \/ activity' = ObserveRecv(activity, lastRecv)
         \/ timer \in {"armSend", "idleSend"} /\ activity' = ObserveSend(activity, lastSend)
  PROVE  /\ ActivityInv' /\ LastActivity(activity) \in Nat /\ LastActivity(activity') \in Nat
         /\ LastActivity(activity') >= LastActivity(activity)
<1>0. PICK b : b = activity' OBVIOUS
<1>1. /\ activity \in ActivityType /\ activity.recvSeen \in Nat /\ activity.sendResetAt \in Nat
      /\ lastRecv \in Nat /\ lastSend \in Nat /\ now \in Nat /\ Idle \in Nat
  BY IdleIsPositive DEF ClockTypes, TimerTypes, ActivityType
<1>2. lastRecv' = lastRecv /\ lastSend' = lastSend /\ now' = now BY DEF TimerOnly, clocks
<1>3. /\ LastActivity(activity) \in Nat
      /\ LastActivity(activity) = activity.recvSeen \/ LastActivity(activity) = activity.sendResetAt
      /\ LastActivity(activity) >= activity.recvSeen
      /\ LastActivity(activity) >= activity.sendResetAt BY <1>1, ActivityFacts
<1>4. now <= LastActivity(activity) + 2 * Idle
  <2>1. now <= Deadline /\ (deferredSince # None => deferredSince <= LastActivity(activity) + Idle) BY DEF DeadlineInv
  <2>2. QED BY <2>1, <1>1, <1>3 DEF Deadline, TimerTypes, None
<1>5. CASE activity' = ObserveRecv(activity, lastRecv)
  <2>1. /\ b \in ActivityType /\ b.recvSeen = lastRecv /\ b.sendResetAt = activity.sendResetAt
        /\ b.sendCredit => activity.sendCredit \/ lastRecv > activity.recvSeen
    <3>1. b = ObserveRecv(activity, lastRecv) BY <1>0, <1>5
    <3>2. /\ b \in ActivityType /\ b.recvSeen = MaxOf(activity.recvSeen, lastRecv)
          /\ b.sendResetAt = activity.sendResetAt
          /\ b.sendCredit => activity.sendCredit \/ lastRecv > activity.recvSeen BY <3>1, <1>1, ObserveRecvFacts
    <3>3. QED BY <3>2, <1>1 DEF MaxOf, ActivityInv
  <2>2. ActivityInv' BY <1>0, <1>1, <1>2, <2>1 DEF ActivityInv
  <2>3. LastActivity(b) \in Nat /\ LastActivity(b) >= b.recvSeen /\ LastActivity(b) >= b.sendResetAt
    BY <2>1, ActivityFacts
  <2>4. QED BY <1>0, <1>1, <1>3, <2>1, <2>2, <2>3 DEF ActivityInv
<1>6. CASE timer \in {"armSend", "idleSend"} /\ activity' = ObserveSend(activity, lastSend)
  <2>1. b \in ActivityType /\ b.recvSeen = activity.recvSeen /\ Counted(activity, lastSend, b)
    BY <1>0, <1>1, <1>6, ObserveSendFacts
  <2>2. lastRecv = activity.recvSeen \/ lastRecv = now BY <1>6 DEF FreshInv
  <2>3. b.sendResetAt >= activity.sendResetAt /\ b.sendResetAt <= now
        /\ b.sendResetAt <= b.recvSeen + 2 * Idle
        /\ (b.sendCredit => b.sendResetAt <= b.recvSeen) BY <1>1, <1>3, <1>4, <2>1 DEF ActivityInv, Counted
  <2>4. lastRecv > b.recvSeen => b.sendResetAt <= lastRecv BY <1>1, <2>1, <2>2, <2>3
  <2>5. ActivityInv' BY <1>0, <1>1, <1>2, <2>1, <2>3, <2>4 DEF ActivityInv
  <2>6. LastActivity(b) \in Nat /\ LastActivity(b) >= b.recvSeen /\ LastActivity(b) >= b.sendResetAt
    BY <2>1, ActivityFacts
  <2>7. QED BY <1>0, <1>1, <1>3, <2>1, <2>3, <2>5, <2>6 DEF ActivityType
<1>7. QED BY <1>5, <1>6

\* The grace and the deadline move forward with the activity.
LEMMA ObserveDeadline ==
  ASSUME ClockTypes, TimerTypes, ActivityInv, DeadlineInv, FreshInv, TimerOnly,
         \/ activity' = ObserveRecv(activity, lastRecv)
         \/ timer \in {"armSend", "idleSend"} /\ activity' = ObserveSend(activity, lastSend),
         deferredSince' = deferredSince
  PROVE  /\ now' = now /\ now' <= Deadline'
         /\ deferredSince' # None => deferredSince' <= LastActivity(activity') + Idle
<1>1. /\ LastActivity(activity) \in Nat /\ LastActivity(activity') \in Nat
      /\ LastActivity(activity') >= LastActivity(activity) BY ObserveKeeps
<1>2. now' = now /\ now \in Nat /\ Idle \in Nat BY IdleIsPositive DEF TimerOnly, ClockTypes
<1>3. QED BY <1>1, <1>2 DEF Deadline, DeadlineInv, TimerTypes, None

\* While the session is open the clock does not pass the deadline.
LEMMA OpenStep ==
  ASSUME Types, OpenInv, IdleNext
  PROVE  OpenInv'
<1>t. ClockTypes /\ TimerTypes BY DEF Types
<1>o. verdict = "open" /\ ActivityInv /\ DeadlineInv /\ FreshInv
  <2>1. verdict = "open" BY TimerFrame, OthersFrame DEF IdleNext, Tick
  <2>2. QED BY <2>1 DEF OpenInv
<1>i. Idle \in Nat /\ Idle > 0 BY IdleIsPositive
<1>l. LastActivity(activity) \in Nat BY <1>t, ActivityFacts DEF TimerTypes
<1>d. now <= Deadline /\ (deferredSince # None => deferredSince <= LastActivity(activity) + Idle)
  BY <1>o DEF DeadlineInv
<1>f. ASSUME TimerOnly, UNCHANGED activity PROVE ActivityInv' /\ now' = now /\ lastRecv' = lastRecv
  BY <1>f, <1>o DEF TimerOnly, ActivityInv, clocks
<1>r. ASSUME TimerOnly, activity' = ObserveRecv(activity, lastRecv) PROVE FreshInv'
  <2>1. activity'.recvSeen = MaxOf(activity.recvSeen, lastRecv)
    BY <1>r, <1>t, ObserveRecvFacts DEF ClockTypes, TimerTypes
  <2>2. lastRecv' = lastRecv /\ activity'.recvSeen = lastRecv
    BY <1>r, <2>1, <1>o, <1>t DEF TimerOnly, clocks, MaxOf, ActivityInv, ClockTypes, TimerTypes, ActivityType
  <2>3. QED BY <2>2 DEF FreshInv
<1>s. ASSUME TimerOnly, timer \in {"armSend", "idleSend"}, activity' = ObserveSend(activity, lastSend)
      PROVE FreshInv'
  <2>1. activity'.recvSeen = activity.recvSeen /\ lastRecv' = lastRecv /\ now' = now
    BY <1>s, <1>t, ObserveSendFacts DEF TimerOnly, clocks, ClockTypes, TimerTypes
  <2>2. QED BY <1>s, <2>1, <1>o DEF FreshInv
<1>1. ASSUME ArmRecv PROVE OpenInv'
  <2>1. TimerOnly /\ activity' = ObserveRecv(activity, lastRecv) BY <1>1 DEF ArmRecv
  <2>2. deferredSince' = deferredSince /\ timer' = "armSend" BY <1>1 DEF ArmRecv
  <2>3. QED BY <2>1, <2>2, <1>t, <1>o, <1>r, ObserveKeeps, ObserveDeadline DEF OpenInv, DeadlineInv
<1>2. ASSUME ArmSend PROVE OpenInv'
  <2>1. TimerOnly /\ timer \in {"armSend", "idleSend"} /\ activity' = ObserveSend(activity, lastSend)
    BY <1>2 DEF ArmSend, TimerAt
  <2>2. deferredSince' = deferredSince /\ timer' = "armPing" BY <1>2 DEF ArmSend
  <2>3. QED BY <2>1, <2>2, <1>t, <1>o, <1>s, ObserveKeeps, ObserveDeadline DEF OpenInv, DeadlineInv
<1>3. ASSUME ArmTimer PROVE OpenInv'
  <2>1. TimerOnly /\ activity' = activity /\ timer' = "sleep" /\ deferredSince' = deferredSince BY <1>3 DEF ArmTimer
  <2>2. PICK x : x = IF deferredSince # None THEN deferredSince ELSE LastActivity(activity) OBVIOUS
  <2>3. wake' = Min({x + Idle, pingDue'}) /\ Deadline = x + Idle /\ Deadline' = Deadline
    BY <1>3, <2>1, <2>2 DEF ArmTimer, Deadline
  <2>4. pingDue' \in Nat /\ x + Idle \in Nat
    BY <1>3, <2>2, <1>i, <1>l, <1>t, PingEveryFacts DEF ArmTimer, MaxOf, ClockTypes, TimerTypes, None
  <2>5. wake' <= Deadline' BY <2>3, <2>4, MinFacts
  <2>6. FreshInv' BY <2>1 DEF FreshInv
  <2>7. QED BY <2>1, <2>3, <2>5, <2>6, <1>d, <1>f DEF OpenInv, DeadlineInv
<1>4. ASSUME KeepAlive PROVE OpenInv'
  <2>1. TimerOnly /\ UNCHANGED <<activity, deferredSince>>
    BY <1>4 DEF KeepAlive, Wake, PublishPing, PastPing, EnqueuePing
  <2>2. timer' \in {"ping", "enqueue", "idle"} /\ wokeAt' = now
    BY <1>4, <1>o DEF KeepAlive, Wake, PublishPing, PastPing, EnqueuePing, TimerAt, DeadlineInv
  <2>3. FreshInv' BY <2>2 DEF FreshInv
  <2>4. QED BY <2>1, <2>2, <2>3, <1>d, <1>f DEF OpenInv, DeadlineInv, Deadline
<1>5. ASSUME IdleRecv PROVE OpenInv'
  <2>1. TimerOnly /\ activity' = ObserveRecv(activity, lastRecv) BY <1>5 DEF IdleRecv
  <2>2. deferredSince' = deferredSince /\ timer' = "idleSend" /\ wokeAt' = now
    BY <1>5, <1>o DEF IdleRecv, TimerAt, DeadlineInv
  <2>3. QED BY <2>1, <2>2, <1>t, <1>o, <1>r, ObserveKeeps, ObserveDeadline DEF OpenInv, DeadlineInv
<1>6. ASSUME CheckIdle PROVE OpenInv'
  <2>1. TimerOnly /\ timer \in {"armSend", "idleSend"} /\ activity' = ObserveSend(activity, lastSend)
    BY <1>6 DEF CheckIdle, TimerAt
  <2>2. /\ ActivityInv' /\ FreshInv' /\ LastActivity(activity') \in Nat
        /\ LastActivity(activity') >= LastActivity(activity) BY <2>1, <1>t, <1>o, <1>s, ObserveKeeps
  <2>3. now' = now /\ wokeAt' = now /\ wokeAt = now BY <1>6, <2>1, <1>o DEF CheckIdle, TimerAt, TimerOnly, DeadlineInv
  <2>4. CASE wokeAt < LastActivity(activity') + Idle
    <3>1. deferredSince' = None /\ timer' = "arm" BY <1>6, <2>4 DEF CheckIdle
    <3>2. Deadline' = LastActivity(activity') + Idle BY <3>1 DEF Deadline
    <3>3. now' <= Deadline' BY <3>2, <2>2, <2>3, <2>4, <1>i, <1>t DEF ClockTypes
    <3>4. QED BY <2>2, <3>1, <3>3 DEF OpenInv, DeadlineInv
  <2>5. CASE ~(wokeAt < LastActivity(activity') + Idle)
    <3>1. deferredSince' = deferredSince /\ timer' = "decide" BY <1>6, <2>5 DEF CheckIdle
    <3>2. QED BY <2>1, <2>2, <2>3, <3>1, <1>t, <1>o, ObserveDeadline DEF OpenInv, DeadlineInv
  <2>6. QED BY <2>4, <2>5
<1>7. ASSUME NEW bp, Judge(bp), timer \in {"decide", "readerBp"}, TimerOnly, UNCHANGED activity
      PROVE OpenInv'
  <2>1. SUFFICES ASSUME verdict' = "open" PROVE (ActivityInv /\ DeadlineInv /\ FreshInv)' BY DEF OpenInv
  <2>2. /\ timer' = "arm" /\ wokeAt = now
        /\ \/ deferredSince = None /\ deferredSince' = wokeAt
           \/ deferredSince # None /\ wokeAt - deferredSince < Idle /\ deferredSince' = deferredSince
    BY <1>7, <2>1, <1>o DEF Judge, DeadlineInv
  <2>3. ActivityInv' /\ now' = now /\ lastRecv' = lastRecv BY <1>7, <1>f
  <2>4. deferredSince' # None /\ deferredSince' \in Nat BY <2>2, <1>t DEF TimerTypes, None
  <2>5. Deadline' = deferredSince' + Idle BY <2>4 DEF Deadline
  <2>6. now' <= Deadline' /\ deferredSince' <= LastActivity(activity) + Idle
    <3>1. CASE deferredSince = None /\ deferredSince' = wokeAt
      <4>1. Deadline = LastActivity(activity) + Idle BY <3>1 DEF Deadline
      <4>2. QED BY <3>1, <4>1, <2>2, <2>3, <2>5, <1>d, <1>i, <1>l, <1>t DEF ClockTypes
    <3>2. CASE deferredSince # None /\ wokeAt - deferredSince < Idle /\ deferredSince' = deferredSince
      BY <3>2, <2>2, <2>3, <2>4, <2>5, <1>d, <1>i, <1>l, <1>t DEF ClockTypes
    <3>3. QED BY <2>2, <3>1, <3>2
  <2>7. FreshInv' BY <1>7, <2>2, <2>3, <1>o DEF FreshInv
  <2>8. QED BY <1>7, <2>2, <2>3, <2>6, <2>7 DEF DeadlineInv
<1>8. ASSUME ReadWriterFlag PROVE OpenInv'
  <2>1. timer = "decide" /\ TimerOnly /\ UNCHANGED activity BY <1>8 DEF ReadWriterFlag, TimerAt
  <2>2. CASE Judge(TRUE) BY <2>1, <2>2, <1>7
  <2>3. CASE timer' = "readerBp" /\ UNCHANGED <<deferredSince, verdict>>
    <3>1. wokeAt' = now BY <1>8, <2>1, <1>o DEF ReadWriterFlag, DeadlineInv
    <3>2. FreshInv' BY <2>1, <2>3, <1>f, <1>o DEF FreshInv
    <3>3. QED BY <2>1, <2>3, <3>1, <3>2, <1>d, <1>f DEF OpenInv, DeadlineInv, Deadline
  <2>4. QED BY <1>8, <2>2, <2>3 DEF ReadWriterFlag
<1>9. ASSUME ReadReaderFlag PROVE OpenInv' BY <1>7, <1>9 DEF ReadReaderFlag, TimerAt
<1>10. ASSUME Writer \/ Reader \/ Peer PROVE OpenInv'
  <2>1. now' = now /\ UNCHANGED timerVars BY <1>10, OthersFrame
  <2>2. lastRecv' \in {lastRecv, now} /\ lastSend' \in {lastSend, now}
    BY <1>10 DEF Writer, Reader, Peer, SendControl, SendData, StartSend, SendLands, PublishSend, Recv, Unpark,
      PeerAnswers, PeerSends, Arrive, FallSilent, clocks
  <2>3. /\ activity' = activity /\ timer' = timer /\ deferredSince' = deferredSince /\ wake' = wake
        /\ wokeAt' = wokeAt BY <2>1 DEF timerVars, timerLocals
  <2>4. ActivityInv' BY <2>1, <2>2, <2>3, <1>o, <1>t DEF ActivityInv, ClockTypes, TimerTypes, ActivityType
  <2>5. FreshInv' BY <2>1, <2>2, <2>3, <1>o DEF FreshInv
  <2>6. DeadlineInv' BY <2>1, <2>3, <1>o DEF DeadlineInv, Deadline
  <2>7. QED BY <2>4, <2>5, <2>6 DEF OpenInv
<1>11. ASSUME Tick PROVE OpenInv'
  <2>1. timer = "sleep" /\ wake > now /\ now' = now + 1 BY <1>11 DEF Tick, TasksIdle
  <2>2. /\ activity' = activity /\ lastRecv' = lastRecv /\ lastSend' = lastSend
        /\ deferredSince' = deferredSince /\ timer' = timer /\ wake' = wake
    BY <1>11 DEF Tick, clocks, timerVars, timerLocals
  <2>3. ActivityInv' BY <2>1, <2>2, <1>o, <1>t DEF ActivityInv, ClockTypes, TimerTypes, ActivityType
  <2>4. Deadline' = Deadline /\ Deadline \in Int BY <2>2, <1>i, <1>l, <1>t DEF Deadline, TimerTypes, None
  <2>5. now' <= Deadline' BY <2>1, <2>4, <1>o, <1>t DEF DeadlineInv, ClockTypes, TimerTypes
  <2>6. FreshInv' BY <2>1, <2>2 DEF FreshInv
  <2>7. QED BY <2>1, <2>2, <2>3, <2>4, <2>5, <2>6, <1>o DEF OpenInv, DeadlineInv
<1>12. QED BY <1>1, <1>2, <1>3, <1>4, <1>5, <1>6, <1>8, <1>9, <1>10, <1>11 DEF IdleNext, Timer, ArmStep, IdleCheck

-----------------------------------------------------------------------------
(* A live peer                                                              *)

\* The frames of a live peer come within the window, unless it is stalled; what blocks
\* a task of ours, a stalled peer or an application that does not accept, may last
\* longer than a window but not two.
Responsive ==
  /\ PingEvery + Rtt < Idle /\ PingEvery + Rtt + WedgeMax < 2 * Idle /\ ParkMax < 2 * Idle /\ InboundCap > 0

\* Within an instant an excuse is not lost: a task that is no longer blocked was
\* relieved at that instant.
LEMMA ExcuseStep ==
  ASSUME Types, Writer \/ Reader \/ Peer
  PROVE  /\ Excused => Excused'
         /\ ReaderStalled \/ relieved = now => (ReaderStalled \/ relieved = now)'
<1>t. now \in Nat /\ relieved \in Nat \cup {None} /\ sendSince \in Nat /\ parkedAt \in Nat
  BY DEF Types, ClockTypes, TaskTypes
<1>n. now' = now BY OthersFrame
<1>1. CASE SendLands BY <1>1, <1>t, <1>n DEF SendLands, Relieved, Excused, ReaderStalled, readerVars
<1>2. CASE Unpark BY <1>2, <1>t, <1>n DEF Unpark, Relieved, Excused, ReaderStalled, writerVars, None
<1>3. CASE SendControl \/ SendData
  BY <1>3, <1>n DEF SendControl, SendData, StartSend, WriterAt, Excused, ReaderStalled, readerVars
<1>4. CASE PublishSend BY <1>4, <1>n DEF PublishSend, WriterAt, flags, Excused, ReaderStalled, readerVars
<1>5. CASE Recv BY <1>5, <1>n DEF Recv, ReaderAt, Excused, ReaderStalled, writerVars
<1>6. CASE Peer
  BY <1>6, <1>n DEF Peer, PeerAnswers, PeerSends, Arrive, FallSilent, flags, Excused, ReaderStalled, writerVars,
    readerVars
<1>7. QED BY <1>1, <1>2, <1>3, <1>4, <1>5, <1>6 DEF Writer, Reader

\* What the others do to the clocks and flags at an instant.
LEMMA HeardStep ==
  ASSUME Types, HeardInv, Writer \/ Reader \/ PeerAnswers \/ PeerSends
  PROVE  HeardInv' /\ (lastRecv' = lastRecv \/ lastRecv' = now)
<1>t. /\ now \in Nat /\ lastRecv \in Nat /\ Idle \in Nat /\ Idle > 0
      /\ inbound \in Seq(PingFrame) BY IdleIsPositive DEF Types, ClockTypes, TaskTypes
<1>n. now' = now /\ lastPing' = lastPing BY OthersFrame DEF Peer, timerVars, timerLocals
<1>e. Excused => Excused' BY ExcuseStep DEF Peer
<1>1. CASE SendControl \/ SendData
  BY <1>1, <1>e, <1>n, <1>t DEF SendControl, SendData, StartSend, HeardInv, clocks, readerVars, peerVars
<1>2. CASE SendLands BY <1>2, <1>e, <1>n DEF SendLands, HeardInv, clocks, readerVars
<1>3. CASE PublishSend BY <1>3, <1>e, <1>n DEF PublishSend, WriterAt, HeardInv, flags, readerVars, peerVars
<1>4. CASE Recv
  <2>1. /\ lastRecv' = now /\ heard' = heard /\ UNCHANGED <<writerBp, writer, sendSince>>
        /\ (readerBp' <=> reader' = "parked") /\ (reader' = "parked" => parkedAt' = now)
    BY <1>4 DEF Recv, ReaderAt, HeardInv, writerVars, peerVars
  <2>2. QED BY <2>1, <1>n, <1>t DEF HeardInv
<1>5. CASE Unpark BY <1>5, <1>e, <1>n DEF Unpark, HeardInv, clocks, writerVars, peerVars
<1>6. CASE PeerAnswers \/ PeerSends
  <2>1. PICK f : Arrive(f) BY <1>6 DEF PeerAnswers, PeerSends
  <2>2. /\ lastRecv' = lastRecv /\ heard' = now /\ inbound' # <<>>
        /\ UNCHANGED <<readerBp, writerBp, reader, writer, sendSince, parkedAt>>
    BY <2>1, <1>t DEF Arrive, clocks, flags, writerVars
  <2>3. QED BY <2>2, <1>e, <1>n, <1>t DEF HeardInv
<1>7. QED BY <1>1, <1>2, <1>3, <1>4, <1>5, <1>6 DEF Writer, Reader

\* No step takes a live peer for a dead one, but for the race.
LEMMA LiveStep ==
  ASSUME Responsive, Types, Types', OpenInv, LiveInv, IdleNext
  PROVE  LiveInv'
<1>1. SUFFICES ASSUME peer = "live", peer' = "live" PROVE LiveInv'
  <2>1. peer' = "live" => peer = "live"
    <3>1. CASE Timer BY <3>1, TimerFrame DEF TimerOnly, peerVars
    <3>2. CASE Writer \/ Reader \/ Tick
      BY <3>2 DEF Writer, Reader, SendControl, SendData, StartSend, SendLands, PublishSend, Recv, Unpark, Tick, peerVars
    <3>3. CASE Peer BY <3>3 DEF Peer, PeerAnswers, PeerSends, Arrive, FallSilent
    <3>4. QED BY <3>1, <3>2, <3>3 DEF IdleNext
  <2>2. QED BY <1>1, <2>1 DEF LiveInv
<1>t. /\ now \in Nat /\ lastRecv \in Nat /\ lastSend \in Nat /\ heard \in Nat /\ wake \in Nat /\ sendSince \in Nat
      /\ lastPing \in Nat /\ activity \in ActivityType /\ activity.recvSeen \in Nat
      /\ deferredSince \in Nat \cup {None} /\ wake' \in Nat /\ activity' \in ActivityType
  BY DEF Types, ClockTypes, TimerTypes, TaskTypes, PeerTypes, ActivityType
<1>i. /\ Idle \in Nat /\ Idle > 0 /\ Rtt \in Nat /\ ParkMax \in Nat /\ InboundCap \in Nat
      /\ WedgeMax \in Nat /\ PingEvery \in Nat BY IdleIsPositive, DelaysAreNatural, PingEveryFacts
<1>o. verdict = "open" /\ ActivityInv /\ DeadlineInv /\ FreshInv /\ HeardInv /\ WatchInv /\ GraceInv
  <2>1. verdict = "open" BY TimerFrame, OthersFrame DEF IdleNext, Tick
  <2>2. QED BY <2>1, <1>1 DEF OpenInv, LiveInv
<1>w. PingEvery < Idle BY <1>i DEF Responsive
<1>h. ASSUME TimerOnly, lastPing' \in {lastPing, now}
      PROVE  /\ HeardInv' /\ now' = now /\ lastRecv' = lastRecv /\ (Excused' <=> Excused)
             /\ (ReaderStalled' <=> ReaderStalled) /\ relieved' = relieved
  <2>1. /\ now' = now /\ UNCHANGED clocks /\ UNCHANGED flags /\ UNCHANGED writerVars
        /\ UNCHANGED readerVars /\ UNCHANGED peerVars BY <1>h DEF TimerOnly
  <2>2. (Excused' <=> Excused) /\ (ReaderStalled' <=> ReaderStalled)
    BY <2>1 DEF Excused, ReaderStalled, flags, writerVars, readerVars
  <2>3. HeardInv' BY <1>h, <2>1, <2>2, <1>o, <1>t DEF HeardInv, clocks, flags, writerVars, readerVars, peerVars
  <2>4. QED BY <2>1, <2>2, <2>3 DEF clocks, flags
<1>r. ASSUME activity' = ObserveRecv(activity, lastRecv) PROVE activity'.recvSeen = lastRecv
  <2>0. activity \in ActivityType /\ lastRecv \in Nat BY <1>t
  <2>1. activity'.recvSeen = MaxOf(activity.recvSeen, lastRecv) BY <1>r, <2>0, ObserveRecvFacts
  <2>2. QED BY <2>1, <1>t, <1>o DEF MaxOf, ActivityInv
<1>2. ASSUME ArmRecv PROVE LiveInv'
  <2>1. /\ TimerOnly /\ timer = "arm" /\ timer' = "armSend" /\ activity'.recvSeen = lastRecv
        /\ deferredSince' = deferredSince /\ lastPing' = lastPing /\ verdict' = "open"
    BY <1>2, <1>r DEF ArmRecv, TimerAt
  <2>2. HeardInv' /\ now' = now BY <2>1, <1>h
  <2>3. WatchInv' BY <2>1 DEF WatchInv
  <2>4. GraceInv' BY <2>1, <2>2, <1>o DEF GraceInv, Expired, FreshInv
  <2>5. QED BY <2>1, <2>2, <2>3, <2>4 DEF LiveInv
<1>3. ASSUME ArmSend PROVE LiveInv'
  <2>1. /\ TimerOnly /\ timer = "armSend" /\ timer' = "armPing" /\ activity'.recvSeen = activity.recvSeen
        /\ deferredSince' = deferredSince /\ lastPing' = lastPing /\ verdict' = "open"
    BY <1>3, <1>t, ObserveSendFacts DEF ArmSend, TimerAt
  <2>2. HeardInv' /\ now' = now BY <2>1, <1>h
  <2>3. WatchInv' BY <2>1 DEF WatchInv
  <2>4. GraceInv' BY <2>1, <2>2, <1>o DEF GraceInv, Expired
  <2>5. QED BY <2>1, <2>2, <2>3, <2>4 DEF LiveInv
<1>4. ASSUME ArmTimer PROVE LiveInv'
  <2>1. /\ TimerOnly /\ timer = "armPing" /\ timer' = "sleep" /\ activity' = activity
        /\ deferredSince' = deferredSince /\ lastPing' = lastPing /\ verdict' = "open" BY <1>4 DEF ArmTimer, TimerAt
  <2>2. HeardInv' /\ now' = now /\ lastRecv' = lastRecv BY <2>1, <1>h
  <2>3. pingDue' \in Nat /\ pingDue' <= now + PingEvery
    BY <1>4, <1>t, <1>i, <1>o DEF ArmTimer, MaxOf, ActivityInv, HeardInv
  <2>4. PICK x \in Nat : wake' = Min({x, pingDue'})
    <3>1. LastActivity(activity) + Idle \in Nat /\ (deferredSince # None => deferredSince + Idle \in Nat)
      BY <1>t, <1>i, ActivityFacts DEF None
    <3>2. QED BY <1>4, <3>1 DEF ArmTimer
  <2>5. wake' <= now + PingEvery BY <2>3, <2>4, <1>t, <1>i, MinFacts
  <2>6. WatchInv' BY <2>1, <2>2, <2>5 DEF WatchInv
  <2>7. GraceInv' BY <2>1, <2>2, <2>5, <1>t, <1>i, <1>w, <1>o DEF GraceInv, Expired, FreshInv
  <2>8. QED BY <2>1, <2>2, <2>6, <2>7 DEF LiveInv
<1>5. ASSUME Wake PROVE LiveInv'
  <2>1. /\ TimerOnly /\ timer = "sleep" /\ timer' = "ping" /\ activity' = activity
        /\ deferredSince' = deferredSince /\ lastPing' = lastPing /\ verdict' = "open" BY <1>5 DEF Wake, TimerAt
  <2>2. HeardInv' /\ now' = now /\ lastRecv' = lastRecv BY <2>1, <1>h
  <2>3. WatchInv' /\ GraceInv' BY <2>1, <2>2, <1>o DEF WatchInv, GraceInv, Expired
  <2>4. QED BY <2>1, <2>2, <2>3 DEF LiveInv
<1>6. ASSUME PublishPing \/ EnqueuePing PROVE LiveInv'
  <2>1. /\ TimerOnly /\ timer \in {"ping", "enqueue"} /\ timer' \in {"enqueue", "idle"}
        /\ activity' = activity /\ deferredSince' = deferredSince /\ verdict' = "open"
        /\ lastPing' \in {lastPing, now} BY <1>6, <1>o DEF PublishPing, PastPing, EnqueuePing, TimerAt, DeadlineInv
  <2>2. HeardInv' /\ now' = now /\ lastRecv' = lastRecv BY <2>1, <1>h
  <2>3. WatchInv' /\ GraceInv' BY <2>1, <2>2, <1>o DEF WatchInv, GraceInv, Expired
  <2>4. QED BY <2>1, <2>2, <2>3 DEF LiveInv
<1>7. ASSUME IdleRecv PROVE LiveInv'
  <2>1. /\ TimerOnly /\ timer = "idle" /\ timer' = "idleSend" /\ activity'.recvSeen = lastRecv
        /\ deferredSince' = deferredSince /\ lastPing' = lastPing /\ verdict' = "open"
    BY <1>7, <1>r DEF IdleRecv, TimerAt
  <2>2. HeardInv' /\ now' = now /\ lastRecv' = lastRecv /\ (Excused' <=> Excused) BY <2>1, <1>h
  <2>3. WatchInv' BY <2>1, <2>2, <1>o DEF WatchInv, HeardInv
  <2>4. GraceInv'
    <3>1. lastRecv = activity.recvSeen \/ lastRecv > activity.recvSeen BY <1>t, <1>o DEF ActivityInv
    <3>2. QED BY <2>1, <2>2, <3>1, <1>o DEF GraceInv, Expired
  <2>5. QED BY <2>1, <2>2, <2>3, <2>4 DEF LiveInv
<1>8. ASSUME CheckIdle PROVE LiveInv'
  <2>1. /\ TimerOnly /\ timer = "idleSend" /\ activity'.recvSeen = activity.recvSeen
        /\ lastPing' = lastPing /\ verdict' = "open" /\ wokeAt = now
    BY <1>8, <1>t, <1>o, ObserveSendFacts DEF CheckIdle, TimerAt, DeadlineInv
  <2>2. HeardInv' /\ now' = now /\ lastRecv' = lastRecv /\ (Excused' <=> Excused) BY <2>1, <1>h
  <2>3. CASE wokeAt < LastActivity(activity') + Idle
    <3>1. deferredSince' = None /\ timer' = "arm" BY <1>8, <2>3 DEF CheckIdle
    <3>2. QED BY <2>1, <2>2, <3>1 DEF LiveInv, WatchInv, GraceInv
  <2>4. CASE ~(wokeAt < LastActivity(activity') + Idle)
    <3>1. deferredSince' = deferredSince /\ timer' = "decide" BY <1>8, <2>4 DEF CheckIdle
    <3>2. LastActivity(activity') \in Nat /\ LastActivity(activity') >= activity'.recvSeen BY <1>t, ActivityFacts
    <3>3. activity.recvSeen + Idle <= now BY <2>1, <2>4, <3>2, <1>t, <1>i
    <3>4. WatchInv' BY <2>1, <2>2, <3>1, <3>3, <1>o DEF WatchInv
    <3>5. GraceInv' BY <2>1, <2>2, <3>1, <3>3, <1>t, <1>i, <1>o DEF GraceInv, Expired
    <3>6. QED BY <2>1, <2>2, <3>4, <3>5 DEF LiveInv
  <2>5. QED BY <2>3, <2>4
<1>9. ASSUME NEW bp, Judge(bp), timer \in {"decide", "readerBp"}, TimerOnly, ~bp => relieved = now,
             UNCHANGED <<activity, lastPing>>, activity.recvSeen + Idle <= now
      PROVE  LiveInv'
  <2>1. /\ wokeAt = now /\ now < activity.recvSeen + 2 * Idle
        /\ deferredSince # None => activity.recvSeen + Idle <= deferredSince
    BY <1>9, <1>o DEF DeadlineInv, WatchInv, GraceInv, Expired
  <2>2. HeardInv' /\ now' = now /\ relieved' = relieved BY <1>9, <1>h
  <2>3. CASE verdict' = "open"
    <3>1. timer' = "arm" /\ ((deferredSince' = deferredSince /\ deferredSince # None) \/ deferredSince' = now)
      BY <1>9, <2>1, <2>3 DEF Judge
    <3>2. WatchInv' BY <3>1 DEF WatchInv
    <3>3. GraceInv' BY <1>9, <2>1, <2>2, <3>1 DEF GraceInv, Expired
    <3>4. QED BY <2>2, <2>3, <3>2, <3>3 DEF LiveInv
  <2>4. CASE verdict' = "idle"
    <3>1. deferredSince = None /\ ~bp
      <4>1. deferredSince # None => ~(wokeAt - deferredSince < Idle) BY <1>9, <2>4, <1>o DEF Judge
      <4>2. deferredSince = None BY <4>1, <2>1, <1>t, <1>i DEF None
      <4>3. QED BY <1>9, <2>4, <4>2, <1>o DEF Judge
    <3>2. QED BY <1>9, <2>2, <2>4, <3>1 DEF LiveInv
  <2>5. QED BY <1>9, <2>3, <2>4, <1>o DEF Judge
<1>10. ASSUME ReadWriterFlag PROVE LiveInv'
  <2>1. /\ timer = "decide" /\ TimerOnly /\ UNCHANGED <<activity, lastPing>> /\ activity.recvSeen + Idle <= now
    BY <1>10, <1>o DEF ReadWriterFlag, TimerAt, WatchInv
  <2>2. CASE Judge(TRUE) BY <2>1, <2>2, <1>9
  <2>3. CASE ~writerBp /\ timer' = "readerBp" /\ UNCHANGED <<deferredSince, verdict>>
    <3>1. /\ HeardInv' /\ now' = now /\ lastRecv' = lastRecv /\ relieved' = relieved
          /\ (ReaderStalled' <=> ReaderStalled) BY <2>1, <1>h
    <3>2. ReaderStalled \/ relieved = now BY <2>1, <2>3, <1>o DEF WatchInv, Excused, HeardInv
    <3>3. WatchInv' BY <2>1, <2>3, <3>1, <3>2, <1>o DEF WatchInv
    <3>4. GraceInv' BY <2>1, <2>3, <3>1, <1>o DEF GraceInv, Expired
    <3>5. QED BY <2>3, <3>1, <3>3, <3>4, <1>o DEF LiveInv
  <2>4. QED BY <1>10, <2>2, <2>3 DEF ReadWriterFlag
<1>11. ASSUME ReadReaderFlag PROVE LiveInv'
  <2>1. /\ timer = "readerBp" /\ TimerOnly /\ UNCHANGED <<activity, lastPing>>
        /\ activity.recvSeen + Idle <= now /\ Judge(readerBp) BY <1>11, <1>o DEF ReadReaderFlag, TimerAt, WatchInv
  <2>2. ~readerBp => relieved = now BY <2>1, <1>o DEF WatchInv, HeardInv, ReaderStalled
  <2>3. QED BY <2>1, <2>2, <1>9
<1>12. ASSUME Writer \/ Reader \/ PeerAnswers \/ PeerSends PROVE LiveInv'
  <2>1. HeardInv' /\ (lastRecv' = lastRecv \/ lastRecv' = now) BY <1>12, <1>o, HeardStep
  <2>2. now' = now /\ UNCHANGED timerVars BY <1>12, OthersFrame DEF Peer
  <2>3. /\ timer' = timer /\ activity' = activity /\ deferredSince' = deferredSince /\ wake' = wake
    BY <2>2 DEF timerVars, timerLocals
  <2>4. /\ Excused => Excused'
        /\ ReaderStalled \/ relieved = now => (ReaderStalled \/ relieved = now)' BY <1>12, ExcuseStep DEF Peer
  <2>5. WatchInv' BY <2>2, <2>3, <2>4, <1>o DEF WatchInv
  <2>6. GraceInv'
    <3>1. timer = "sleep" => wake < now + Idle BY <1>t, <1>i, <1>w, <1>o DEF WatchInv
    <3>2. now < now + Idle BY <1>t, <1>i
    <3>3. QED BY <2>1, <2>2, <2>3, <3>1, <3>2, <1>o DEF GraceInv, Expired
  <2>7. verdict' # "idle"
    BY <1>12, <1>o DEF Writer, Reader, SendControl, SendData, StartSend, SendLands, PublishSend, Recv, OnPing, Unpark,
      PeerAnswers, PeerSends, Arrive
  <2>8. QED BY <2>1, <2>5, <2>6, <2>7 DEF LiveInv
<1>13. ASSUME Tick PROVE LiveInv'
  <2>1. /\ now' = now + 1 /\ timer = "sleep" /\ wake > now /\ ~PeerOwes /\ ~AppOwes
        /\ reader = "parked" \/ inbound = <<>> BY <1>13 DEF Tick, TasksIdle
  <2>2. /\ UNCHANGED <<lastRecv, readerBp, writerBp, heard, inbound, reader, parkedAt, writer, sendSince>>
        /\ UNCHANGED <<timer, activity, deferredSince, wake, lastPing, verdict>>
    BY <1>13 DEF Tick, clocks, flags, readerVars, writerVars, peerVars, timerVars, timerLocals
  <2>3. now' < lastRecv + 2 * Idle /\ (lastRecv + Idle <= now' => Excused')
    <3>1. CASE reader = "parked"
      <4>1. ~(parkedAt + ParkMax <= now) /\ parkedAt = lastRecv BY <2>1, <3>1, <1>1, <1>o DEF AppOwes, HeardInv
      <4>2. now + 1 < lastRecv + 2 * Idle /\ lastRecv < now + 1 BY <4>1, <1>t, <1>i, <1>o DEF Responsive, ActivityInv
      <4>3. QED BY <2>1, <2>2, <3>1, <4>1, <4>2 DEF Excused, ReaderStalled
    <3>2. CASE inbound = <<>>
      <4>1. Len(inbound) < InboundCap BY <3>2, <1>i DEF Responsive
      <4>2. heard <= lastRecv /\ ~(heard + PingEvery + Rtt + Stall <= now)
        BY <2>1, <3>2, <4>1, <1>1, <1>o DEF PeerOwes, HeardInv
      <4>3. CASE writer = "sending"
        <5>1. ~(sendSince + WedgeMax <= now) /\ sendSince \in Nat BY <2>1, <4>3, <1>1 DEF PeerOwes, Types, TaskTypes
        <5>2. now + 1 < lastRecv + 2 * Idle BY <4>2, <4>3, <1>t, <1>i DEF Stall, Responsive
        <5>3. sendSince <= now BY <4>3, <1>o DEF HeardInv
        <5>4. QED BY <2>1, <2>2, <4>3, <5>1, <5>2, <5>3, <1>t DEF Excused
      <4>4. CASE writer # "sending"
        <5>1. now + 1 < lastRecv + Idle BY <4>2, <4>4, <1>t, <1>i DEF Stall, Responsive
        <5>2. QED BY <2>1, <5>1, <1>t, <1>i
      <4>5. QED BY <4>3, <4>4
    <3>3. QED BY <2>1, <3>1, <3>2
  <2>4. HeardInv' BY <2>1, <2>2, <2>3, <1>t, <1>o DEF HeardInv
  <2>5. WatchInv' BY <2>1, <2>2, <1>t, <1>i, <1>o DEF WatchInv
  <2>6. GraceInv' BY <2>1, <2>2, <1>t, <1>i, <1>o DEF GraceInv, Expired
  <2>7. QED BY <2>2, <2>4, <2>5, <2>6, <1>o DEF LiveInv
<1>14. ASSUME FallSilent PROVE LiveInv' BY <1>14 DEF FallSilent, LiveInv
<1>15. QED
  BY <1>2, <1>3, <1>4, <1>5, <1>6, <1>7, <1>8, <1>10, <1>11, <1>12, <1>13, <1>14 DEF IdleNext, Timer, ArmStep,
    KeepAlive, IdleCheck, Peer

-----------------------------------------------------------------------------
(* The theorems                                                             *)

\* The initial state.
LEMMA InitFacts ==
  ASSUME IdleInit
  PROVE  Types /\ PingInv /\ OpenInv /\ LiveInv
<1>i. Idle \in Nat /\ Idle > 0 BY IdleIsPositive
<1>1. ClockTypes BY DEF IdleInit, ClockTypes
<1>2. TimerTypes BY DEF IdleInit, TimerTypes, NewActivity, ActivityType
<1>3. TaskTypes BY DEF IdleInit, TaskTypes, Data, PingFrame
<1>4. PeerTypes BY DEF IdleInit, PeerTypes
<1>5. PingInv BY DEF IdleInit, PingInv, Data
<1>6. OpenInv
  <2>1. activity.recvSeen = 0 /\ activity.sendResetAt = 0 /\ LastActivity(activity) = 0
    BY DEF IdleInit, NewActivity, LastActivity, MaxOf
  <2>2. ActivityInv /\ FreshInv BY <2>1, <1>i DEF IdleInit, ActivityInv, FreshInv
  <2>3. Deadline = Idle BY <2>1, <1>i DEF IdleInit, Deadline
  <2>4. DeadlineInv BY <2>3, <1>i DEF IdleInit, DeadlineInv
  <2>5. QED BY <2>2, <2>4 DEF OpenInv
<1>7. HeardInv /\ WatchInv /\ GraceInv BY <1>i DEF IdleInit, HeardInv, WatchInv, GraceInv
<1>8. QED BY <1>1, <1>2, <1>3, <1>4, <1>5, <1>6, <1>7 DEF Types, LiveInv, IdleInit

\* Every step keeps the types, the counter ahead of the pings and the deadline
\* ahead of the clock.
LEMMA BaseStep ==
  ASSUME Types, PingInv, OpenInv, [IdleNext]_idleVars
  PROVE  (Types /\ PingInv /\ OpenInv)'
<1>1. CASE IdleNext BY <1>1, TypeStep, PingStep, OpenStep
<1>2. CASE UNCHANGED idleVars
  <2>1. /\ UNCHANGED <<now, pingsSent, control, verdict>> /\ UNCHANGED clocks /\ UNCHANGED flags
        /\ UNCHANGED timerVars /\ UNCHANGED writerVars /\ UNCHANGED readerVars /\ UNCHANGED peerVars
    BY <1>2 DEF idleVars
  <2>2. ClockTypes' /\ TaskTypes' /\ PeerTypes'
    BY <2>1 DEF Types, ClockTypes, TaskTypes, PeerTypes, clocks, flags, writerVars, readerVars, peerVars
  <2>3. TimerTypes' BY <2>1 DEF Types, TimerTypes, timerVars, timerLocals
  <2>4. PingInv' BY <2>1 DEF PingInv, timerVars, timerLocals, writerVars, readerVars, peerVars
  <2>5. OpenInv' BY <2>1 DEF OpenInv, ActivityInv, DeadlineInv, FreshInv, Deadline, clocks, timerVars, timerLocals
  <2>6. QED BY <2>2, <2>3, <2>4, <2>5 DEF Types
<1>3. QED BY <1>1, <1>2

\* SilentPeerReclaimed: a session is not open four windows after the last frame
\* was read, whatever was written meanwhile and however long the reader or the
\* writer was blocked.
THEOREM SilenceIsBounded == IdleSpec => []SilentPeerReclaimed
<1> DEFINE Inv == Types /\ PingInv /\ OpenInv
<1>1. IdleInit => Inv BY InitFacts
<1>2. Inv /\ [IdleNext]_idleVars => Inv' BY BaseStep
<1>3. Inv => SilentPeerReclaimed
  <2>1. SUFFICES ASSUME Types, ActivityInv, DeadlineInv PROVE now <= lastRecv + 4 * Idle
    BY DEF OpenInv, SilentPeerReclaimed
  <2>2. /\ activity \in ActivityType /\ activity.recvSeen \in Nat /\ activity.sendResetAt \in Nat
        /\ lastRecv \in Nat /\ now \in Nat /\ Idle \in Nat
    BY <2>1, IdleIsPositive DEF Types, ClockTypes, TimerTypes, ActivityType
  <2>3. LastActivity(activity) \in Nat /\ LastActivity(activity) <= activity.recvSeen + 2 * Idle
    BY <2>1, <2>2, ActivityFacts DEF ActivityInv
  <2>4. now <= Deadline /\ (deferredSince # None => deferredSince <= LastActivity(activity) + Idle)
    BY <2>1 DEF DeadlineInv
  <2>5. now <= LastActivity(activity) + 2 * Idle BY <2>1, <2>2, <2>3, <2>4 DEF Deadline, Types, TimerTypes, None
  <2>6. activity.recvSeen <= lastRecv BY <2>1 DEF ActivityInv
  <2>7. QED BY <2>2, <2>3, <2>5, <2>6
<1>4. QED BY <1>1, <1>2, <1>3, PTL DEF IdleSpec

\* AnswersRecognised: an answer the reader meets is to a ping the counter it
\* checks has already counted.
THEOREM AnswersAreRecognised == IdleSpec => []AnswersRecognised
<1> DEFINE Inv == Types /\ PingInv /\ OpenInv
<1>1. IdleInit => Inv BY InitFacts
<1>2. Inv /\ [IdleNext]_idleVars => Inv' BY BaseStep
<1>3. Inv => AnswersRecognised BY DEF PingInv, AnswersRecognised
<1>4. QED BY <1>1, <1>2, <1>3, PTL DEF IdleSpec

\* JudgedFairly: a live peer is neither timed out nor accused, whatever our own traffic
\* does to the clocks and although a task of ours may be blocked, and the peer not
\* heard, for longer than the window; but for the instant in which that ends.
THEOREM LivePeerIsJudgedFairly ==
  ASSUME Responsive
  PROVE  IdleSpec => []JudgedFairly
<1> DEFINE Inv == Types /\ PingInv /\ OpenInv /\ LiveInv
<1>1. IdleInit => Inv BY InitFacts
<1>2. Inv /\ [IdleNext]_idleVars => Inv'
  <2>1. SUFFICES ASSUME Inv, [IdleNext]_idleVars PROVE Inv' OBVIOUS
  <2>2. (Types /\ PingInv /\ OpenInv)' BY <2>1, BaseStep
  <2>3. CASE IdleNext BY <2>1, <2>2, <2>3, LiveStep
  <2>4. CASE UNCHANGED idleVars
    BY <2>1, <2>2, <2>4 DEF idleVars, LiveInv, HeardInv, WatchInv, GraceInv, Expired, Excused, ReaderStalled, clocks,
      flags, timerVars, timerLocals, writerVars, readerVars, peerVars
  <2>5. QED BY <2>1, <2>3, <2>4
<1>3. Inv => JudgedFairly BY TypesOK DEF JudgedFairly, LivePeerKept, AnswersRecognised, LiveInv, PingInv
<1>4. QED BY <1>1, <1>2, <1>3, PTL DEF IdleSpec

=============================================================================
