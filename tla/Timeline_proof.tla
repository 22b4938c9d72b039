--------------------------- MODULE Timeline_proof ---------------------------
(***************************************************************************)
(* Proofs about Timeline.tla, for every capacity N, every set of events    *)
(* and every frame-counter width: type correctness, that the ring buffer   *)
(* implements the abstract trail of EventLog.tla, that successive QR       *)
(* payloads move forward, and that each describes the moment its frame     *)
(* number counts.                                                          *)
(***************************************************************************)
EXTENDS Timeline, Integers, SequenceTheorems, WellFoundedInduction, TLAPS

-----------------------------------------------------------------------------
(* Index arithmetic of the ring *)

\* Reducing an index below 2N modulo N subtracts N at most once; this is
\* all the arithmetic push and iter of event.rs ever do.
LEMMA WrapOnce ==
    ASSUME NEW n \in Nat, n > 0, NEW k \in 0..(2 * n - 1)
    PROVE  k % n = IF k < n THEN k ELSE k - n
<1>1. CASE k < n
  BY <1>1, SMT
<1>2. CASE k >= n
  <2>1. k - n \in 0..(n - 1)  BY <1>2
  <2>2. k = (k - n) + n * 1   BY <1>2
  <2>. QED  BY <2>1, <2>2, <1>2, Z3
<1>. QED  BY <1>1, <1>2

\* A remainder is known by its range.
LEMMA ModUnique ==
    ASSUME NEW n \in Nat, n > 0, NEW q \in Nat, NEW r \in 0..(n - 1),
           NEW a \in Nat, a = n * q + r
    PROVE  a % n = r
BY Z3

\* Counting modulo n is the count modulo n: what wrapping_add(1) does to
\* frame_counter agrees with the number of calls.
LEMMA CountModulo ==
    ASSUME NEW n \in Nat, n > 1, NEW a \in Nat
    PROVE  (a + 1) % n = ((a % n) + 1) % n
<1>. DEFINE r == a % n
            q == a \div n
<1>1. r \in 0..(n - 1) /\ q \in Nat /\ a = n * q + r
  BY Z3
<1>. HIDE DEF r, q
<1>2. CASE r + 1 < n
  <2>1. a + 1 = n * q + (r + 1)  BY <1>1
  <2>2. (a + 1) % n = r + 1  BY <1>1, <1>2, <2>1, ModUnique
  <2>. QED  BY <1>1, <1>2, <2>2, WrapOnce DEF r
<1>3. CASE ~(r + 1 < n)
  <2>1. r + 1 = n  BY <1>1, <1>3
  <2>2. a + 1 = n * (q + 1) + 0
    <3>1. n * (q + 1) = n * q + n  BY <1>1
    <3>. QED  BY <1>1, <2>1, <3>1
  <2>3. (a + 1) % n = 0  BY <1>1, <2>2, ModUnique
  <2>4. (r + 1) % n = 0  BY <2>1, <1>1, WrapOnce
  <2>. QED  BY <2>3, <2>4 DEF r
<1>. QED  BY <1>2, <1>3

\* Every non-empty set of naturals has a least element.  Stated for sets,
\* it gives the largest fitting run of encode its existence.
LEMMA LeastNatural ==
    ASSUME NEW T, T \subseteq Nat, T # {}
    PROVE  \E m \in T : \A k \in T : m <= k
<1>1. PICK m \in T : \A k \in T : ~(<<k, m>> \in OpToRel(<, Nat))
  BY WFMin, NatLessThanWellFounded
<1>2. ASSUME NEW k \in T PROVE m <= k
  <2>1. ~(<<k, m>> \in OpToRel(<, Nat))  BY <1>1
  <2>2. ~(k < m)  BY <2>1 DEF OpToRel
  <2>. QED  BY <2>2
<1>. QED  BY <1>2

-----------------------------------------------------------------------------
(* encode returns a sequence of events *)

\* What encode keeps of a sequence of events is a sequence of events: a
\* largest run that fits the byte budget exists, if only the empty one.
LEMMA FittingType ==
    ASSUME NEW S, NEW s \in Seq(S)
    PROVE  Fitting(s) \in Seq(S)
<1>. DEFINE fits == {0} \cup {k \in 1..Len(s) : CostOf(s)[k] <= Budget}
            T == {n \in 0..Len(s) : \E k \in fits : n = Len(s) - k}
<1>0. Len(s) \in Nat  OBVIOUS
<1>1. fits \subseteq 0..Len(s)  BY <1>0
<1>2. PICK n \in T : \A j \in T : n <= j
  <2>1. T \subseteq Nat  BY <1>0
  <2>2. Len(s) \in T  BY <1>0
  <2>. QED  BY <2>1, <2>2, LeastNatural
<1>3. PICK k \in fits : n = Len(s) - k  BY <1>2
<1>4. \A j \in fits : j <= k
  <2>. TAKE j \in fits
  <2>1. Len(s) - j \in T  BY <1>0, <1>1
  <2>2. n <= Len(s) - j    BY <2>1, <1>2
  <2>3. j \in 0..Len(s) /\ k \in 0..Len(s)  BY <1>1
  <2>. HIDE DEF fits, T
  <2>. QED  BY <2>2, <2>3, <1>0, <1>3
<1>. DEFINE best == CHOOSE i \in fits : \A j \in fits : j <= i
<1>5. best \in fits  BY <1>4
<1>6. best \in 0..Len(s)  BY <1>1, <1>5
<1>7. SubSeq(s, Len(s) - best + 1, Len(s)) \in Seq(S)
  <2>. HIDE DEF best
  <2>. QED  BY <1>0, <1>6, SubSeqProperties
<1>. QED  BY <1>7 DEF Fitting

-----------------------------------------------------------------------------
(* The inductive invariant *)

\* The live slots hold the end of the log: slot i of the walk from head is
\* the i-th of the last len events.  head only leaves 0 once the array is
\* full, which is what makes push's first case write behind the newest.
RingInv ==
    /\ len = IF Len(log) <= N THEN Len(log) ELSE N
    /\ len < N => head = 0
    /\ \A i \in 1..len :
          entries[(head + (i - 1)) % N] = log[Len(log) - len + i]

\* The payload on screen was built from hashes that have only grown since.
QrInv ==
    \A c \in Channels :
       /\ Len(qr.hashes[c]) <= Len(channel_hashes[c])
       /\ \A i \in 1..Len(qr.hashes[c]) :
             qr.hashes[c][i] = channel_hashes[c][i]

Inv == TypeOK /\ RingInv /\ QrInv

\* Under the invariant no live slot is empty, so iter() yields exactly the
\* last len events of the log.
LEMMA IterIsRecent ==
    ASSUME TypeOK, RingInv
    PROVE  Iter = Trail!Recent(log, N) /\ Iter \in Seq(Event)
<1>1. len \in Nat /\ N \in Nat /\ len <= N /\ log \in Seq(Event) /\ Len(log) \in Nat
      /\ len <= Len(log)
  BY TimelineAssumption DEF TypeOK, RingInv
<1>2. \A i \in 1..len : Slots[i] = log[Len(log) - len + i]
  BY DEF Slots, RingInv
<1>3. Slots \in Seq(Event) /\ Len(Slots) = len
  <2>1. \A i \in 1..len : log[Len(log) - len + i] \in Event
    BY <1>1, ElementOfSeq
  <2>. QED  BY <1>1, <1>2, <2>1, IsASeq DEF Slots
<1>4. Occupied(Slots)
  BY <1>3, ElementOfSeq, TimelineAssumption DEF Occupied
<1>5. Iter = Slots  BY <1>4 DEF Iter
<1>6. Slots = Trail!Recent(log, N)
  <2>1. CASE Len(log) <= N
    <3>1. len = Len(log)  BY <2>1 DEF RingInv
    <3>2. \A i \in 1..Len(log) : Slots[i] = log[i]  BY <1>1, <1>2, <3>1
    <3>3. Slots = log  BY <1>1, <1>3, <3>1, <3>2, SeqEqual
    <3>. QED  BY <2>1, <3>3 DEF Trail!Recent
  <2>2. CASE ~(Len(log) <= N)
    <3>1. len = N  BY <2>2 DEF RingInv
    <3>. DEFINE r == SubSeq(log, Len(log) - N + 1, Len(log))
    <3>2. r \in Seq(Event) /\ Len(r) = N
          /\ \A i \in 1..N : r[i] = log[Len(log) - N + i]
      BY <1>1, <2>2, SubSeqProperties
    <3>3. Slots = r
      <4>. HIDE DEF r
      <4>. QED  BY <1>1, <1>2, <1>3, <3>1, <3>2, SeqEqual
    <3>. QED  BY <2>2, <3>3 DEF Trail!Recent
  <2>. QED  BY <2>1, <2>2
<1>. QED  BY <1>3, <1>5, <1>6

\* A refresh draws a payload of the right type whatever the ring yields.
LEMMA PayloadType ==
    ASSUME NEW f \in 0..(FrameMod - 1), NEW s \in Seq(Event),
           NEW h \in [Channels -> Seq(Event)]
    PROVE  Payload(f, s, h) \in
              [frame : 0..(FrameMod - 1), records : Seq(Event),
               hashes : [Channels -> Seq(Event)]]
BY FittingType DEF Payload

\* The empty ring with zero indices and empty hashes (RingBuffer::new)
\* satisfies the inductive invariant.
LEMMA InitInv == Init => Inv
<1>. SUFFICES ASSUME Init PROVE Inv  OBVIOUS
<1>. USE TimelineAssumption
<1>1. <<>> \in Seq(Event) /\ Len(<<>>) = 0  BY EmptySeq
<1>2. 0 \in 0..(FrameMod - 1)  OBVIOUS
<1>3. [c \in Channels |-> <<>>] \in [Channels -> Seq(Event)]  BY <1>1
<1>4. qr \in [frame : 0..(FrameMod - 1), records : Seq(Event),
               hashes : [Channels -> Seq(Event)]]
  BY <1>1, <1>2, <1>3, PayloadType DEF Init
<1>5. TypeOK
  <2>1. entries \in [0..(N - 1) -> Event \cup {NONE}]  BY DEF Init
  <2>2. head \in Nat /\ (N > 0 => head < N) /\ (N = 0 => head = 0)
    BY DEF Init
  <2>3. len \in 0..N  BY DEF Init
  <2>4. channel_hashes \in [Channels -> Seq(Event)]  BY <1>3 DEF Init
  <2>5. issued \in Seq(Nat)  BY EmptySeq DEF Init
  <2>. QED  BY <1>1, <1>2, <1>4, <2>1, <2>2, <2>3, <2>4, <2>5 DEF Init, TypeOK
<1>6. RingInv  BY <1>1 DEF Init, RingInv
<1>7. QrInv
  <2>1. \A c \in Channels : qr.hashes[c] = <<>>
    BY DEF Init, Payload
  <2>. QED  BY <1>1, <2>1 DEF Init, QrInv
<1>. QED  BY <1>5, <1>6, <1>7 DEF Inv

-----------------------------------------------------------------------------
(* One push: the arithmetic of its two cases *)

\* RingBuffer::push keeps the indices in the array and makes the live slots
\* the last events of the longer log, in both of its cases and with N = 0.
LEMMA PushFacts ==
    ASSUME Inv, NEW e \in Event, PushEvent(e)
    PROVE  /\ entries' \in [0..(N - 1) -> Event \cup {NONE}]
           /\ head' \in Nat /\ (N > 0 => head' < N) /\ (N = 0 => head' = 0)
           /\ len' \in 0..N
           /\ RingInv'
<1>. USE TimelineAssumption
<1>1. TypeOK /\ RingInv  BY DEF Inv
<1>2. /\ log \in Seq(Event) /\ Len(log) \in Nat
      /\ log' = Append(log, e) /\ Len(log') = Len(log) + 1
      /\ log'[Len(log) + 1] = e
      /\ \A i \in 1..Len(log) : log'[i] = log[i]
  BY <1>1, AppendProperties DEF TypeOK, PushEvent
<1>3. RingPush(e)  BY DEF PushEvent
<1>4. CASE N = 0
  BY <1>1, <1>2, <1>3, <1>4 DEF RingPush, ringVars, TypeOK, RingInv
<1>5. CASE N # 0 /\ len < N
  <2>1. WriteBehind(e)
    <3>1. ~(len >= N)  BY <1>1, <1>5 DEF TypeOK
    <3>. QED  BY <1>3, <1>5, <3>1, Zenon DEF RingPush
  <2>2. head = 0 /\ len = Len(log) /\ len \in 0..(N - 1)
    BY <1>1, <1>2, <1>5 DEF TypeOK, RingInv
  <2>3. /\ entries' = [entries EXCEPT ![len] = e]
        /\ head' = 0 /\ len' = len + 1
    <3>1. (head + len) % N = len  BY <1>5, <2>2, WrapOnce
    <3>. QED  BY <2>1, <2>2, <3>1 DEF WriteBehind
  <2>4. \A i \in 1..len' : entries'[(head' + (i - 1)) % N]
                             = log'[Len(log') - len' + i]
    <3>. TAKE i \in 1..len'
    <3>1. (head' + (i - 1)) % N = i - 1
      BY <1>5, <2>2, <2>3, WrapOnce
    <3>2. Len(log') - len' + i = i  BY <1>2, <2>2, <2>3
    <3>3. CASE i = len + 1
      BY <1>1, <1>2, <2>2, <2>3, <3>1, <3>2, <3>3 DEF TypeOK
    <3>4. CASE i \in 1..len
      <4>1. entries'[i - 1] = entries[i - 1]
        BY <1>1, <2>2, <2>3, <3>4 DEF TypeOK
      <4>2. entries[(head + (i - 1)) % N] = log[Len(log) - len + i]
        BY <1>1, <3>4 DEF RingInv
      <4>3. (head + (i - 1)) % N = i - 1  BY <2>2, <2>3, <3>1
      <4>. QED  BY <1>2, <2>2, <3>1, <3>2, <3>4, <4>1, <4>2, <4>3
    <3>. QED  BY <2>2, <2>3, <3>3, <3>4
  <2>5. entries' \in [0..(N - 1) -> Event \cup {NONE}]
    BY <1>1, <2>3 DEF TypeOK
  <2>6. /\ head' \in Nat /\ (N > 0 => head' < N) /\ (N = 0 => head' = 0)
        /\ len' \in 0..N
    BY <1>5, <2>2, <2>3
  <2>7. len' = IF Len(log') <= N THEN Len(log') ELSE N
    BY <1>2, <2>2, <2>3
  <2>8. RingInv'  BY <2>3, <2>4, <2>7 DEF RingInv
  <2>. QED  BY <2>5, <2>6, <2>8
<1>6. CASE N # 0 /\ len >= N
  <2>1. Overwrite(e)
    <3>1. ~(len < N)  BY <1>1, <1>6 DEF TypeOK
    <3>. QED  BY <1>3, <1>6, <3>1, Zenon DEF RingPush
  <2>2. len = N /\ Len(log) >= N /\ N > 0 /\ head \in 0..(N - 1)
    BY <1>1, <1>2, <1>6 DEF TypeOK, RingInv
  <2>3. /\ entries' = [entries EXCEPT ![head] = e]
        /\ head' = IF head + 1 < N THEN head + 1 ELSE 0
        /\ len' = N
    <3>1. (head + 1) % N = IF head + 1 < N THEN head + 1 ELSE (head + 1) - N
      BY <2>2, WrapOnce
    <3>. QED  BY <2>1, <2>2, <3>1 DEF Overwrite
  <2>4. \A i \in 1..N : entries'[(head' + (i - 1)) % N]
                         = log'[Len(log') - N + i]
    <3>. TAKE i \in 1..N
    <3>1. (head' + (i - 1)) % N = IF head' + (i - 1) < N THEN head' + (i - 1)
                                  ELSE head' + (i - 1) - N
      BY <2>2, <2>3, WrapOnce
    <3>2. Len(log') - N + i = Len(log) - N + (i + 1)  BY <1>2, <2>2
    <3>3. CASE i = N
      <4>1. (head' + (i - 1)) % N = head  BY <2>2, <2>3, <3>1, <3>3
      <4>. QED  BY <1>1, <1>2, <2>2, <2>3, <3>3, <4>1 DEF TypeOK
    <3>4. CASE i \in 1..(N - 1)
      <4>1. (head + ((i + 1) - 1)) % N = IF head + i < N THEN head + i
                                         ELSE head + i - N
        BY <2>2, <3>4, WrapOnce
      <4>2. (head' + (i - 1)) % N = (head + ((i + 1) - 1)) % N
        BY <2>2, <2>3, <3>1, <3>4, <4>1
      <4>3. entries[(head + ((i + 1) - 1)) % N] = log[Len(log) - len + (i + 1)]
        <5>1. i + 1 \in 1..len  BY <2>2, <3>4
        <5>. QED  BY <1>1, <5>1 DEF RingInv
      <4>4. /\ (head + ((i + 1) - 1)) % N # head
            /\ (head + ((i + 1) - 1)) % N \in 0..(N - 1)
        BY <2>2, <3>4, <4>1
      <4>5. entries'[(head + ((i + 1) - 1)) % N]
              = entries[(head + ((i + 1) - 1)) % N]
        BY <1>1, <2>3, <4>4 DEF TypeOK
      <4>6. Len(log) - N + (i + 1) \in 1..Len(log)  BY <1>2, <2>2, <3>4
      <4>. QED  BY <1>2, <2>2, <3>2, <4>2, <4>3, <4>5, <4>6
    <3>. QED  BY <2>2, <3>3, <3>4
  <2>5. entries' \in [0..(N - 1) -> Event \cup {NONE}]
    BY <1>1, <2>2, <2>3 DEF TypeOK
  <2>6. /\ head' \in Nat /\ (N > 0 => head' < N) /\ (N = 0 => head' = 0)
        /\ len' \in 0..N
    BY <2>2, <2>3
  <2>7. RingInv'
    <3>1. len' = IF Len(log') <= N THEN Len(log') ELSE N
      BY <1>2, <2>2, <2>3
    <3>2. len' < N => head' = 0  BY <2>2, <2>3
    <3>. QED  BY <2>3, <2>4, <3>1, <3>2 DEF RingInv
  <2>. QED  BY <2>5, <2>6, <2>7
<1>7. (N # 0 /\ len < N) \/ (N # 0 /\ len >= N) \/ N = 0
  BY <1>1 DEF TypeOK
<1>. QED  BY <1>4, <1>5, <1>6, <1>7

\* Neither push_event nor refresh breaks the inductive invariant.
LEMMA NextInv == Inv /\ [Next]_vars => Inv'
<1>. SUFFICES ASSUME Inv, [Next]_vars PROVE Inv'  OBVIOUS
<1>. USE TimelineAssumption
<1>1. ASSUME NEW e \in Event, PushEvent(e) PROVE Inv'
  <2>1. /\ entries' \in [0..(N - 1) -> Event \cup {NONE}]
        /\ head' \in Nat /\ (N > 0 => head' < N) /\ (N = 0 => head' = 0)
        /\ len' \in 0..N
        /\ RingInv'
    BY <1>1, PushFacts
  <2>2. /\ channel_hashes \in [Channels -> Seq(Event)]
        /\ log \in Seq(Event)
        /\ frame_counter \in 0..(FrameMod - 1)
        /\ qr \in [frame : 0..(FrameMod - 1), records : Seq(Event),
                   hashes : [Channels -> Seq(Event)]]
        /\ issued \in Seq(Nat)
    BY DEF Inv, TypeOK
  <2>3. UNCHANGED <<frame_counter, qr, issued>> /\ log' = Append(log, e)
    BY <1>1 DEF PushEvent
  <2>4. channel_hashes' = [channel_hashes EXCEPT ![Channel[e]]
                                = Append(channel_hashes[Channel[e]], e)]
    BY <1>1 DEF PushEvent, HashUpdate
  <2>5. \A c \in Channels :
          /\ channel_hashes'[c] \in Seq(Event)
          /\ Len(channel_hashes[c]) <= Len(channel_hashes'[c])
          /\ \A i \in 1..Len(channel_hashes[c]) :
                channel_hashes'[c][i] = channel_hashes[c][i]
    <3>. TAKE c \in Channels
    <3>1. channel_hashes[c] \in Seq(Event) /\ Len(channel_hashes[c]) \in Nat
      BY <2>2, LenProperties
    <3>2. CASE c = Channel[e]
      BY <2>2, <2>4, <3>1, <3>2, AppendProperties
    <3>3. CASE c # Channel[e]
      BY <2>2, <2>4, <3>1, <3>3
    <3>. QED  BY <3>2, <3>3
  <2>6. channel_hashes' \in [Channels -> Seq(Event)]  BY <2>2, <2>4, <2>5
  <2>7. log' \in Seq(Event)  BY <2>2, <2>3, AppendProperties
  <2>8. TypeOK'  BY <2>1, <2>2, <2>3, <2>6, <2>7 DEF TypeOK
  <2>9. QrInv'
    <3>1. ASSUME NEW c \in Channels
          PROVE  /\ Len(qr'.hashes[c]) <= Len(channel_hashes'[c])
                 /\ \A i \in 1..Len(qr'.hashes[c]) :
                       qr'.hashes[c][i] = channel_hashes'[c][i]
      <4>1. /\ Len(qr.hashes[c]) <= Len(channel_hashes[c])
            /\ \A i \in 1..Len(qr.hashes[c]) :
                  qr.hashes[c][i] = channel_hashes[c][i]
        BY DEF Inv, QrInv
      <4>2. /\ Len(qr.hashes[c]) \in Nat
            /\ Len(channel_hashes[c]) \in Nat
            /\ Len(channel_hashes'[c]) \in Nat
        BY <2>2, <2>6, LenProperties
      <4>. QED  BY <2>3, <2>5, <4>1, <4>2
    <3>. QED  BY <3>1 DEF QrInv
  <2>. QED  BY <2>1, <2>8, <2>9 DEF Inv
<1>2. CASE Refresh
  <2>1. UNCHANGED <<entries, head, len, channel_hashes, log>>
    BY <1>2 DEF Refresh
  <2>2. RingInv'  BY <2>1 DEF Inv, RingInv
  <2>3. frame_counter' \in 0..(FrameMod - 1)
    <3>1. /\ frame_counter \in 0..(FrameMod - 1)
          /\ frame_counter + 1 \in 0..(2 * FrameMod - 1)
      BY DEF Inv, TypeOK
    <3>2. frame_counter' = (frame_counter + 1) % FrameMod
      BY <1>2 DEF Refresh
    <3>. QED  BY <3>1, <3>2, WrapOnce
  <2>4. qr' = Payload(frame_counter', Iter, channel_hashes) \/ qr' = qr
    BY <1>2 DEF Refresh, Drawn
  <2>5. Iter \in Seq(Event) /\ channel_hashes \in [Channels -> Seq(Event)]
    BY IterIsRecent DEF Inv, TypeOK
  <2>6. qr' \in [frame : 0..(FrameMod - 1), records : Seq(Event),
                 hashes : [Channels -> Seq(Event)]]
    <3>1. CASE qr' = qr  BY <3>1 DEF Inv, TypeOK
    <3>2. CASE qr' = Payload(frame_counter', Iter, channel_hashes)
      BY <2>3, <2>5, <3>2, PayloadType
    <3>. QED  BY <2>4, <3>1, <3>2
  <2>7. issued' \in Seq(Nat)
    <3>1. issued \in Seq(Nat) /\ Len(log) \in Nat
      BY LenProperties DEF Inv, TypeOK
    <3>2. issued' = Append(issued, Len(log))  BY <1>2 DEF Refresh
    <3>. QED  BY <3>1, <3>2, AppendProperties
  <2>8. TypeOK'  BY <2>1, <2>3, <2>6, <2>7 DEF Inv, TypeOK
  <2>9. QrInv'
    <3>1. qr'.hashes = channel_hashes' \/ qr' = qr
      BY <2>1, <2>4 DEF Payload
    <3>2. \A c \in Channels : Len(channel_hashes'[c]) \in Nat
      BY <2>1, <2>5, LenProperties
    <3>. QED  BY <2>1, <3>1, <3>2 DEF Inv, QrInv
  <2>. QED  BY <2>2, <2>8, <2>9 DEF Inv
<1>3. CASE UNCHANGED vars
  BY <1>3 DEF vars, Inv, TypeOK, RingInv, QrInv
<1>. QED  BY <1>1, <1>2, <1>3 DEF Next, Stopped

\* The timeline is well typed in every reachable state: head and len stay
\* inside the array, whatever its capacity, and the payload is always one
\* the encoder can produce (event.rs push, scene.rs refresh).
THEOREM TypeCorrect == Spec => []TypeOK
<1>1. Inv => TypeOK  BY DEF Inv
<1>. QED  BY InitInv, NextInv, <1>1, PTL DEF Spec

\* The relations between array, hashes, QR and log that tie RingBuffer,
\* push_event and refresh together hold in every reachable state.
THEOREM InvariantHolds == Spec => []Inv
BY InitInv, NextInv, PTL DEF Spec

-----------------------------------------------------------------------------
(* The ring buffer implements the abstract trail *)

\* The empty ring reads as the empty trail.
LEMMA InitTrail == Init => Trail!Init
<1>. SUFFICES ASSUME Init PROVE Trail!Init  OBVIOUS
<1>1. Inv  BY InitInv
<1>2. Iter = Trail!Recent(log, N)  BY <1>1, IterIsRecent DEF Inv
<1>3. log = <<>> /\ Len(log) = 0 /\ N \in Nat
  BY TimelineAssumption, EmptySeq DEF Init
<1>4. Trail!Recent(log, N) = <<>>  BY <1>3 DEF Trail!Recent
<1>. QED  BY <1>2, <1>3, <1>4 DEF Trail!Init

\* The reader's view in one state, to be used in two successive ones.
TrailView == Iter = Trail!Recent(log, N)

\* Under the invariant iter() yields the last N events of the log.
LEMMA InvTrailView == Inv => TrailView
BY IterIsRecent DEF Inv, TrailView

\* A push_event records an event in the abstract trail; a refresh leaves
\* the trail alone.
LEMMA NextTrail ==
    TrailView /\ TrailView' /\ [Next]_vars => [Trail!Next]_(Trail!vars)
<1>. SUFFICES ASSUME TrailView, TrailView', [Next]_vars
              PROVE  [Trail!Next]_(Trail!vars)
  OBVIOUS
<1>1. Iter = Trail!Recent(log, N)  BY DEF TrailView
<1>2. Iter' = Trail!Recent(log', N)  BY DEF TrailView, Trail!Recent
<1>3. ASSUME NEW e \in Event, PushEvent(e) PROVE Trail!Next
  <2>1. Len(log) < MaxPushes /\ log' = Append(log, e)
    BY <1>3 DEF PushEvent
  <2>2. Trail!Record(e)  BY <1>2, <2>1 DEF Trail!Record
  <2>. QED  BY <2>2 DEF Trail!Next
<1>4. ASSUME log' = log PROVE UNCHANGED Trail!vars
  <2>1. Iter' = Iter  BY <1>1, <1>2, <1>4 DEF Trail!Recent
  <2>. QED  BY <1>4, <2>1 DEF Trail!vars
<1>5. CASE Refresh  BY <1>4, <1>5 DEF Refresh
<1>6. CASE UNCHANGED vars  BY <1>4, <1>6 DEF vars
<1>. QED  BY <1>3, <1>5, <1>6 DEF Next, Stopped

\* For every capacity, zero included: what a reader of the ring buffer sees
\* is at every moment exactly the last N events pushed, in order, however
\* often the indices have wrapped (event.rs push and iter).
THEOREM RingRefinesTrail == Spec => RingImplementsTrail
BY InitTrail, InvTrailView, NextTrail, InvariantHolds, PTL
DEF Spec, RingImplementsTrail, Trail!Spec

-----------------------------------------------------------------------------
(* Successive payloads *)

\* For every capacity of the ring, a channel's hash in one QR extends the
\* one in the QR before, whatever was pushed and however many refreshes
\* failed in between (scene.rs DigestRefresher::refresh, push_event).
THEOREM QrForward == Spec => QrMovesForward
<1>. DEFINE Forward ==
       \A c \in Channels :
          /\ Len(qr.hashes[c]) <= Len(qr'.hashes[c])
          /\ qr.hashes[c] = SubSeq(qr'.hashes[c], 1, Len(qr.hashes[c]))
<1>1. Inv /\ [Next]_vars => [Forward]_qr
  <2>. SUFFICES ASSUME Inv, [Next]_vars, qr' # qr, NEW c \in Channels
                PROVE  /\ Len(qr.hashes[c]) <= Len(qr'.hashes[c])
                       /\ qr.hashes[c] = SubSeq(qr'.hashes[c], 1,
                                                Len(qr.hashes[c]))
    OBVIOUS
  <2>1. Refresh  BY DEF Next, PushEvent, Stopped, vars
  <2>2. qr'.hashes[c] = channel_hashes[c]
    BY <2>1 DEF Refresh, Drawn, Payload
  <2>3. qr.hashes[c] \in Seq(Event) /\ channel_hashes[c] \in Seq(Event)
    BY DEF Inv, TypeOK
  <2>4. /\ Len(qr.hashes[c]) <= Len(channel_hashes[c])
        /\ \A i \in 1..Len(qr.hashes[c]) :
              qr.hashes[c][i] = channel_hashes[c][i]
    BY DEF Inv, QrInv
  <2>. DEFINE old == qr.hashes[c]
              new == channel_hashes[c]
  <2>5. /\ SubSeq(new, 1, Len(old)) \in Seq(Event)
        /\ Len(SubSeq(new, 1, Len(old))) = Len(old)
        /\ \A i \in 1..Len(old) : SubSeq(new, 1, Len(old))[i] = new[i]
    BY <2>3, <2>4, LenProperties, SubSeqProperties
  <2>6. old = SubSeq(new, 1, Len(old))
    BY <2>3, <2>4, <2>5, SeqEqual
  <2>. QED  BY <2>2, <2>4, <2>6
<1>. QED  BY <1>1, InvariantHolds, PTL DEF Spec, QrMovesForward

-----------------------------------------------------------------------------
(* Recursive functions *)

\* Induction up to n, on a set.
LEMMA UpTo ==
    ASSUME NEW n \in Nat, NEW T, 0 \in T,
           \A i \in 1..n : i - 1 \in T => i \in T
    PROVE  \A i \in 0..n : i \in T
<1>. DEFINE D == {i \in 0..n : i \notin T}
<1>. SUFFICES ASSUME D # {} PROVE FALSE  OBVIOUS
<1>1. PICK m \in D : \A k \in D : m <= k
  <2>1. D \subseteq Nat  OBVIOUS
  <2>. QED  BY <2>1, LeastNatural
<1>2. m \in 1..n  OBVIOUS
<1>3. m - 1 \in D  BY <1>2
<1>. QED  BY <1>1, <1>2, <1>3

\* A first value and a step determine a function; the step is given as a
\* function too.
Iterates(n, S, a, F, f) ==
    /\ f \in [0..n -> S] /\ f[0] = a
    /\ \A i \in 1..n : f[i] = F[i][f[i - 1]]

LEMMA Recursion ==
    ASSUME NEW n \in Nat, NEW S, NEW a \in S, NEW F \in [1..n -> [S -> S]]
    PROVE  \E f : Iterates(n, S, a, F, f)
<1>. USE DEF Iterates
<1>. DEFINE Run(k, f) == Iterates(k, S, a, F, f)
            T == {k \in 0..n : \E f : Run(k, f)}
<1>1. 0 \in T
  <2>. DEFINE f == [i \in 0..0 |-> a]
  <2>1. f \in [0..0 -> S] /\ f[0] = a /\ 1..0 = {}  OBVIOUS
  <2>. HIDE DEF f
  <2>2. Run(0, f)  BY <2>1
  <2>. QED  BY <2>2
<1>2. ASSUME NEW k \in 1..n, k - 1 \in T PROVE k \in T
  <2>1. PICK f : Run(k - 1, f)  BY <1>2
  <2>. DEFINE g == [i \in 0..k |-> IF i = k THEN F[k][f[k - 1]] ELSE f[i]]
  <2>2. k - 1 \in 0..(k - 1) /\ f[k - 1] \in S  BY <2>1
  <2>3. F[k][f[k - 1]] \in S  BY <2>2
  <2>4. g \in [0..k -> S]
    <3>1. \A i \in 0..k : i # k => i \in 0..(k - 1)  OBVIOUS
    <3>. QED  BY <2>1, <2>3, <3>1
  <2>5. g[0] = a  BY <2>1
  <2>6. ASSUME NEW i \in 1..k PROVE g[i] = F[i][g[i - 1]]
    <3>1. i - 1 \in 0..k /\ i - 1 # k  OBVIOUS
    <3>2. g[i - 1] = f[i - 1]  BY <3>1
    <3>3. CASE i = k  BY <3>2, <3>3
    <3>4. CASE i # k
      <4>1. i \in 1..(k - 1)  BY <3>4
      <4>2. g[i] = f[i]  BY <3>4
      <4>3. f[i] = F[i][f[i - 1]]  BY <2>1, <4>1
      <4>. HIDE DEF g
      <4>. QED  BY <3>2, <4>2, <4>3
    <3>. QED  BY <3>3, <3>4
  <2>. HIDE DEF g
  <2>7. Run(k, g)  BY <2>4, <2>5, <2>6
  <2>. QED  BY <2>7
<1>3. n \in T
  <2>. HIDE DEF T
  <2>1. \A k \in 1..n : k - 1 \in T => k \in T  BY <1>2
  <2>2. \A k \in 0..n : k \in T  BY <1>1, <2>1, UpTo
  <2>. QED  BY <2>2
<1>. QED  BY <1>3

-----------------------------------------------------------------------------
(* What the channel hashes cover *)

Covers(p, c, n, f) ==
    f = [i \in 0..n |-> IF i = 0 THEN <<>>
                        ELSE IF Channel[p[i]] = c THEN Append(f[i - 1], p[i])
                             ELSE f[i - 1]]

Cover(p, c) == CHOOSE f : Covers(p, c, Len(p), f)

LEMMA CoverFacts ==
    ASSUME NEW p \in Seq(Event), NEW c
    PROVE  /\ Covers(p, c, Len(p), Cover(p, c))
           /\ Cover(p, c)[0] = <<>>
           /\ \A i \in 1..Len(p) :
                 Cover(p, c)[i] = IF Channel[p[i]] = c
                                  THEN Append(Cover(p, c)[i - 1], p[i])
                                  ELSE Cover(p, c)[i - 1]
<1>. DEFINE n == Len(p)
            S == Seq(Event)
            F == [i \in 1..n |-> [s \in S |->
                    IF Channel[p[i]] = c THEN Append(s, p[i]) ELSE s]]
<1>1. n \in Nat /\ \A i \in 1..n : p[i] \in Event  BY LenProperties, ElementOfSeq
<1>2. <<>> \in S  BY EmptySeq
<1>3. F \in [1..n -> [S -> S]]
  <2>. SUFFICES ASSUME NEW i \in 1..n, NEW s \in S
                PROVE  (IF Channel[p[i]] = c THEN Append(s, p[i]) ELSE s) \in S
    OBVIOUS
  <2>1. p[i] \in Event  BY <1>1
  <2>2. Append(s, p[i]) \in S  BY <2>1, AppendProperties
  <2>. QED  BY <2>2
<1>4. PICK f \in [0..n -> S] :
        f[0] = <<>> /\ \A i \in 1..n : f[i] = F[i][f[i - 1]]
  <2>. HIDE DEF F, S, n
  <2>1. \E f : Iterates(n, S, <<>>, F, f)  BY <1>1, <1>2, <1>3, Recursion, Zenon
  <2>. QED  BY <2>1, Zenon DEF Iterates
<1>5. \A i \in 1..n : f[i] = IF Channel[p[i]] = c THEN Append(f[i - 1], p[i])
                             ELSE f[i - 1]
  <2>. TAKE i \in 1..n
  <2>1. i - 1 \in 0..n  BY <1>1
  <2>2. f[i - 1] \in S  BY <1>4, <2>1
  <2>3. F[i][f[i - 1]] = IF Channel[p[i]] = c THEN Append(f[i - 1], p[i])
                         ELSE f[i - 1]
    BY <2>2
  <2>. QED  BY <1>4, <2>3
<1>. HIDE DEF F
<1>6. Covers(p, c, n, f)
  <2>1. f = [i \in 0..n |-> f[i]]  BY <1>4
  <2>2. \A i \in 0..n : i # 0 => i \in 1..n  OBVIOUS
  <2>. QED  BY <1>4, <1>5, <2>1, <2>2 DEF Covers
<1>7. Covers(p, c, n, Cover(p, c))  BY <1>6 DEF Cover
<1>. DEFINE g == Cover(p, c)
<1>. HIDE DEF g
<1>8. g = [i \in 0..n |-> IF i = 0 THEN <<>>
                          ELSE IF Channel[p[i]] = c THEN Append(g[i - 1], p[i])
                               ELSE g[i - 1]]
  BY <1>7 DEF Covers, g
<1>9. /\ g[0] = <<>>
      /\ \A i \in 1..n : g[i] = IF Channel[p[i]] = c
                                THEN Append(g[i - 1], p[i]) ELSE g[i - 1]
  <2>1. 0 \in 0..n /\ \A i \in 1..n : i \in 0..n /\ i # 0  BY <1>1
  <2>. QED  BY <1>8, <2>1, Zenon
<1>. QED  BY <1>7, <1>9 DEF g

LEMMA HashesAre ==
    ASSUME NEW p \in Seq(Event)
    PROVE  HashesOf(p) = [c \in Channels |-> Cover(p, c)[Len(p)]]
BY DEF HashesOf, Cover, Covers

\* One event more is absorbed by the hash of its own channel.
LEMMA HashesGrow ==
    ASSUME NEW p \in Seq(Event), NEW e \in Event
    PROVE  HashesOf(Append(p, e)) =
             [HashesOf(p) EXCEPT ![Channel[e]] = Append(@, e)]
<1>. DEFINE q == Append(p, e)
            n == Len(p)
<1>1. /\ q \in Seq(Event) /\ n \in Nat /\ Len(q) = n + 1 /\ q[n + 1] = e
      /\ \A i \in 1..n : q[i] = p[i]
  BY LenProperties, AppendProperties
<1>. HIDE DEF q
<1>2. ASSUME NEW c \in Channels
      PROVE  Cover(q, c)[n + 1] = IF Channel[e] = c
                                  THEN Append(Cover(p, c)[n], e)
                                  ELSE Cover(p, c)[n]
  <2>. DEFINE f == Cover(p, c)
              g == Cover(q, c)
              T == {i \in 0..n : f[i] = g[i]}
  <2>1. /\ f[0] = <<>>
        /\ \A i \in 1..n : f[i] = IF Channel[p[i]] = c
                                  THEN Append(f[i - 1], p[i]) ELSE f[i - 1]
    BY CoverFacts
  <2>2. /\ g[0] = <<>>
        /\ \A i \in 1..(n + 1) : g[i] = IF Channel[q[i]] = c
                                        THEN Append(g[i - 1], q[i])
                                        ELSE g[i - 1]
    BY <1>1, CoverFacts
  <2>. HIDE DEF f, g, n
  <2>3. 0 \in T  BY <1>1, <2>1, <2>2
  <2>4. ASSUME NEW i \in 1..n, i - 1 \in T PROVE i \in T
    <3>1. i \in 1..(n + 1) /\ i \in 0..n /\ q[i] = p[i] /\ f[i - 1] = g[i - 1]
      BY <1>1, <2>4
    <3>2. f[i] = g[i]  BY <2>1, <2>2, <3>1
    <3>. QED  BY <3>1, <3>2
  <2>5. n \in T
    <3>. HIDE DEF T
    <3>1. \A i \in 1..n : i - 1 \in T => i \in T  BY <2>4
    <3>2. \A i \in 0..n : i \in T  BY <1>1, <2>3, <3>1, UpTo
    <3>. QED  BY <1>1, <3>2
  <2>6. g[n + 1] = IF Channel[e] = c THEN Append(g[n], e) ELSE g[n]
    <3>1. n + 1 \in 1..(n + 1) /\ (n + 1) - 1 = n  BY <1>1
    <3>. QED  BY <1>1, <2>2, <3>1
  <2>. QED  BY <2>5, <2>6 DEF f, g
<1>3. HashesOf(q) = [c \in Channels |-> Cover(q, c)[n + 1]]
  BY <1>1, HashesAre
<1>4. HashesOf(p) = [c \in Channels |-> Cover(p, c)[n]]  BY HashesAre
<1>5. Channel[e] \in Channels  BY DEF Channels
<1>. HIDE DEF n
<1>6. HashesOf(q) = [HashesOf(p) EXCEPT ![Channel[e]] = Append(HashesOf(p)[Channel[e]], e)]
  BY <1>2, <1>3, <1>4, <1>5
<1>. QED  BY <1>6 DEF q

LEMMA HashesEmpty == HashesOf(<<>>) = [c \in Channels |-> <<>>]
<1>1. <<>> \in Seq(Event) /\ Len(<<>>) = 0  BY EmptySeq
<1>2. \A c \in Channels : Cover(<<>>, c)[0] = <<>>  BY <1>1, CoverFacts
<1>3. HashesOf(<<>>) = [c \in Channels |-> Cover(<<>>, c)[0]]
  BY <1>1, HashesAre
<1>. QED  BY <1>2, <1>3

-----------------------------------------------------------------------------
(* What the encoder keeps *)

CostsAre(s, c) ==
    c = [k \in 0..Len(s) |->
           IF k = 0 THEN 0 ELSE c[k - 1] + Cost[s[Len(s) - k + 1]]]

\* The bytes of the last k events, as a sum.
LEMMA CostFacts ==
    ASSUME NEW s \in Seq(Event)
    PROVE  /\ CostOf(s)[0] = 0
           /\ \A k \in 1..Len(s) :
                 CostOf(s)[k] = CostOf(s)[k - 1] + Cost[s[Len(s) - k + 1]]
           /\ \A k \in 0..Len(s) : CostOf(s)[k] \in Nat
<1>. DEFINE n == Len(s)
            F == [i \in 1..n |-> [m \in Nat |-> m + Cost[s[n - i + 1]]]]
<1>1. n \in Nat /\ \A k \in 1..n : Cost[s[n - k + 1]] \in Nat
  <2>1. \A k \in 1..n : n - k + 1 \in 1..n  BY LenProperties
  <2>2. \A k \in 1..n : s[n - k + 1] \in Event  BY <2>1, ElementOfSeq
  <2>. QED  BY <2>2, LenProperties, TimelineAssumption
<1>2. F \in [1..n -> [Nat -> Nat]]
  <2>. SUFFICES ASSUME NEW k \in 1..n, NEW m \in Nat
                PROVE  m + Cost[s[n - k + 1]] \in Nat
    OBVIOUS
  <2>1. Cost[s[n - k + 1]] \in Nat  BY <1>1
  <2>. QED  BY <2>1
<1>. HIDE DEF n
<1>3. PICK f \in [0..n -> Nat] :
        f[0] = 0 /\ \A i \in 1..n : f[i] = F[i][f[i - 1]]
  <2>. HIDE DEF F
  <2>1. 0 \in Nat  OBVIOUS
  <2>2. \E f : Iterates(n, Nat, 0, F, f)
    BY <1>1, <1>2, <2>1, Recursion, Zenon
  <2>. QED  BY <2>2, Zenon DEF Iterates
<1>4. \A i \in 1..n : f[i] = f[i - 1] + Cost[s[n - i + 1]]
  <2>. TAKE i \in 1..n
  <2>1. i - 1 \in 0..n  BY <1>1
  <2>2. f[i - 1] \in Nat  BY <1>3, <2>1
  <2>3. F[i][f[i - 1]] = f[i - 1] + Cost[s[n - i + 1]]  BY <2>2
  <2>. QED  BY <1>3, <2>3
<1>5. CostsAre(s, f)
  <2>1. f = [i \in 0..n |-> f[i]]  BY <1>3
  <2>2. \A i \in 0..n : i # 0 => i \in 1..n  OBVIOUS
  <2>. QED  BY <1>3, <1>4, <2>1, <2>2 DEF CostsAre, n
<1>6. CostOf(s) = CHOOSE c : CostsAre(s, c)  BY DEF CostOf, CostsAre
<1>. DEFINE g == CostOf(s)
<1>. HIDE DEF g
<1>7. CostsAre(s, g)  BY <1>5, <1>6 DEF g
<1>8. /\ g[0] = 0
      /\ \A k \in 1..n : g[k] = g[k - 1] + Cost[s[n - k + 1]]
  <2>1. 0 \in 0..n /\ \A k \in 1..n : k \in 0..n /\ k # 0  BY <1>1
  <2>. QED  BY <1>7, <2>1 DEF CostsAre, n
<1>. DEFINE T == {k \in 0..n : g[k] \in Nat}
<1>9. 0 \in T  BY <1>1, <1>8
<1>10. ASSUME NEW k \in 1..n, k - 1 \in T PROVE k \in T
  <2>1. k \in 0..n /\ g[k - 1] \in Nat /\ Cost[s[n - k + 1]] \in Nat
    BY <1>1, <1>10
  <2>2. g[k] = g[k - 1] + Cost[s[n - k + 1]]  BY <1>8
  <2>3. g[k] \in Nat  BY <2>1, <2>2
  <2>. QED  BY <2>1, <2>3
<1>11. \A k \in 0..n : k \in T
  <2>. HIDE DEF T
  <2>1. \A k \in 1..n : k - 1 \in T => k \in T  BY <1>10
  <2>. QED  BY <1>1, <1>9, <2>1, UpTo
<1>. QED  BY <1>8, <1>11 DEF g, n

\* The records of a payload are the end of what the ring holds, cut short
\* only by the byte budget, which they keep to.
LEMMA FittingCut ==
    ASSUME NEW s \in Seq(Event)
    PROVE  LET run == Fitting(s)
           IN  /\ \E d \in 0..Len(s) :
                    /\ run = SubSeq(s, d + 1, Len(s))
                    /\ d > 0 => CostOf(s)[Len(s) - d + 1] > Budget
               /\ CostOf(run)[Len(run)] <= Budget
<1>. DEFINE n == Len(s)
            fits == {0} \cup {k \in 1..n : CostOf(s)[k] <= Budget}
            T == {m \in 0..n : \E k \in fits : m = n - k}
            k == CHOOSE k \in fits : \A j \in fits : j <= k
<1>1. n \in Nat /\ \A i \in 1..n : s[i] \in Event  BY LenProperties, ElementOfSeq
<1>2. /\ CostOf(s)[0] = 0
      /\ \A i \in 1..n : CostOf(s)[i] = CostOf(s)[i - 1] + Cost[s[n - i + 1]]
      /\ \A i \in 0..n : CostOf(s)[i] \in Nat
  BY CostFacts
<1>. HIDE DEF n
<1>3. k \in fits /\ \A j \in fits : j <= k
  <2>1. fits \subseteq 0..n  BY <1>1
  <2>. HIDE DEF fits
  <2>2. T \subseteq Nat  OBVIOUS
  <2>3. T # {}  BY <1>1, <2>1 DEF fits
  <2>4. PICK m \in T : \A j \in T : m <= j  BY <2>2, <2>3, LeastNatural
  <2>5. PICK i \in fits : m = n - i  BY <2>4
  <2>6. ASSUME NEW j \in fits PROVE j <= i
    <3>1. j \in 0..n /\ i \in 0..n  BY <2>1
    <3>2. n - j \in T  BY <1>1, <3>1
    <3>3. m <= n - j  BY <2>4, <3>2
    <3>. QED  BY <1>1, <2>5, <3>1, <3>3
  <2>. QED  BY <2>6
<1>. HIDE DEF k
<1>4. Fitting(s) = SubSeq(s, n - k + 1, n)  BY DEF Fitting, k, n
<1>5. k \in 0..n /\ CostOf(s)[k] <= Budget
  BY <1>1, <1>2, <1>3, TimelineAssumption
<1>6. k < n => CostOf(s)[k + 1] > Budget
  <2>. SUFFICES ASSUME k < n PROVE CostOf(s)[k + 1] > Budget  OBVIOUS
  <2>1. k + 1 \in 1..n /\ k + 1 \notin fits  BY <1>1, <1>3, <1>5
  <2>2. ~(CostOf(s)[k + 1] <= Budget)  BY <2>1
  <2>3. CostOf(s)[k + 1] \in Nat /\ Budget \in Nat
    BY <1>2, <2>1, TimelineAssumption
  <2>. QED  BY <2>2, <2>3
<1>. HIDE DEF fits, T
<1>. DEFINE run == SubSeq(s, n - k + 1, n)
            d == n - k
<1>7. /\ run \in Seq(Event) /\ Len(run) = k
      /\ \A i \in 1..k : run[i] = s[n - k + i]
  <2>1. /\ n - k + 1 \in 1..(n + 1) /\ n \in 0..Len(s)
        /\ IF n - k + 1 <= n THEN n - (n - k + 1) + 1 = k ELSE k = 0
    BY <1>1, <1>5 DEF n
  <2>2. \A i \in 1..k : (n - k + 1) + i - 1 = n - k + i  BY <1>1, <1>5
  <2>. QED  BY <1>1, <1>5, <2>1, <2>2, SubSeqProperties
<1>. HIDE DEF run
<1>8. CostOf(run)[k] = CostOf(s)[k]
  <2>. DEFINE U == {i \in 0..k : CostOf(run)[i] = CostOf(s)[i]}
  <2>1. /\ CostOf(run)[0] = 0
        /\ \A i \in 1..k : CostOf(run)[i] = CostOf(run)[i - 1]
                                              + Cost[run[k - i + 1]]
    BY <1>7, CostFacts
  <2>2. 0 \in U  BY <1>2, <1>5, <2>1
  <2>3. ASSUME NEW i \in 1..k, i - 1 \in U PROVE i \in U
    <3>1. k - i + 1 \in 1..k /\ n - k + (k - i + 1) = n - i + 1
          /\ i \in 1..n
      BY <1>1, <1>5
    <3>2. run[k - i + 1] = s[n - i + 1]  BY <1>7, <3>1
    <3>3. CostOf(run)[i] = CostOf(s)[i]  BY <1>2, <2>1, <2>3, <3>1, <3>2
    <3>. QED  BY <3>3
  <2>4. k \in U
    <3>. HIDE DEF U
    <3>1. \A i \in 1..k : i - 1 \in U => i \in U  BY <2>3
    <3>2. k \in Nat  BY <1>1, <1>5
    <3>3. \A i \in 0..k : i \in U  BY <2>2, <3>1, <3>2, UpTo
    <3>. QED  BY <3>2, <3>3
  <2>. QED  BY <2>4
<1>9. /\ d \in 0..n /\ d + 1 = n - k + 1 /\ n - d + 1 = k + 1
      /\ (d > 0 => k < n)
  BY <1>1, <1>5
<1>. HIDE DEF d
<1>. QED  BY <1>4, <1>5, <1>6, <1>7, <1>8, <1>9 DEF run, n

-----------------------------------------------------------------------------
(* The payload describes one moment *)

\* The payload on screen is that of the r-th call of refresh.
MadeAt(r) ==
    LET past == SubSeq(log, 1, LoggedAt(r))
    IN  /\ qr.frame = r % FrameMod
        /\ qr.hashes = HashesOf(past)
        /\ qr.records = Fitting(Trail!Recent(past, N))

\* The hashes cover the whole log, the counter counts the calls, and the
\* payload on screen was made at one of them.
MomentInv ==
    /\ channel_hashes = HashesOf(log)
    /\ frame_counter = Len(issued) % FrameMod
    /\ \A r \in 1..Len(issued) : issued[r] <= Len(log)
    /\ \E r \in 0..Len(issued) : MadeAt(r)

\* A call of refresh in the past keeps its prefix of the log.
LEMMA LoggedInLog ==
    ASSUME Inv, MomentInv, NEW r \in 0..Len(issued)
    PROVE  LoggedAt(r) \in 0..Len(log)
<1>1. issued \in Seq(Nat) /\ Len(log) \in Nat /\ Len(issued) \in Nat
  BY LenProperties DEF Inv, TypeOK
<1>2. CASE r = 0  BY <1>1, <1>2 DEF LoggedAt
<1>3. CASE r # 0
  <2>1. r \in 1..Len(issued)  BY <1>1, <1>3
  <2>2. issued[r] \in Nat  BY <1>1, <2>1, ElementOfSeq
  <2>. QED  BY <1>1, <1>3, <2>1, <2>2 DEF LoggedAt, MomentInv
<1>. QED  BY <1>2, <1>3

LEMMA RecentType ==
    ASSUME NEW s \in Seq(Event)
    PROVE  Trail!Recent(s, N) \in Seq(Event)
<1>1. CASE Len(s) <= N  BY <1>1 DEF Trail!Recent
<1>2. CASE ~(Len(s) <= N)
  <2>1. /\ Len(s) - N + 1 \in 1..Len(s) + 1 /\ Len(s) \in 0..Len(s)
        /\ Len(s) \in Nat
    BY <1>2, LenProperties, TimelineAssumption
  <2>2. SubSeq(s, Len(s) - N + 1, Len(s)) \in Seq(Event)
    BY <2>1, SubSeqProperties
  <2>. QED  BY <1>2, <2>2 DEF Trail!Recent
<1>. QED  BY <1>1, <1>2

LEMMA InitMoment == Init => MomentInv
<1>. SUFFICES ASSUME Init PROVE MomentInv  OBVIOUS
<1>1. /\ log = <<>> /\ Len(log) = 0 /\ N \in Nat /\ log \in Seq(Event)
      /\ issued = <<>> /\ Len(issued) = 0
      /\ FrameMod \in Nat /\ FrameMod > 1
  BY TimelineAssumption, EmptySeq DEF Init
<1>2. channel_hashes = HashesOf(log)  BY <1>1, HashesEmpty DEF Init
<1>3. SubSeq(log, 1, 0) = log
  <2>1. /\ SubSeq(log, 1, 0) \in Seq(Event) /\ Len(SubSeq(log, 1, 0)) = 0
    BY <1>1, SubSeqProperties
  <2>. QED  BY <1>1, <2>1, SeqEqual
<1>4. Trail!Recent(log, N) = log  BY <1>1 DEF Trail!Recent
<1>5. 0 % FrameMod = 0  BY <1>1, WrapOnce
<1>6. MadeAt(0)
  <2>1. LoggedAt(0) = 0  BY DEF LoggedAt
  <2>2. qr.frame = 0 /\ qr.records = Fitting(<<>>)
        /\ qr.hashes = [c \in Channels |-> <<>>]
    BY DEF Init, Payload
  <2>3. qr.hashes = HashesOf(log)  BY <1>2, <2>2 DEF Init
  <2>. QED  BY <1>1, <1>3, <1>4, <1>5, <2>1, <2>2, <2>3 DEF MadeAt
<1>7. frame_counter = Len(issued) % FrameMod  BY <1>1, <1>5 DEF Init
<1>. QED  BY <1>1, <1>2, <1>6, <1>7 DEF MomentInv

\* Growing the log leaves the past payloads alone.
LEMMA SamePast ==
    ASSUME Inv, MomentInv, NEW e \in Event, log' = Append(log, e),
           NEW r \in 0..Len(issued)
    PROVE  SubSeq(log', 1, LoggedAt(r)) = SubSeq(log, 1, LoggedAt(r))
<1>. DEFINE k == LoggedAt(r)
<1>1. k \in 0..Len(log)  BY LoggedInLog
<1>2. log \in Seq(Event) /\ Len(log) \in Nat
  BY LenProperties DEF Inv, TypeOK
<1>3. /\ log' \in Seq(Event) /\ Len(log') = Len(log) + 1
      /\ \A i \in 1..Len(log) : log'[i] = log[i]
  BY <1>2, AppendProperties
<1>. HIDE DEF k
<1>4. /\ SubSeq(log, 1, k) \in Seq(Event) /\ Len(SubSeq(log, 1, k)) = k
      /\ \A i \in 1..k : SubSeq(log, 1, k)[i] = log[i]
  BY <1>1, <1>2, SubSeqProperties
<1>5. /\ SubSeq(log', 1, k) \in Seq(Event) /\ Len(SubSeq(log', 1, k)) = k
      /\ \A i \in 1..k : SubSeq(log', 1, k)[i] = log'[i]
  BY <1>1, <1>2, <1>3, SubSeqProperties
<1>6. SubSeq(log', 1, k) = SubSeq(log, 1, k)
  BY <1>1, <1>3, <1>4, <1>5, SeqEqual
<1>. QED  BY <1>6 DEF k

LEMMA NextMoment == Inv /\ MomentInv /\ [Next]_vars => MomentInv'
<1>. SUFFICES ASSUME Inv, MomentInv, [Next]_vars PROVE MomentInv'  OBVIOUS
<1>1. /\ log \in Seq(Event) /\ Len(log) \in Nat
      /\ issued \in Seq(Nat) /\ Len(issued) \in Nat
  BY LenProperties DEF Inv, TypeOK
<1>2. ASSUME NEW e \in Event, PushEvent(e) PROVE MomentInv'
  <2>1. /\ log' = Append(log, e) /\ qr' = qr /\ issued' = issued
        /\ frame_counter' = frame_counter
        /\ channel_hashes' = [channel_hashes EXCEPT ![Channel[e]] = Append(@, e)]
    BY <1>2 DEF PushEvent, HashUpdate
  <2>2. channel_hashes' = HashesOf(log')
    BY <1>1, <2>1, HashesGrow DEF MomentInv
  <2>3. Len(log') = Len(log) + 1  BY <1>1, <2>1, AppendProperties
  <2>4. PICK r \in 0..Len(issued) : MadeAt(r)  BY DEF MomentInv
  <2>5. SubSeq(log', 1, LoggedAt(r)) = SubSeq(log, 1, LoggedAt(r))
    BY <2>1, SamePast
  <2>6. MadeAt(r)'  BY <2>1, <2>4, <2>5 DEF MadeAt, LoggedAt, Trail!Recent
  <2>7. \A i \in 1..Len(issued') : issued'[i] <= Len(log')
    <3>. SUFFICES ASSUME NEW i \in 1..Len(issued) PROVE issued[i] <= Len(log')
      BY <2>1
    <3>1. issued[i] \in Nat  BY <1>1, ElementOfSeq
    <3>2. issued[i] <= Len(log)  BY DEF MomentInv
    <3>. QED  BY <1>1, <2>3, <3>1, <3>2
  <2>8. frame_counter' = Len(issued') % FrameMod  BY <2>1 DEF MomentInv
  <2>9. \E i \in 0..Len(issued') : MadeAt(i)'  BY <2>1, <2>4, <2>6
  <2>. QED  BY <2>2, <2>7, <2>8, <2>9 DEF MomentInv
<1>3. CASE Refresh
  <2>1. UNCHANGED <<entries, head, len, channel_hashes, log>>
    BY <1>3 DEF Refresh
  <2>. DEFINE n == Len(issued)
  <2>2. /\ issued' \in Seq(Nat) /\ Len(issued') = n + 1
        /\ issued'[n + 1] = Len(log)
        /\ \A i \in 1..n : issued'[i] = issued[i]
    BY <1>1, <1>3, AppendProperties DEF Refresh
  <2>3. frame_counter' = Len(issued') % FrameMod
    <3>1. frame_counter = n % FrameMod  BY DEF MomentInv
    <3>2. frame_counter' = (frame_counter + 1) % FrameMod
      BY <1>3 DEF Refresh
    <3>3. FrameMod \in Nat /\ FrameMod > 1  BY TimelineAssumption
    <3>4. (n + 1) % FrameMod = ((n % FrameMod) + 1) % FrameMod
      BY <1>1, <3>3, CountModulo
    <3>. QED  BY <2>2, <3>1, <3>2, <3>4
  <2>4. \A i \in 1..Len(issued') : issued'[i] <= Len(log')
    <3>. SUFFICES ASSUME NEW i \in 1..(n + 1) PROVE issued'[i] <= Len(log)
      BY <2>1, <2>2
    <3>1. CASE i = n + 1  BY <1>1, <2>2, <3>1
    <3>2. CASE i # n + 1
      <4>1. i \in 1..n  BY <1>1, <3>2
      <4>. QED  BY <2>2, <4>1 DEF MomentInv
    <3>. QED  BY <3>1, <3>2
  <2>5. \E i \in 0..Len(issued') : MadeAt(i)'
    <3>1. CASE qr' = Payload(frame_counter', Iter, channel_hashes)
      <4>1. Iter = Trail!Recent(log, N)  BY IterIsRecent DEF Inv
      <4>2. SubSeq(log, 1, Len(log)) = log
        <5>1. /\ SubSeq(log, 1, Len(log)) \in Seq(Event)
              /\ Len(SubSeq(log, 1, Len(log))) = Len(log)
              /\ \A i \in 1..Len(log) : SubSeq(log, 1, Len(log))[i] = log[i]
          BY <1>1, SubSeqProperties
        <5>. QED  BY <1>1, <5>1, SeqEqual
      <4>3. /\ qr'.frame = (n + 1) % FrameMod
            /\ qr'.hashes = HashesOf(log)
            /\ qr'.records = Fitting(Trail!Recent(log, N))
        BY <2>2, <2>3, <3>1, <4>1 DEF Payload, MomentInv
      <4>4. PICK r \in Nat : r = n + 1  BY <1>1
      <4>5. LoggedAt(r)' = Len(log)
        BY <1>1, <2>2, <4>4 DEF LoggedAt
      <4>6. MadeAt(r)'
        BY <2>1, <4>2, <4>3, <4>4, <4>5 DEF MadeAt, Trail!Recent
      <4>7. r \in 0..Len(issued')  BY <1>1, <2>2, <4>4
      <4>. QED  BY <4>6, <4>7
    <3>2. CASE qr' = qr
      <4>1. PICK r \in 0..n : MadeAt(r)  BY DEF MomentInv
      <4>2. LoggedAt(r)' = LoggedAt(r)
        <5>1. r # 0 => r \in 1..n  BY <1>1
        <5>. QED  BY <2>2, <5>1 DEF LoggedAt
      <4>3. MadeAt(r)'
        BY <2>1, <3>2, <4>1, <4>2 DEF MadeAt, Trail!Recent
      <4>4. r \in 0..Len(issued')  BY <1>1, <2>2
      <4>. QED  BY <4>3, <4>4
    <3>. QED  BY <1>3, <3>1, <3>2 DEF Refresh, Drawn
  <2>. QED  BY <2>1, <2>3, <2>4, <2>5 DEF MomentInv
<1>4. CASE UNCHANGED vars
  BY <1>4 DEF vars, MomentInv, MadeAt, LoggedAt, Trail!Recent
<1>. QED  BY <1>2, <1>3, <1>4 DEF Next, Stopped

\* Whatever the capacity of the ring, the byte budget, the sizes of the
\* events, the width of the frame counter and the refreshes that fail: frame
\* number, hashes and records of a QR belong to one call of refresh, of whose
\* log the hashes cover every event and the records are the end.
THEOREM QrTellsOneMoment == Spec => []QrDescribesOneMoment
<1>1. ASSUME Inv, MomentInv PROVE QrDescribesOneMoment
  <2>1. PICK r \in 0..Len(issued) : MadeAt(r)  BY <1>1 DEF MomentInv
  <2>. DEFINE past == SubSeq(log, 1, LoggedAt(r))
              held == Trail!Recent(past, N)
  <2>2. past \in Seq(Event)
    <3>1. LoggedAt(r) \in 0..Len(log)  BY <1>1, LoggedInLog
    <3>. QED  BY <1>1, <3>1, SubSeqProperties DEF Inv, TypeOK
  <2>3. held \in Seq(Event)
    <3>. HIDE DEF past
    <3>. QED  BY <2>2, RecentType
  <2>4. /\ qr.frame = r % FrameMod
        /\ qr.hashes = HashesOf(past) /\ qr.records = Fitting(held)
    BY <2>1 DEF MadeAt
  <2>. HIDE DEF past, held
  <2>5. /\ \E d \in 0..Len(held) :
              /\ qr.records = SubSeq(held, d + 1, Len(held))
              /\ d > 0 => CostOf(held)[Len(held) - d + 1] > Budget
        /\ CostOf(qr.records)[Len(qr.records)] <= Budget
    BY <2>3, <2>4, FittingCut
  <2>. QED  BY <2>1, <2>4, <2>5 DEF QrDescribesOneMoment, past, held
<1>. QED  BY <1>1, InitInv, NextInv, InitMoment, NextMoment, PTL DEF Spec
=============================================================================
