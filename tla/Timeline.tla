------------------------------ MODULE Timeline ------------------------------
(***************************************************************************)
(* The event timeline: the ring buffer of src/event.rs, the per-channel    *)
(* rolling hashes updated beside it by push_event (src/scene.rs and        *)
(* src/bootloader.rs have one each, with the same body) and the refresh    *)
(* that turns both into the payload of the on-screen QR digest.            *)
(*                                                                         *)
(* The framebuffer half of the payload is modelled in Surface.tla.  The    *)
(* shared crate's encoder and ChannelHashes are external: a rolling hash   *)
(* is modelled, collision-free, by the sequence of events it has absorbed, *)
(* and the encoder by the newest run of records that fits its byte budget, *)
(* or an error.                                                            *)
(***************************************************************************)
EXTENDS Naturals, Sequences

CONSTANTS Event,      \* event values (timestamps dropped)
          Channel,    \* Channel[e]: the hash channel of e, one per variant
          Cost,       \* Cost[e]: bytes e takes in the digest payload
          Budget,     \* bytes the payload has left for events
          N,          \* RingBuffer<N>; 256 in Scene
          FrameMod,   \* 2^32: the width of frame_counter
          NONE,       \* the empty slot, Rust's None
          MaxPushes,  \* bound on the number of pushes
          MaxRefreshes\* bound on the number of refreshes

ASSUME TimelineAssumption ==
    /\ N \in Nat
    /\ FrameMod \in Nat /\ FrameMod > 1
    /\ NONE \notin Event
    /\ Budget \in Nat
    /\ Cost \in [Event -> Nat]
    /\ DOMAIN Channel = Event

Channels == {Channel[e] : e \in Event}

VARIABLES entries,         \* [Option<Event>; N]
          head,            \* index of the oldest entry
          len,             \* number of live entries
          channel_hashes,  \* per channel, what its rolling hash covers
          frame_counter,   \* DigestRefresher::frame_counter
          qr,              \* the payload last drawn on screen
          log,             \* history variable: every event ever pushed
          issued           \* history variable: the length of the log at
                           \* each call of refresh

ringVars == <<entries, head, len>>
vars == <<entries, head, len, channel_hashes, frame_counter, qr, log, issued>>

-----------------------------------------------------------------------------
(* RingBuffer<N> *)

\* The slots iter() visits, in its order.
Slots == [i \in 1..len |-> entries[(head + (i - 1)) % N]]

\* filter_map over Option: empty slots are skipped.
Occupied(s) == \A i \in DOMAIN s : s[i] # NONE
SkipEmpty(s) == SelectSeq(s, LAMBDA e : e # NONE)
Iter == IF Occupied(Slots) THEN Slots ELSE SkipEmpty(Slots)

\* push() with the slots it writes, in its two cases.
WriteBehind(e) ==
    /\ entries' = [entries EXCEPT ![(head + len) % N] = e]
    /\ len' = len + 1
    /\ head' = head

\* Two slips one could make there: the oldest index left behind, and a
\* length that keeps counting.
OverwriteKeepsHead(e) ==
    /\ entries' = [entries EXCEPT ![head] = e]
    /\ UNCHANGED <<head, len>>

OverwriteGrows(e) ==
    /\ entries' = [entries EXCEPT ![head] = e]
    /\ head' = (head + 1) % N
    /\ len' = len + 1

Overwrite(e) ==
    /\ entries' = [entries EXCEPT ![head] = e]
    /\ head' = (head + 1) % N
    /\ len' = len

RingPush(e) ==
    IF N = 0 THEN UNCHANGED ringVars
    ELSE \/ len < N /\ WriteBehind(e)
         \/ len >= N /\ Overwrite(e)

(* ChannelHashes::update, and the slips of hashing only what the ring keeps *)
(* and of hashing afresh when it begins to forget.                          *)
HashUpdateUntilFull(e) ==
    channel_hashes' = IF len < N
                      THEN [channel_hashes EXCEPT ![Channel[e]] = Append(@, e)]
                      ELSE channel_hashes

HashUpdateAfresh(e) ==
    channel_hashes' = [channel_hashes EXCEPT
                         ![Channel[e]] = IF len < N THEN Append(@, e) ELSE <<e>>]

HashUpdate(e) ==
    channel_hashes' = [channel_hashes EXCEPT ![Channel[e]] = Append(@, e)]

-----------------------------------------------------------------------------
(* encode(): the newest run of the readable events that fits the budget.   *)

\* CostOf(s)[k]: bytes taken by the last k events of s.
CostOf(s) ==
    LET c[k \in 0..Len(s)] ==
            IF k = 0 THEN 0 ELSE c[k - 1] + Cost[s[Len(s) - k + 1]]
    IN  c

Fitting(s) ==
    LET fits == {0} \cup {k \in 1..Len(s) : CostOf(s)[k] <= Budget}
        k    == CHOOSE k \in fits : \A j \in fits : j <= k
    IN  SubSeq(s, Len(s) - k + 1, Len(s))

Payload(frame, readable, hashes) ==
    [frame |-> frame, records |-> Fitting(readable), hashes |-> hashes]

-----------------------------------------------------------------------------
Init ==
    /\ entries = [i \in 0..(N - 1) |-> NONE]
    /\ head = 0
    /\ len = 0
    /\ channel_hashes = [c \in Channels |-> <<>>]
    /\ frame_counter = 0
    /\ qr = Payload(0, <<>>, [c \in Channels |-> <<>>])
    /\ log = <<>>
    /\ issued = <<>>

\* push_event: the hashes first, then the ring.
PushEvent(e) ==
    /\ Len(log) < MaxPushes
    /\ HashUpdate(e)
    /\ RingPush(e)
    /\ log' = Append(log, e)
    /\ UNCHANGED <<frame_counter, qr, issued>>

\* match encode(...): Ok draws the payload, Err leaves the QR that is there.
\* The slip: a counter that is bumped where the QR is drawn.
DrawnAtOldFrame ==
    \/ qr' = Payload(frame_counter, Iter, channel_hashes)
    \/ qr' = qr

Drawn ==
    \/ qr' = Payload(frame_counter', Iter, channel_hashes)
    \/ qr' = qr

\* DigestRefresher::refresh: bump the counter, read the ring, encode, draw.
Refresh ==
    /\ Len(issued) < MaxRefreshes
    /\ frame_counter' = (frame_counter + 1) % FrameMod
    /\ Drawn
    /\ issued' = Append(issued, Len(log))
    /\ UNCHANGED <<entries, head, len, channel_hashes, log>>

\* Both bounds are used up.
Stopped ==
    /\ Len(log) = MaxPushes /\ Len(issued) = MaxRefreshes
    /\ UNCHANGED vars

Next == (\E e \in Event : PushEvent(e)) \/ Refresh \/ Stopped

Spec == Init /\ [][Next]_vars

-----------------------------------------------------------------------------
(* Properties *)

\* Every variable keeps its Rust type; head and len stay inside the array.
TypeOK ==
    /\ entries \in [0..(N - 1) -> Event \cup {NONE}]
    /\ head \in Nat /\ (N > 0 => head < N) /\ (N = 0 => head = 0)
    /\ len \in 0..N
    /\ channel_hashes \in [Channels -> Seq(Event)]
    /\ frame_counter \in 0..(FrameMod - 1)
    /\ qr \in [frame : 0..(FrameMod - 1), records : Seq(Event),
               hashes : [Channels -> Seq(Event)]]
    /\ log \in Seq(Event)
    /\ issued \in Seq(Nat)

\* Abstract view of the ring: what EventLog calls its window.
Trail == INSTANCE EventLog WITH Capacity <- N, MaxLog <- MaxPushes,
                                window <- Iter

\* RingBuffer<N> is a log of which the last N events stay readable in
\* order: pushes wrap, overwrite the oldest, and a reader that starts at
\* head never meets an empty slot or a stale one (event.rs push and iter).
RingImplementsTrail == Trail!Spec

\* What the hash of each channel has absorbed after the events of p.
HashesOf(p) ==
    [c \in Channels |->
        LET absorbed[i \in 0..Len(p)] ==
                IF i = 0 THEN <<>>
                ELSE IF Channel[p[i]] = c THEN Append(absorbed[i - 1], p[i])
                     ELSE absorbed[i - 1]
        IN  absorbed[Len(p)]]

\* Events in the log at the r-th call of refresh; 0 is the start of the run.
LoggedAt(r) == IF r = 0 THEN 0 ELSE issued[r]

\* The QR on screen describes one moment of the run, that of the refresh
\* its frame number counts, failed ones included: its channel hashes cover
\* exactly the events logged by then, evicted ones too, and its records are
\* the end of those, cut short only by the ring or by the byte budget
\* (refresh and both push_event paths keep counter, ring and hashes in
\* lock-step).
QrDescribesOneMoment ==
    \E r \in 0..Len(issued) :
        LET past == SubSeq(log, 1, LoggedAt(r))
            held == Trail!Recent(past, N)
            run  == qr.records
        IN  /\ qr.frame = r % FrameMod
            /\ qr.hashes = HashesOf(past)
            /\ \E d \in 0..Len(held) :
                  /\ run = SubSeq(held, d + 1, Len(held))
                  /\ d > 0 => CostOf(held)[Len(held) - d + 1] > Budget
            /\ CostOf(run)[Len(run)] <= Budget

\* The events a reader saw hashed stay hashed: from one QR to the next,
\* however many refreshes failed in between, the hash of a channel is
\* extended and never started over, and so it outlives the ring.
QrMovesForward ==
    [][\A c \in Channels :
          /\ Len(qr.hashes[c]) <= Len(qr'.hashes[c])
          /\ qr.hashes[c] = SubSeq(qr'.hashes[c], 1, Len(qr.hashes[c]))]_qr
=============================================================================
