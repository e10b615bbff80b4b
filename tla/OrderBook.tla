----------------------------- MODULE OrderBook -----------------------------
(* The order book of one symbol (market/normalizer.py, OrderBookState and
   MarketNormalizer._orderbook): the exchange's book, the connection that carries
   its snapshots and deltas, the copy the normalizer keeps and the records it
   emits.  One side of the book; the other is kept in the same way.  A connection
   keeps the order of messages and may repeat one, and it ends at any time. *)
EXTENDS NoValue, Integers, Sequences

CONSTANTS
  Prices, Sizes,     \* a size 0 takes a level away
  Interval,          \* orderbook_snapshot_ms
  MaxSeq, MaxDials, WireMax, MaxTime   \* bounds

ASSUME BookAssumption ==
  /\ Sizes \subseteq Nat /\ 0 \in Sizes
  /\ {Interval, MaxSeq, MaxDials, WireMax, MaxTime} \subseteq Nat \ {0}

VARIABLES
  past,     \* the exchange's books, by the sequence number that made them
  theirs,   \* the exchange's update id
  dials,    \* connections opened
  wire,     \* messages on their way, or None when there is no connection
  bids, initialized, update_id, sequence,   \* OrderBookState
  now,      \* received_at_ns
  emitted,  \* _last_emit_ns, or None
  record    \* the last record emitted, or None

exchange == <<past, theirs>>
state    == <<bids, initialized, update_id, sequence>>
vars     == <<exchange, dials, wire, state, now, emitted, record>>

Levels == UNION {[P -> Sizes] : P \in SUBSET Prices}

Empty == [p \in {} |-> 0]

\* A book as the message that lists it: only levels with a size.
Full(book) == [p \in {q \in Prices : book[q] # 0} |-> book[p]]

Init ==
  /\ past \in {<<b>> : b \in [Prices -> Sizes]} /\ theirs = 2
  /\ dials = 0 /\ wire = None /\ now = 0
  /\ bids = Empty /\ initialized = FALSE /\ update_id = 0 /\ sequence = 0
  /\ emitted = None /\ record = None

-----------------------------------------------------------------------------
\* The exchange and the connection.

Message(type, u, seq, levels) == [type |-> type, u |-> u, seq |-> seq, levels |-> levels]

Send(m) ==
  IF wire = None \/ Len(wire) = WireMax THEN wire' = None ELSE wire' = Append(wire, m)

\* A level changes; without a connection nobody hears of it, and a connection
\* that cannot keep up is closed.
Change(p, s) ==
  /\ Len(past) < MaxSeq /\ past[Len(past)][p] # s
  /\ past' = Append(past, [past[Len(past)] EXCEPT ![p] = s])
  /\ theirs' = theirs + 1
  /\ Send(Message("delta", theirs', Len(past'), [q \in {p} |-> s]))
  /\ UNCHANGED <<dials, state, now, emitted, record>>

SendSnapshot ==
  /\ wire # None /\ Len(wire) < WireMax
  /\ wire' = Append(wire, Message("snapshot", theirs, Len(past), Full(past[Len(past)])))
  /\ UNCHANGED <<exchange, dials, state, now, emitted, record>>

\* The exchange's service restarts: its whole book under update id 1, whatever
\* the type of the message says.
ServiceRestart(type) ==
  /\ Len(past) < MaxSeq
  /\ \E b \in [Prices -> Sizes] : past' = Append(past, b)
  /\ theirs' = 1
  /\ Send(Message(type, 1, Len(past'), Full(past'[Len(past')])))
  /\ UNCHANGED <<dials, state, now, emitted, record>>

Disconnect ==
  /\ wire # None /\ wire' = None
  /\ UNCHANGED <<exchange, dials, state, now, emitted, record>>

Tick ==
  /\ now < MaxTime /\ now' = now + 1
  /\ UNCHANGED <<exchange, dials, wire, state, emitted, record>>

-----------------------------------------------------------------------------
\* The normalizer.

\* A reconnect that goes on with the book it has.
KeepState == UNCHANGED <<state, emitted>>

\* reset_connection_state, before the subscription is sent.
ResetState ==
  /\ bids' = Empty /\ initialized' = FALSE /\ update_id' = 0 /\ sequence' = 0
  /\ emitted' = None

Connect ==
  /\ wire = None /\ dials < MaxDials
  /\ dials' = dials + 1 /\ wire' = <<>> /\ ResetState
  /\ UNCHANGED <<exchange, now, record>>

IsSnapshot(m) == m.type = "snapshot" \/ m.u = 1

\* Any delta for a book that has been started.
Started(m) == initialized

Follows(m) == initialized /\ m.u > update_id /\ m.seq > sequence

\* Levels that stay with the size 0.
Merge(side, levels) ==
  [p \in DOMAIN side \cup DOMAIN levels |-> IF p \in DOMAIN levels THEN levels[p] ELSE side[p]]

\* _apply_side.
ApplySide(side, levels) ==
  [p \in {q \in DOMAIN side \cup DOMAIN levels : q \in DOMAIN levels => levels[q] # 0} |->
     IF p \in DOMAIN levels THEN levels[p] ELSE side[p]]

Due == emitted = None \/ now - emitted >= Interval

\* OrderBookState.apply, then _orderbook: a snapshot is emitted at once, a delta
\* when the interval has passed.
Process(m) ==
  IF ~(IsSnapshot(m) \/ Follows(m))
  THEN UNCHANGED <<state, emitted, record>>
  ELSE /\ bids' = ApplySide(IF IsSnapshot(m) THEN Empty ELSE bids, m.levels)
       /\ initialized' = TRUE /\ update_id' = m.u /\ sequence' = m.seq
       /\ IF m.type = "snapshot" \/ Due
          THEN /\ emitted' = now
               /\ record' = [type |-> m.type, seq |-> m.seq, levels |-> bids', at |-> now]
          ELSE UNCHANGED <<emitted, record>>

\* The next message, which may come a second time.
Receive(again) ==
  /\ wire # None /\ wire # <<>>
  /\ Process(Head(wire))
  /\ wire' = IF again THEN wire ELSE Tail(wire)
  /\ UNCHANGED <<exchange, dials, now>>

Next ==
  \/ \E p \in Prices, s \in Sizes : Change(p, s)
  \/ SendSnapshot \/ Disconnect \/ Connect \/ Tick
  \/ \E type \in {"snapshot", "delta"} : ServiceRestart(type)
  \/ \E again \in BOOLEAN : Receive(again)

Spec == Init /\ [][Next]_vars

-----------------------------------------------------------------------------
\* Every variable keeps to its values; a level that is kept has a size.
TypeOK ==
  /\ past \in Seq([Prices -> Sizes]) /\ theirs \in Nat /\ dials \in 0..MaxDials
  /\ wire # None => wire \in Seq([type : {"snapshot", "delta"}, u : Nat,
                                  seq : 1..Len(past), levels : Levels])
  /\ bids \in Levels /\ \A p \in DOMAIN bids : bids[p] # 0
  /\ initialized \in BOOLEAN /\ update_id \in Nat /\ sequence \in 0..Len(past)
  /\ now \in 0..MaxTime /\ emitted \in {None} \cup 0..MaxTime
  /\ record # None => record \in [type : {"snapshot", "delta"}, seq : 1..Len(past),
                                  levels : Levels, at : 0..MaxTime]

\* A record holds the exchange's book as it was at the sequence number it names,
\* whatever reconnects, restarts, repetitions and deltas before the snapshot
\* came between.
RecordIsExchangeBook == record # None => record.levels = Full(past[record.seq])

\* Records never go back, and a delta that was taken before makes no record,
\* but for the book of a restart, which is taken whenever it comes.
RecordsAdvance ==
  [][record # None /\ record' # record =>
       /\ record'.seq >= record.seq
       /\ record'.type = "delta" /\ update_id' # 1 => record'.seq > record.seq]_vars
=============================================================================
