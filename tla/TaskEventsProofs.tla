--------------------------- MODULE TaskEventsProofs ---------------------------
(***************************************************************************)
(* What a client of a task's event stream can rely on, for every size of   *)
(* the server's buffers and of the connection, and every number of events  *)
(* and of cut connections.                                                 *)
(***************************************************************************)
EXTENDS TaskEvents, SequenceTheorems, TLAPS

-----------------------------------------------------------------------------
(* The inductive invariant.                                                *)

(* The id of the oldest event kept; one past the last if none is.          *)
Oldest == nextEventID - Len(events) + 1

(* The server keeps the latest events, in order and without a gap.         *)
Window ==
    /\ Len(events) <= nextEventID
    /\ nextEventID > 0 => events # <<>>
    /\ \A i \in 1..Len(events) :
          events[i].id = nextEventID - Len(events) + i /\ events[i].type # "replay_overflow"

(* The event may follow the one with id prev: it is the next one, or marks *)
(* a gap that ends before the oldest event kept.                           *)
Link(event, prev, oldest) ==
    IF event.type = "replay_overflow" THEN prev < event.id /\ event.id < oldest ELSE event.id = prev + 1

(* The events may follow the one with id prev, and what the last of them   *)
(* is.                                                                     *)
Linked(s, prev, oldest) == \A i \in 1..Len(s) : Link(s[i], IF i = 1 THEN prev ELSE s[i - 1].id, oldest)
Last(s, prev) == IF s = <<>> THEN prev ELSE s[Len(s)].id
Known(s, last) == \A i \in 1..Len(s) : s[i].id <= last

(* What is on its way to the client follows what it has, and a channel     *)
(* that is open misses no event.                                           *)
Stream ==
    /\ Linked(wire, cursor, Oldest)
    /\ Linked(channel.queue, Last(wire, cursor), Oldest)
    /\ Known(wire, nextEventID) /\ Known(channel.queue, nextEventID)
    /\ channel.open => Last(channel.queue, Last(wire, cursor)) = nextEventID

Cursor ==
    /\ cursor <= nextEventID
    /\ seen = <<>> => cursor = 0
    /\ seen # <<>> => cursor = seen[Len(seen)].id

(* Every gap in what the client has seen is marked, and the events of the  *)
(* gap are no longer kept.                                                 *)
Marked ==
    \A id \in (1..cursor) \ Seen :
        /\ id < Oldest
        /\ \E i \in 1..Len(seen) :
              /\ seen[i].type = "replay_overflow" /\ id <= seen[i].id
              /\ i > 1 => seen[i - 1].id < id

Inv == TypeOK /\ client # "protocolError" /\ Window /\ Stream /\ Cursor /\ Marked

-----------------------------------------------------------------------------
(* Sequences of events that follow each other.                             *)

LEMMA LinkedMore ==
    ASSUME NEW s \in Seq(Events), NEW prev \in Nat, NEW o \in Int, NEW p \in Int, o <= p, Linked(s, prev, o)
    PROVE  Linked(s, prev, p)
<1>1. \A i \in 1..Len(s) : s[i] \in Events
  OBVIOUS
<1>2. \A e \in Events : e.id \in Int
  BY EventsAssumption DEF Events, EventIds
<1> QED BY <1>1, <1>2 DEF Linked, Link

LEMMA LinkedEmpty == \A prev, o : Linked(<<>>, prev, o) /\ Last(<<>>, prev) = prev
  BY DEF Linked, Last

LEMMA LinkedAppend ==
    ASSUME NEW s \in Seq(Events), NEW e \in Events, NEW prev, NEW o, Linked(s, prev, o), Link(e, Last(s, prev), o)
    PROVE  Linked(Append(s, e), prev, o) /\ Last(Append(s, e), prev) = e.id
<1> DEFINE t == Append(s, e)
           n == Len(s)
<1>1. n \in Nat /\ Len(t) = n + 1 /\ t[n + 1] = e /\ \A i \in 1..n : t[i] = s[i]
  OBVIOUS
<1>2. n = 0 <=> s = <<>>
  OBVIOUS
<1>3. ASSUME NEW i \in 1..(n + 1) PROVE Link(t[i], IF i = 1 THEN prev ELSE t[i - 1].id, o)
  <2>1. CASE i <= n
    <3>1. i \in 1..n /\ (i # 1 => i - 1 \in 1..n)
      BY <1>1, <2>1
    <3>2. Link(s[i], IF i = 1 THEN prev ELSE s[i - 1].id, o)
      BY <3>1 DEF Linked
    <3>3. t[i] = s[i] /\ (i # 1 => t[i - 1] = s[i - 1])
      BY <1>1, <3>1
    <3>4. (IF i = 1 THEN prev ELSE t[i - 1].id) = (IF i = 1 THEN prev ELSE s[i - 1].id)
      BY <3>3
    <3> QED BY <3>2, <3>3, <3>4
  <2>2. CASE i = n + 1
    <3>1. Last(s, prev) = IF i = 1 THEN prev ELSE t[i - 1].id
      BY <1>1, <1>2, <2>2 DEF Last
    <3> QED BY <1>1, <2>2, <3>1
  <2> QED BY <1>1, <2>1, <2>2
<1>4. t # <<>>
  BY <1>1
<1> HIDE DEF t
<1>5. Last(t, prev) = e.id
  BY <1>1, <1>4 DEF Last
<1> QED BY <1>1, <1>3, <1>5 DEF Linked, t

LEMMA LinkedTail ==
    ASSUME NEW s \in Seq(Events), s # <<>>, NEW prev, NEW o, Linked(s, prev, o)
    PROVE  /\ Head(s) \in Events /\ Tail(s) \in Seq(Events) /\ Len(Tail(s)) = Len(s) - 1
           /\ Link(Head(s), prev, o) /\ Linked(Tail(s), Head(s).id, o)
           /\ Last(Tail(s), Head(s).id) = Last(s, prev)
<1> DEFINE t == Tail(s)
           n == Len(s)
<1>1. /\ n \in Nat \ {0} /\ Head(s) = s[1] /\ Head(s) \in Events /\ t \in Seq(Events) /\ Len(t) = n - 1
      /\ \A i \in 1..(n - 1) : t[i] = s[i + 1]
  OBVIOUS
<1>2. Link(Head(s), prev, o)
  BY <1>1 DEF Linked
<1>3. ASSUME NEW i \in 1..(n - 1) PROVE Link(t[i], IF i = 1 THEN Head(s).id ELSE t[i - 1].id, o)
  <2>1. i + 1 \in 1..n /\ i + 1 # 1 /\ (i + 1) - 1 = i /\ (i # 1 => i - 1 \in 1..(n - 1) /\ (i - 1) + 1 = i)
    BY <1>1
  <2>2. Link(s[i + 1], s[i].id, o)
    BY <2>1 DEF Linked
  <2>3. (IF i = 1 THEN Head(s).id ELSE t[i - 1].id) = s[i].id
    BY <1>1, <2>1
  <2> QED BY <1>1, <2>2, <2>3
<1>4. n # 1 => t[n - 1] = s[n]
  BY <1>1
<1> HIDE DEF t
<1>5. t = <<>> <=> n = 1
  BY <1>1
<1>6. Last(t, Head(s).id) = Last(s, prev)
  BY <1>1, <1>4, <1>5 DEF Last
<1> QED BY <1>1, <1>2, <1>3, <1>6 DEF Linked, t

LEMMA LinkedCons ==
    ASSUME NEW s \in Seq(Events), NEW e \in Events, NEW prev, NEW o, Link(e, prev, o), Linked(s, e.id, o)
    PROVE  /\ <<e>> \o s \in Seq(Events) /\ Linked(<<e>> \o s, prev, o)
           /\ Last(<<e>> \o s, prev) = Last(s, e.id)
<1> DEFINE t == <<e>> \o s
           n == Len(s)
<1>1. n \in Nat /\ t \in Seq(Events) /\ Len(t) = n + 1 /\ t[1] = e /\ \A i \in 1..n : t[i + 1] = s[i]
  BY ConcatProperties
<1>2. ASSUME NEW i \in 1..(n + 1) PROVE Link(t[i], IF i = 1 THEN prev ELSE t[i - 1].id, o)
  <2>1. CASE i = 1
    BY <1>1, <2>1
  <2>2. CASE i # 1
    <3>1. i - 1 \in 1..n /\ (i - 1) + 1 = i /\ (i - 1 # 1 => i - 2 \in 1..n /\ (i - 2) + 1 = i - 1 /\ (i - 1) - 1 = i - 2)
      BY <1>1, <2>2
    <3>2. t[i] = s[i - 1] /\ t[i - 1].id = IF i - 1 = 1 THEN e.id ELSE s[(i - 1) - 1].id
      BY <1>1, <3>1
    <3>3. Link(s[i - 1], IF i - 1 = 1 THEN e.id ELSE s[(i - 1) - 1].id, o)
      BY <3>1 DEF Linked
    <3> QED BY <2>2, <3>2, <3>3
  <2> QED BY <2>1, <2>2
<1>3. t # <<>> /\ (s = <<>> <=> n = 0) /\ (n # 0 => t[n + 1] = s[n])
  BY <1>1
<1> HIDE DEF t
<1>4. Last(t, prev) = Last(s, e.id)
  BY <1>1, <1>3 DEF Last
<1> QED BY <1>1, <1>2, <1>4 DEF Linked, t

LEMMA KnownCons ==
    ASSUME NEW s \in Seq(Events), NEW e \in Events, NEW last, Known(s, last), e.id <= last
    PROVE  Known(<<e>> \o s, last)
<1> DEFINE t == <<e>> \o s
           n == Len(s)
<1>1. n \in Nat /\ Len(t) = n + 1 /\ t[1] = e /\ \A i \in 1..n : t[i + 1] = s[i]
  BY ConcatProperties
<1>2. ASSUME NEW i \in 1..(n + 1) PROVE t[i].id <= last
  <2>1. CASE i = 1
    BY <1>1, <2>1
  <2>2. CASE i # 1
    <3>1. i - 1 \in 1..n /\ (i - 1) + 1 = i
      BY <1>1, <2>2
    <3>2. t[i] = s[i - 1]
      BY <1>1, <3>1
    <3> QED BY <3>1, <3>2 DEF Known
  <2> QED BY <2>1, <2>2
<1> QED BY <1>1, <1>2 DEF Known

LEMMA KnownAppend ==
    ASSUME NEW s \in Seq(Events), NEW e \in Events, NEW last, Known(s, last), e.id <= last
    PROVE  Known(Append(s, e), last)
<1> DEFINE t == Append(s, e)
           n == Len(s)
<1>1. n \in Nat /\ Len(t) = n + 1 /\ t[n + 1] = e /\ \A i \in 1..n : t[i] = s[i]
  OBVIOUS
<1>2. ASSUME NEW i \in 1..(n + 1) PROVE t[i].id <= last
  <2>1. CASE i = n + 1
    BY <1>1, <2>1
  <2>2. CASE i # n + 1
    <3>1. i \in 1..n
      BY <1>1, <2>2
    <3> QED BY <1>1, <3>1 DEF Known
  <2> QED BY <2>1, <2>2
<1> QED BY <1>1, <1>2 DEF Known

LEMMA KnownTail ==
    ASSUME NEW s \in Seq(Events), s # <<>>, NEW last, Known(s, last)
    PROVE  Head(s).id <= last /\ Known(Tail(s), last)
<1> DEFINE t == Tail(s)
           n == Len(s)
<1>1. n \in Nat \ {0} /\ Head(s) = s[1] /\ Len(t) = n - 1 /\ \A i \in 1..(n - 1) : t[i] = s[i + 1]
  OBVIOUS
<1>2. ASSUME NEW i \in 1..(n - 1) PROVE t[i].id <= last
  <2>1. i + 1 \in 1..n
    BY <1>1
  <2> QED BY <1>1, <2>1 DEF Known
<1>3. s[1].id <= last
  BY <1>1 DEF Known
<1> QED BY <1>1, <1>2, <1>3 DEF Known

LEMMA KnownMore ==
    ASSUME NEW s \in Seq(Events), NEW last \in Nat, Known(s, last)
    PROVE  Known(s, last + 1)
<1>1. \A i \in 1..Len(s) : s[i] \in Events
  OBVIOUS
<1>2. \A e \in Events : e.id \in Int
  BY EventsAssumption DEF Events, EventIds
<1> QED BY <1>1, <1>2 DEF Known

LEMMA KnownEmpty == \A last : Known(<<>>, last)
  BY DEF Known

-----------------------------------------------------------------------------
(* What the server keeps and replays.                                      *)

LEMMA EventTypes ==
    ASSUME NEW e \in Events
    PROVE  e.id \in 1..MaxEvents /\ e.id \in Nat /\ e.id >= 1 /\ e.id <= MaxEvents
  BY EventsAssumption DEF Events, EventIds

LEMMA NumberTypes ==
    ASSUME TypeOK
    PROVE  /\ nextEventID \in Nat /\ nextEventID <= MaxEvents /\ cursor \in Nat /\ cursor <= MaxEvents
           /\ events \in Seq(Events) /\ Len(events) \in Nat /\ Len(events) <= EventLimit /\ Oldest \in Int
           /\ wire \in Seq(Events) /\ channel.queue \in Seq(Events) /\ seen \in Seq(Events) /\ Len(seen) \in Nat
<1>1. channel.queue \in Seq(Events)
  BY DEF TypeOK
<1> QED BY <1>1, EventsAssumption DEF TypeOK, Oldest

LEMMA OldestIsFirst ==
    ASSUME TypeOK, Window, events # <<>>
    PROVE  Len(events) >= 1 /\ events[1].id = Oldest /\ Oldest >= 1 /\ Oldest <= nextEventID
<1>1. Len(events) \in Nat \ {0} /\ nextEventID \in Nat
  BY NumberTypes
<1>2. events[1].id = nextEventID - Len(events) + 1
  BY <1>1 DEF Window
<1> QED BY <1>1, <1>2 DEF Window, Oldest

(* The kept events past a cursor that is not ahead of the task.            *)
LEMMA PastEvents ==
    ASSUME TypeOK, Window, NEW after \in Nat, after <= nextEventID
    PROVE  /\ Past(after) \in Seq(Events) /\ Known(Past(after), nextEventID)
           /\ LET prev == IF after < Oldest THEN Oldest - 1 ELSE after
              IN  Linked(Past(after), prev, Oldest) /\ Last(Past(after), prev) = nextEventID
<1> DEFINE n == Len(events)
           P(i) == \A j \in 1..n : events[j].id > after <=> j >= i
           first == CHOOSE i \in 1..(n + 1) : P(i)
           w == IF after < Oldest THEN 1 ELSE after - Oldest + 2
           prev == IF after < Oldest THEN Oldest - 1 ELSE after
           t == SubSeq(events, first, n)
<1>1. events \in Seq(Events) /\ n \in Nat /\ nextEventID \in Nat /\ n <= nextEventID /\ Oldest = nextEventID - n + 1
  BY NumberTypes DEF Window, Oldest
<1>2. \A j \in 1..n : events[j].id = Oldest + j - 1 /\ events[j].type # "replay_overflow"
  BY <1>1 DEF Window
<1>3. w \in 1..(n + 1) /\ P(w)
  <2>1. w \in 1..(n + 1)
    BY <1>1
  <2>2. ASSUME NEW j \in 1..n PROVE events[j].id > after <=> j >= w
    BY <1>1, <1>2
  <2> QED BY <2>1, <2>2
<1>4. first \in 1..(n + 1) /\ P(first)
  BY <1>3
<1>5. first = w
  <2>1. ASSUME first < w PROVE FALSE
    <3>1. first \in 1..n
      BY <1>1, <1>3, <1>4, <2>1
    <3> QED BY <1>1, <1>3, <1>4, <2>1, <3>1
  <2>2. ASSUME w < first PROVE FALSE
    <3>1. w \in 1..n
      BY <1>1, <1>3, <1>4, <2>2
    <3>2. events[w].id > after
      BY <1>1, <1>3, <3>1
    <3>3. w >= first
      BY <1>4, <3>1, <3>2
    <3> QED BY <1>1, <1>3, <1>4, <2>2, <3>3
  <2> QED BY <1>1, <1>3, <1>4, <2>1, <2>2
<1>6. Past(after) = t
  BY DEF Past
<1> HIDE DEF first, P
<1>7. /\ t \in Seq(Events) /\ Len(t) = n - first + 1
      /\ \A i \in 1..(n - first + 1) : t[i] = events[first + i - 1]
  <2>1. CASE first <= n
    <3>1. first \in 1..(n + 1) /\ n \in first - 1..n
      BY <1>1, <1>4, <2>1
    <3> QED BY <1>1, <1>4, <3>1, SubSeqProperties
  <2>2. CASE first = n + 1
    <3>1. first \in 1..(n + 1) /\ n \in first - 1..n
      BY <1>1, <1>4, <2>2
    <3> QED BY <1>1, <1>4, <3>1, SubSeqProperties
  <2> QED BY <1>1, <1>4, <2>1, <2>2
<1>8. ASSUME NEW i \in 1..(n - first + 1)
      PROVE  t[i] = events[first + i - 1] /\ t[i].id = Oldest + first + i - 2 /\ t[i].type # "replay_overflow"
  <2>1. first + i - 1 \in 1..n
    BY <1>1, <1>4
  <2> QED BY <1>1, <1>2, <1>4, <1>7, <2>1
<1>9. prev = Oldest + first - 2
  <2>0. Oldest \in Int /\ after \in Int
    BY <1>1
  <2>1. CASE after < Oldest
    <3>1. first = 1 /\ prev = Oldest - 1
      BY <1>5, <2>1
    <3> HIDE DEF prev
    <3> QED BY <2>0, <3>1
  <2>2. CASE ~(after < Oldest)
    <3>1. first = after - Oldest + 2 /\ prev = after
      BY <1>5, <2>2
    <3> HIDE DEF prev
    <3> QED BY <2>0, <3>1
  <2> QED BY <2>1, <2>2
<1> HIDE DEF t, prev, w
<1>10. Linked(t, prev, Oldest)
  <2> SUFFICES ASSUME NEW i \in 1..(n - first + 1)
               PROVE  Link(t[i], IF i = 1 THEN prev ELSE t[i - 1].id, Oldest)
    BY <1>7 DEF Linked
  <2>1. CASE i = 1
    BY <1>1, <1>4, <1>8, <1>9, <2>1 DEF Link
  <2>2. CASE i # 1
    <3>1. i - 1 \in 1..(n - first + 1)
      BY <1>1, <1>4, <2>2
    <3>2. t[i - 1].id = Oldest + first + (i - 1) - 2
      BY <1>8, <3>1
    <3>3. t[i].id = t[i - 1].id + 1
      BY <1>1, <1>4, <1>8, <3>2
    <3> QED BY <1>8, <2>2, <3>3 DEF Link
  <2> QED BY <2>1, <2>2
<1>11. Last(t, prev) = nextEventID
  <2>1. CASE first = n + 1
    <3>1. t = <<>>
      BY <1>1, <1>7, <2>1
    <3> QED BY <1>1, <1>9, <2>1, <3>1 DEF Last
  <2>2. CASE first # n + 1
    <3>1. n - first + 1 \in 1..(n - first + 1) /\ t # <<>>
      BY <1>1, <1>4, <1>7, <2>2
    <3>2. t[n - first + 1].id = Oldest + first + (n - first + 1) - 2
      BY <1>8, <3>1
    <3> QED BY <1>1, <1>4, <1>7, <3>1, <3>2 DEF Last
  <2> QED BY <2>1, <2>2
<1>12. Known(t, nextEventID)
  <2> SUFFICES ASSUME NEW i \in 1..(n - first + 1) PROVE t[i].id <= nextEventID
    BY <1>7 DEF Known
  <2> QED BY <1>1, <1>4, <1>8
<1> QED BY <1>6, <1>7, <1>10, <1>11, <1>12 DEF prev

LEMMA ReplayEvents ==
    ASSUME TypeOK, Window, NEW after \in Nat, after <= nextEventID
    PROVE  /\ Replay(after) \in Seq(Events) /\ Linked(Replay(after), after, Oldest)
           /\ Known(Replay(after), nextEventID) /\ Last(Replay(after), after) = nextEventID
<1> DEFINE prev == IF after < Oldest THEN Oldest - 1 ELSE after
           mark == [id |-> Oldest - 1, type |-> "replay_overflow"]
<1>0. nextEventID \in Nat /\ nextEventID <= MaxEvents /\ Oldest \in Int /\ events \in Seq(Events)
  BY NumberTypes
<1>1. /\ Past(after) \in Seq(Events) /\ Known(Past(after), nextEventID)
      /\ Linked(Past(after), prev, Oldest) /\ Last(Past(after), prev) = nextEventID
  BY PastEvents
<1>2. CASE events # <<>> /\ after < events[1].id - 1
  <2>1. Replay(after) = <<mark>> \o Past(after) /\ after < Oldest - 1 /\ Oldest <= nextEventID
    BY <1>2, OldestIsFirst DEF Replay
  <2>2. mark \in Events /\ mark.id = Oldest - 1 /\ mark.type = "replay_overflow"
    <3>1. Oldest - 1 \in EventIds
      BY <1>0, <2>1, EventsAssumption DEF EventIds
    <3> QED BY <3>1 DEF Events
  <2>3. prev = mark.id /\ Link(mark, after, Oldest)
    BY <1>0, <2>1, <2>2 DEF Link
  <2>4. mark.id <= nextEventID
    BY <1>0, <2>1, <2>2
  <2> HIDE DEF mark, prev
  <2> QED BY <1>1, <2>1, <2>2, <2>3, <2>4, LinkedCons, KnownCons
<1>3. CASE ~(events # <<>> /\ after < events[1].id - 1)
  <2>1. Replay(after) = Past(after)
    BY <1>3 DEF Replay
  <2>2. prev = after
    <3>1. CASE events = <<>>
      <4>1. nextEventID = 0 /\ Len(events) = 0
        BY <1>0, <3>1 DEF Window
      <4> QED BY <4>1 DEF Oldest
    <3>2. CASE events # <<>>
      BY <1>0, <1>3, <3>2, OldestIsFirst
    <3> QED BY <3>1, <3>2
  <2> HIDE DEF prev
  <2> QED BY <1>1, <2>1, <2>2
<1> QED BY <1>2, <1>3

(* What publish keeps.                                                     *)
LEMMA KeptEvents ==
    ASSUME TypeOK, Window, NEW e \in Events, e.id = nextEventID + 1, e.type # "replay_overflow",
           nextEventID' = nextEventID + 1, events' = Kept(Append(events, e))
    PROVE  /\ events' \in Seq(Events) /\ Len(events') <= EventLimit
           /\ Window' /\ Oldest <= Oldest' /\ Oldest' \in Int
<1> DEFINE all == Append(events, e)
           n == Len(events)
<1>1. events \in Seq(Events) /\ n \in Nat /\ nextEventID \in Nat /\ n <= nextEventID /\ n <= EventLimit
  BY NumberTypes DEF Window
<1>2. EventLimit \in Nat \ {0}
  BY EventsAssumption
<1>3. all \in Seq(Events) /\ Len(all) = n + 1 /\ all[n + 1] = e /\ \A i \in 1..n : all[i] = events[i]
  BY <1>1
<1>4. \A i \in 1..(n + 1) : all[i].id = nextEventID - n + i /\ all[i].type # "replay_overflow"
  <2> SUFFICES ASSUME NEW i \in 1..(n + 1) PROVE all[i].id = nextEventID - n + i /\ all[i].type # "replay_overflow"
    OBVIOUS
  <2>1. CASE i = n + 1
    BY <1>1, <1>3, <2>1
  <2>2. CASE i # n + 1
    <3>1. i \in 1..n
      BY <1>1, <2>2
    <3> QED BY <1>3, <3>1 DEF Window
  <2> QED BY <2>1, <2>2
<1> HIDE DEF all
<1>5. events' = Kept(all)
  BY DEF all
<1>6. CASE n + 1 <= EventLimit
  <2>1. events' = all
    BY <1>1, <1>2, <1>3, <1>5, <1>6 DEF Kept
  <2>2. Len(events') = n + 1 /\ events' # <<>>
    BY <1>1, <1>3, <2>1
  <2>3. \A i \in 1..Len(events') : events'[i].id = nextEventID' - Len(events') + i /\ events'[i].type # "replay_overflow"
    BY <1>1, <1>4, <2>1, <2>2
  <2>4. Window'
    BY <1>1, <2>2, <2>3 DEF Window
  <2> QED BY <1>1, <1>3, <1>6, <2>1, <2>2, <2>4 DEF Oldest
<1>7. CASE ~(n + 1 <= EventLimit)
  <2>0. n = EventLimit /\ Len(all) > EventLimit /\ Len(all) - EventLimit + 1 = 2
    BY <1>1, <1>2, <1>3, <1>7
  <2>1. n = EventLimit /\ events' = SubSeq(all, 2, n + 1)
    <3>1. events' = SubSeq(all, Len(all) - EventLimit + 1, Len(all))
      BY <1>5, <2>0 DEF Kept
    <3> QED BY <1>3, <2>0, <3>1
  <2>2. 2 \in Int /\ n + 1 \in Int /\ 2 <= n + 1 /\ (n + 1) - 2 + 1 = n /\ \A i \in 2..(n + 1) : all[i] \in Events
    BY <1>1, <1>2, <1>3, <2>1
  <2>3. events' \in Seq(Events) /\ Len(events') = n /\ \A i \in 1..n : events'[i] = all[2 + i - 1]
    BY <2>1, <2>2, SubSeqProperties
  <2>4. ASSUME NEW i \in 1..n
        PROVE  events'[i].id = nextEventID' - n + i /\ events'[i].type # "replay_overflow"
    <3>1. i + 1 \in 1..(n + 1) /\ 2 + i - 1 = i + 1
      BY <1>1
    <3> QED BY <1>1, <1>4, <2>3, <3>1
  <2>5. events' # <<>>
    BY <1>1, <1>2, <2>1, <2>3
  <2>6. Window'
    BY <1>1, <2>3, <2>4, <2>5 DEF Window
  <2> QED BY <1>1, <2>1, <2>3, <2>6 DEF Oldest
<1> QED BY <1>6, <1>7

-----------------------------------------------------------------------------
(* The steps.                                                              *)

Channels == [queue : Seq(Events), capacity : Nat, open : BOOLEAN]

LEMMA OfferedChannel ==
    ASSUME NEW ch \in Channels, Len(ch.queue) <= ch.capacity, NEW e \in Events
    PROVE  /\ Offered(ch, e) \in Channels /\ Len(Offered(ch, e).queue) <= Offered(ch, e).capacity
           /\ Offered(ch, e).open => ch.open
           /\ \/ Offered(ch, e).queue = ch.queue /\ ~Offered(ch, e).open
              \/ ch.open /\ Offered(ch, e).queue = Append(ch.queue, e)
<1>1. ch.queue \in Seq(Events) /\ ch.capacity \in Nat /\ ch.open \in BOOLEAN
  BY DEF Channels
<1>2. CASE ~ch.open
  BY <1>1, <1>2 DEF Offered
<1>3. CASE ch.open /\ Len(ch.queue) < ch.capacity
  <2> DEFINE q == Append(ch.queue, e)
  <2>1. q \in Seq(Events) /\ Len(q) = Len(ch.queue) + 1 /\ Len(ch.queue) \in Nat
    BY <1>1
  <2>2. Offered(ch, e) = [ch EXCEPT !.queue = q]
    BY <1>3 DEF Offered
  <2> HIDE DEF q
  <2>3. Offered(ch, e) \in Channels /\ Offered(ch, e).queue = q /\ Offered(ch, e).capacity = ch.capacity
    BY <2>1, <2>2 DEF Channels
  <2> QED BY <1>1, <1>3, <2>1, <2>3 DEF q
<1>4. CASE ch.open /\ ~(Len(ch.queue) < ch.capacity)
  <2>1. Offered(ch, e) = [ch EXCEPT !.open = FALSE]
    BY <1>4 DEF Offered
  <2>2. /\ Offered(ch, e) \in Channels /\ Offered(ch, e).queue = ch.queue /\ Offered(ch, e).capacity = ch.capacity
        /\ Offered(ch, e).open = FALSE
    BY <2>1 DEF Channels
  <2> QED BY <2>2
<1> QED BY <1>2, <1>3, <1>4

LEMMA PublishKept == ASSUME Inv, NEW type \in {"progress", "terminal"}, Publish(type) PROVE Inv'
<1> DEFINE e == [id |-> nextEventID + 1, type |-> type]
           offered == Offered(channel, e)
<1>1. /\ nextEventID + 1 <= MaxEvents /\ nextEventID' = nextEventID + 1 /\ events' = Kept(Append(events, e))
      /\ terminal' = (type = "terminal")
      /\ channel' = IF type = "terminal" THEN [offered EXCEPT !.open = FALSE] ELSE offered
      /\ UNCHANGED <<pruned, wire, closed, client, cursor, seen, cuts>>
  <2>1. nextEventID \in Nat /\ MaxEvents \in Nat
    BY NumberTypes, EventsAssumption DEF Inv
  <2>2. nextEventID + 1 <= MaxEvents
    BY <2>1 DEF Publish
  <2> QED BY <2>2 DEF Publish
<1>2. nextEventID \in Nat /\ cursor \in Nat /\ cursor <= nextEventID /\ Oldest \in Int /\ wire \in Seq(Events)
  BY NumberTypes DEF Inv, Cursor
<1>3. e \in Events /\ e.id = nextEventID + 1 /\ e.type # "replay_overflow"
  <2>1. nextEventID + 1 \in EventIds
    BY <1>1, <1>2, EventsAssumption DEF EventIds
  <2> QED BY <2>1 DEF Events
<1> HIDE DEF e
<1>4. /\ events' \in Seq(Events) /\ Len(events') <= EventLimit
      /\ Window' /\ Oldest <= Oldest' /\ Oldest' \in Int
  BY <1>1, <1>3, KeptEvents DEF Inv
<1>5. channel \in Channels /\ Len(channel.queue) <= channel.capacity
  BY DEF Inv, TypeOK, Channels
<1>6. /\ channel' \in Channels /\ Len(channel'.queue) <= channel'.capacity
      /\ \/ channel'.queue = channel.queue /\ ~channel'.open
         \/ channel.open /\ channel'.queue = Append(channel.queue, e)
  <2>1. /\ offered \in Channels /\ Len(offered.queue) <= offered.capacity
        /\ \/ offered.queue = channel.queue /\ ~offered.open
           \/ channel.open /\ offered.queue = Append(channel.queue, e)
    BY <1>3, <1>5, OfferedChannel
  <2> HIDE DEF offered
  <2>2. CASE type = "terminal"
    <3>1. channel' = [offered EXCEPT !.open = FALSE]
      BY <1>1, <2>2
    <3>2. channel' \in Channels /\ channel'.queue = offered.queue /\ channel'.capacity = offered.capacity /\ channel'.open = FALSE
      BY <2>1, <3>1 DEF Channels
    <3> QED BY <2>1, <3>2
  <2>3. CASE type # "terminal"
    BY <1>1, <2>1, <2>3
  <2> QED BY <2>2, <2>3
<1>7. TypeOK'
  <2>1. nextEventID' \in 0..MaxEvents /\ terminal' \in BOOLEAN
    BY <1>1, <1>2, EventsAssumption
  <2> QED BY <1>1, <1>4, <1>6, <2>1 DEF Inv, TypeOK, Channels
<1>8. Stream'
  <2> DEFINE q == channel.queue
             l == Last(wire, cursor)
  <2>1. /\ Linked(wire, cursor, Oldest) /\ Linked(q, l, Oldest) /\ Known(wire, nextEventID) /\ Known(q, nextEventID)
        /\ channel.open => Last(q, l) = nextEventID
    BY DEF Inv, Stream
  <2>2. q \in Seq(Events) /\ l \in Nat
    <3>1. wire # <<>> => Len(wire) \in 1..Len(wire) /\ wire[Len(wire)] \in Events
      BY <1>2
    <3>2. l \in Nat
      BY <1>2, <3>1, EventTypes DEF Last
    <3> QED BY <1>5, <3>2 DEF Channels
  <2>3. Linked(wire, cursor, Oldest') /\ Linked(q, l, Oldest')
    BY <1>2, <1>4, <2>1, <2>2, LinkedMore
  <2>4. Known(wire, nextEventID') /\ Known(q, nextEventID')
    BY <1>1, <1>2, <2>1, <2>2, KnownMore
  <2>5. wire' = wire /\ cursor' = cursor /\ Last(wire', cursor') = l
    BY <1>1
  <2> HIDE DEF l, q
  <2>6. CASE channel'.queue = q /\ ~channel'.open
    BY <2>3, <2>4, <2>5, <2>6 DEF Stream
  <2>7. CASE channel.open /\ channel'.queue = Append(q, e)
    <3>1. Last(q, l) = nextEventID
      BY <2>1, <2>7
    <3>2. Link(e, Last(q, l), Oldest')
      BY <1>3, <3>1 DEF Link
    <3>3. Linked(channel'.queue, l, Oldest') /\ Last(channel'.queue, l) = e.id
      BY <1>3, <2>2, <2>3, <2>7, <3>2, LinkedAppend
    <3>4. e.id <= nextEventID'
      BY <1>1, <1>2, <1>3
    <3>5. Known(channel'.queue, nextEventID')
      BY <1>3, <2>2, <2>4, <2>7, <3>4, KnownAppend
    <3> QED BY <1>1, <1>3, <2>3, <2>4, <2>5, <3>3, <3>5 DEF Stream
  <2> QED BY <1>6, <2>6, <2>7 DEF q
<1>9. Cursor' /\ client' # "protocolError"
  BY <1>1, <1>2 DEF Inv, Cursor
<1>10. Marked'
  <2>1. Seen' = Seen /\ cursor' = cursor /\ seen' = seen
    BY <1>1 DEF Seen
  <2>2. \A id \in (1..cursor) \ Seen : id \in Int /\ (id < Oldest => id < Oldest')
    BY <1>2, <1>4
  <2> QED BY <2>1, <2>2 DEF Inv, Marked
<1> QED BY <1>4, <1>7, <1>8, <1>9, <1>10 DEF Inv


(* Once the connection is gone, nothing is on its way.                     *)
LEMMA DisconnectedStream ==
    ASSUME Disconnected
    PROVE  /\ Stream' /\ channel' \in Channels /\ Len(channel'.queue) <= channel'.capacity
           /\ wire' \in Seq(Events) /\ Len(wire') <= WireSize /\ closed' \in BOOLEAN
<1>1. channel' = NoChannel /\ wire' = <<>> /\ closed' = TRUE
  BY DEF Disconnected
<1>2. NoChannel.queue = <<>> /\ NoChannel.capacity = 0 /\ NoChannel.open = FALSE
  BY DEF NoChannel
<1>3. <<>> \in Seq(Events) /\ Len(<<>>) = 0
  OBVIOUS
<1>4. NoChannel \in Channels
  BY <1>3 DEF NoChannel, Channels
<1>5. Stream'
  BY <1>1, <1>2, LinkedEmpty, KnownEmpty DEF Stream
<1> QED BY <1>1, <1>2, <1>3, <1>4, <1>5, EventsAssumption

(* The history of the client depends on these variables only.              *)
LEMMA HistoryKept ==
    ASSUME Inv, UNCHANGED <<server, cursor, seen>>
    PROVE  Window' /\ Cursor' /\ Marked' /\ Oldest' = Oldest
<1>1. nextEventID' = nextEventID /\ events' = events
  BY DEF server
<1>2. Seen' = Seen
  BY DEF Seen
<1>3. Oldest' = Oldest
  BY <1>1 DEF Oldest
<1>4. Window' /\ Cursor'
  BY <1>1 DEF Inv, Window, Cursor
<1> QED BY <1>2, <1>3, <1>4 DEF Inv, Marked

LEMMA PruneKept == ASSUME Inv, Prune PROVE Inv'
<1>1. /\ UNCHANGED <<nextEventID, events, terminal, channel, wire, closed, client, cursor, seen, cuts>>
      /\ pruned' \in BOOLEAN
  BY DEF Prune, connection
<1>2. Seen' = Seen /\ Oldest' = Oldest
  BY <1>1 DEF Seen, Oldest
<1>3. TypeOK' /\ client' # "protocolError" /\ Window' /\ Cursor'
  BY <1>1 DEF Inv, TypeOK, Window, Cursor
<1>4. Stream' /\ Marked'
  BY <1>1, <1>2 DEF Inv, Stream, Marked
<1> QED BY <1>3, <1>4 DEF Inv

LEMMA SubscribeKept == ASSUME Inv, Subscribe PROVE Inv'
<1>1. UNCHANGED <<nextEventID, events, terminal, pruned, cursor, seen, cuts>> /\ UNCHANGED <<server, cursor, seen>>
  BY DEF Subscribe, server
<1>2. Window' /\ Cursor' /\ Marked' /\ Oldest' = Oldest
  BY <1>1, HistoryKept
<1>3. CASE pruned \/ cursor > nextEventID
  <2>1. client' = "lost" /\ channel' = channel /\ wire' = wire /\ closed' = closed
    BY <1>3 DEF Subscribe, connection
  <2>2. TypeOK' /\ client' # "protocolError"
    BY <1>1, <2>1 DEF Inv, TypeOK
  <2>3. Stream'
    BY <1>1, <1>2, <2>1 DEF Inv, Stream
  <2> QED BY <1>2, <2>2, <2>3 DEF Inv
<1>4. CASE ~(pruned \/ cursor > nextEventID)
  <2> DEFINE replay == Replay(cursor)
             size == IF Len(replay) > SubscriberSize THEN Len(replay) ELSE SubscriberSize
  <2>1. /\ channel' = [queue |-> replay, capacity |-> size, open |-> ~terminal]
        /\ wire' = <<>> /\ closed' = FALSE /\ client' = "streaming"
    BY <1>4 DEF Subscribe
  <2>2. TypeOK /\ Window /\ cursor \in Nat /\ cursor <= nextEventID
    BY NumberTypes DEF Inv, Cursor
  <2>3. /\ replay \in Seq(Events) /\ Linked(replay, cursor, Oldest)
        /\ Known(replay, nextEventID) /\ Last(replay, cursor) = nextEventID
    BY <2>2, ReplayEvents
  <2> HIDE DEF replay
  <2>4. size \in Nat /\ Len(replay) <= size
    <3>1. Len(replay) \in Nat /\ SubscriberSize \in Nat
      BY <2>3, EventsAssumption
    <3> QED BY <3>1
  <2> HIDE DEF size
  <2>5. terminal \in BOOLEAN
    BY <2>2 DEF TypeOK
  <2>6. channel' \in Channels /\ channel'.queue = replay /\ channel'.capacity = size
    BY <2>1, <2>3, <2>4, <2>5 DEF Channels
  <2>7. <<>> \in Seq(Events) /\ Len(<<>>) = 0 /\ 0 <= WireSize
    BY EventsAssumption
  <2>8. TypeOK' /\ client' # "protocolError"
    BY <1>1, <2>1, <2>2, <2>4, <2>6, <2>7 DEF TypeOK, Channels
  <2>9. Stream'
    BY <1>1, <1>2, <2>1, <2>3, <2>6, LinkedEmpty, KnownEmpty DEF Stream
  <2> QED BY <1>2, <2>8, <2>9 DEF Inv
<1> QED BY <1>3, <1>4

LEMMA ForwardKept == ASSUME Inv, Forward PROVE Inv'
<1> DEFINE q == channel.queue
           e == Head(q)
           l == Last(wire, cursor)
<1>1. /\ q # <<>> /\ Len(wire) < WireSize /\ wire' = Append(wire, e) /\ channel' = [channel EXCEPT !.queue = Tail(q)]
      /\ UNCHANGED <<nextEventID, events, terminal, pruned, closed, client, cursor, seen, cuts>>
      /\ UNCHANGED <<server, cursor, seen>>
  BY DEF Forward, server
<1>2. Window' /\ Cursor' /\ Marked' /\ Oldest' = Oldest
  BY <1>1, HistoryKept
<1>3. channel \in Channels /\ Len(q) <= channel.capacity /\ q \in Seq(Events) /\ wire \in Seq(Events)
  BY NumberTypes DEF Inv, TypeOK, Channels
<1>4. /\ Linked(wire, cursor, Oldest) /\ Linked(q, l, Oldest) /\ Known(wire, nextEventID) /\ Known(q, nextEventID)
      /\ channel.open => Last(q, l) = nextEventID
  BY DEF Inv, Stream
<1> HIDE DEF q, l
<1>5. /\ e \in Events /\ Tail(q) \in Seq(Events) /\ Len(Tail(q)) = Len(q) - 1 /\ Link(e, l, Oldest)
      /\ Linked(Tail(q), e.id, Oldest) /\ Last(Tail(q), e.id) = Last(q, l)
  BY <1>1, <1>3, <1>4, LinkedTail
<1>6. e.id <= nextEventID /\ Known(Tail(q), nextEventID)
  BY <1>1, <1>3, <1>4, KnownTail
<1> HIDE DEF e
<1>7. Linked(wire', cursor, Oldest) /\ Last(wire', cursor) = e.id /\ Known(wire', nextEventID)
  <2>1. Link(e, Last(wire, cursor), Oldest)
    BY <1>5 DEF l
  <2> QED BY <1>1, <1>3, <1>4, <1>5, <1>6, <2>1, LinkedAppend, KnownAppend
<1>8. channel' \in Channels /\ channel'.queue = Tail(q) /\ channel'.capacity = channel.capacity /\ channel'.open = channel.open
  BY <1>1, <1>3, <1>5 DEF Channels
<1>9. Len(channel'.queue) <= channel'.capacity
  <2>1. Len(q) \in Nat /\ channel.capacity \in Nat
    BY <1>3 DEF Channels
  <2> QED BY <1>3, <1>5, <1>8, <2>1
<1>10. wire' \in Seq(Events) /\ Len(wire') <= WireSize
  BY <1>1, <1>3, <1>5, EventsAssumption
<1>11. TypeOK' /\ client' # "protocolError"
  BY <1>1, <1>8, <1>9, <1>10 DEF Inv, TypeOK, Channels
<1>12. Stream'
  BY <1>1, <1>2, <1>4, <1>5, <1>6, <1>7, <1>8 DEF Stream
<1> QED BY <1>2, <1>11, <1>12 DEF Inv

LEMMA HandlerReturnsKept == ASSUME Inv, HandlerReturns PROVE Inv'
<1>1. /\ UNCHANGED <<nextEventID, events, terminal, pruned, channel, wire, client, cursor, seen, cuts>>
      /\ UNCHANGED <<server, cursor, seen>> /\ closed' \in BOOLEAN
  BY DEF HandlerReturns, server
<1>2. Window' /\ Cursor' /\ Marked' /\ Oldest' = Oldest
  BY <1>1, HistoryKept
<1>3. TypeOK' /\ client' # "protocolError"
  BY <1>1 DEF Inv, TypeOK
<1>4. Stream'
  BY <1>1, <1>2 DEF Inv, Stream
<1> QED BY <1>2, <1>3, <1>4 DEF Inv

LEMMA StreamEndsKept == ASSUME Inv, StreamEnds PROVE Inv'
<1>1. /\ UNCHANGED <<nextEventID, events, terminal, pruned, cursor, seen, cuts>>
      /\ UNCHANGED <<server, cursor, seen>> /\ client' = "reconnecting" /\ Disconnected
  BY DEF StreamEnds, server
<1>2. Window' /\ Cursor' /\ Marked'
  BY <1>1, HistoryKept
<1>3. TypeOK' /\ client' # "protocolError"
  BY <1>1, DisconnectedStream DEF Inv, TypeOK, Channels
<1> QED BY <1>1, <1>2, <1>3, DisconnectedStream DEF Inv

LEMMA CutKept == ASSUME Inv, Cut PROVE Inv'
<1>1. /\ UNCHANGED <<nextEventID, events, terminal, pruned, cursor, seen>>
      /\ UNCHANGED <<server, cursor, seen>> /\ client' = "reconnecting" /\ Disconnected
  BY DEF Cut, server
<1>2. Window' /\ Cursor' /\ Marked'
  BY <1>1, HistoryKept
<1>3. cuts' \in 0..MaxCuts
  BY EventsAssumption DEF Cut, Inv, TypeOK
<1>4. TypeOK' /\ client' # "protocolError"
  BY <1>1, <1>3, DisconnectedStream DEF Inv, TypeOK, Channels
<1> QED BY <1>1, <1>2, <1>4, DisconnectedStream DEF Inv


(* The client takes an event that follows what it has: a gap is marked by  *)
(* the very event that closes it.                                          *)
LEMMA TakenMarked ==
    ASSUME Inv, NEW e \in Events, Link(e, cursor, Oldest), e.id <= nextEventID,
           cursor' = e.id, seen' = Append(seen, e), UNCHANGED server
    PROVE  seen' \in Seq(Events) /\ Window' /\ Cursor' /\ Marked' /\ Oldest' = Oldest
<1> DEFINE n == Len(seen)
<1>1. /\ nextEventID \in Nat /\ cursor \in Nat /\ Oldest \in Int /\ seen \in Seq(Events) /\ n \in Nat
      /\ e.id \in Nat /\ nextEventID' = nextEventID /\ events' = events
  BY NumberTypes, EventTypes DEF Inv, server
<1>2. Oldest' = Oldest /\ Window'
  BY <1>1 DEF Inv, Window, Oldest
<1>3. seen' \in Seq(Events) /\ Len(seen') = n + 1 /\ seen'[n + 1] = e /\ \A i \in 1..n : seen'[i] = seen[i]
  BY <1>1
<1>4. seen' # <<>>
  BY <1>1, <1>3
<1>5. Cursor'
  BY <1>1, <1>3, <1>4 DEF Cursor
<1>6. Seen = {seen[i].id : i \in {j \in 1..n : seen[j].type # "replay_overflow"}}
  BY <1>1 DEF Seen
<1>7. Seen' = {seen'[i].id : i \in {j \in 1..(n + 1) : seen'[j].type # "replay_overflow"}}
  <2>1. DOMAIN seen' = 1..(n + 1)
    BY <1>3
  <2> QED BY <2>1 DEF Seen
<1>8. Seen \subseteq Seen' /\ (e.type # "replay_overflow" => e.id \in Seen')
  <2>1. ASSUME NEW i \in 1..n, seen[i].type # "replay_overflow" PROVE seen[i].id \in Seen'
    <3>1. i \in 1..(n + 1) /\ seen'[i] = seen[i]
      BY <1>1, <1>3
    <3> QED BY <1>7, <2>1, <3>1
  <2>2. n + 1 \in 1..(n + 1)
    BY <1>1
  <2>3. e.type # "replay_overflow" => e.id \in Seen'
    BY <1>3, <1>7, <2>2
  <2> QED BY <1>6, <2>1, <2>3
<1>9. ASSUME NEW id \in (1..cursor') \ Seen'
      PROVE  /\ id < Oldest'
             /\ \E i \in 1..Len(seen') :
                   /\ seen'[i].type = "replay_overflow" /\ id <= seen'[i].id
                   /\ i > 1 => seen'[i - 1].id < id
  <2>0. id \in Nat /\ id >= 1 /\ id <= e.id /\ id \notin Seen
    BY <1>1, <1>8
  <2>1. CASE id <= cursor
    <3>1. id \in (1..cursor) \ Seen
      BY <1>1, <2>0, <2>1
    <3>2. id < Oldest
      BY <3>1 DEF Inv, Marked
    <3>3. PICK i \in 1..n : /\ seen[i].type = "replay_overflow" /\ id <= seen[i].id
                            /\ i > 1 => seen[i - 1].id < id
      BY <3>1 DEF Inv, Marked
    <3>4. i \in 1..(n + 1) /\ seen'[i] = seen[i] /\ (i > 1 => seen'[i - 1] = seen[i - 1])
      <4>1. i > 1 => i - 1 \in 1..n
        BY <1>1
      <4> QED BY <1>1, <1>3, <4>1
    <3>5. seen'[i].type = "replay_overflow" /\ id <= seen'[i].id /\ (i > 1 => seen'[i - 1].id < id)
      BY <3>3, <3>4
    <3> QED BY <1>2, <1>3, <3>2, <3>4, <3>5
  <2>2. CASE cursor < id
    <3>1. e.type = "replay_overflow"
      <4>1. SUFFICES ASSUME e.type # "replay_overflow" PROVE FALSE
        OBVIOUS
      <4>2. e.id = cursor + 1 /\ e.id \in Seen'
        BY <1>8, <4>1 DEF Link
      <4>3. id = e.id
        BY <1>1, <2>0, <2>2, <4>2
      <4> QED BY <4>2, <4>3
    <3>2. e.id < Oldest
      BY <3>1 DEF Link
    <3>3. id < Oldest'
      BY <1>1, <1>2, <2>0, <3>2
    <3>4. n + 1 \in 1..Len(seen') /\ seen'[n + 1].type = "replay_overflow" /\ id <= seen'[n + 1].id
      BY <1>1, <1>3, <2>0, <3>1
    <3>5. n + 1 > 1 => seen'[(n + 1) - 1].id < id
      <4>1. SUFFICES ASSUME n + 1 > 1 PROVE seen'[(n + 1) - 1].id < id
        OBVIOUS
      <4>2. (n + 1) - 1 = n /\ n \in 1..n /\ seen # <<>>
        BY <1>1, <4>1
      <4>3. seen[n].id = cursor
        BY <4>2 DEF Inv, Cursor
      <4> QED BY <1>3, <2>2, <4>2, <4>3
    <3> QED BY <3>3, <3>4, <3>5
  <2> QED BY <1>1, <2>0, <2>1, <2>2
<1>10. Marked'
  BY <1>9 DEF Marked
<1> QED BY <1>2, <1>3, <1>5, <1>10

LEMMA ReceiveKept == ASSUME Inv, Receive PROVE Inv'
<1> DEFINE e == Head(wire)
<1>1. client = "streaming" /\ wire # <<>> /\ UNCHANGED server /\ UNCHANGED <<nextEventID, events, terminal, pruned, cuts>>
  BY DEF Receive, server
<1>2. /\ nextEventID \in Nat /\ nextEventID <= MaxEvents /\ cursor \in Nat /\ Oldest \in Int /\ wire \in Seq(Events)
      /\ Len(wire) \in Nat /\ Len(wire) <= WireSize /\ WireSize \in Nat
  BY NumberTypes, EventsAssumption DEF Inv, TypeOK
<1>3. Linked(wire, cursor, Oldest) /\ Known(wire, nextEventID)
  BY DEF Inv, Stream
<1>4. /\ e \in Events /\ Tail(wire) \in Seq(Events) /\ Len(Tail(wire)) = Len(wire) - 1 /\ Link(e, cursor, Oldest)
      /\ Linked(Tail(wire), e.id, Oldest) /\ Last(Tail(wire), e.id) = Last(wire, cursor)
  BY <1>1, <1>2, <1>3, LinkedTail
<1>5. e.id <= nextEventID /\ Known(Tail(wire), nextEventID)
  BY <1>1, <1>2, <1>3, KnownTail
<1>6. e.id \in Nat /\ e.id <= MaxEvents /\ e.id \in 0..MaxEvents
  <2>1. e.id \in Nat /\ e.id <= MaxEvents /\ MaxEvents \in Nat
    BY <1>4, EventTypes, EventsAssumption
  <2> QED BY <2>1
<1>7. Expected(e)
  <2>1. e.type = "replay_overflow" => e.id > cursor
    BY <1>2, <1>4, <1>6 DEF Link
  <2>2. e.type # "replay_overflow" => e.id = cursor + 1
    BY <1>4 DEF Link
  <2> QED BY <2>1, <2>2 DEF Expected
<1>8. cursor' = e.id /\ seen' = Append(seen, e)
  BY <1>7 DEF Receive
<1>9. seen' \in Seq(Events) /\ Window' /\ Cursor' /\ Marked' /\ Oldest' = Oldest
  BY <1>1, <1>4, <1>5, <1>8, TakenMarked
<1>10. CASE e.type # "terminal"
  <2>1. wire' = Tail(wire) /\ UNCHANGED <<channel, closed, client>>
    BY <1>7, <1>10 DEF Receive
  <2>2. Len(wire') <= WireSize
    BY <1>2, <1>4, <2>1
  <2> HIDE DEF e
  <2>3. TypeOK' /\ client' # "protocolError"
    BY <1>1, <1>4, <1>6, <1>8, <1>9, <2>1, <2>2 DEF Inv, TypeOK
  <2>4. Stream'
    BY <1>1, <1>4, <1>5, <1>8, <1>9, <2>1 DEF Inv, Stream
  <2> QED BY <1>9, <2>3, <2>4 DEF Inv
<1>11. CASE e.type = "terminal"
  <2>1. client' = "complete" /\ Disconnected
    BY <1>7, <1>11 DEF Receive
  <2> HIDE DEF e
  <2>2. TypeOK' /\ client' # "protocolError"
    BY <1>1, <1>6, <1>8, <1>9, <2>1, DisconnectedStream DEF Inv, TypeOK, Channels
  <2> QED BY <1>9, <2>1, <2>2, DisconnectedStream DEF Inv
<1> QED BY <1>10, <1>11

LEMMA StutterKept == ASSUME Inv, UNCHANGED vars PROVE Inv'
<1>1. /\ UNCHANGED <<nextEventID, events, terminal, pruned, channel, wire, closed, client, cursor, seen, cuts>>
      /\ UNCHANGED <<server, cursor, seen>>
  BY DEF vars, server, connection
<1>2. Window' /\ Cursor' /\ Marked' /\ Oldest' = Oldest
  BY <1>1, HistoryKept
<1>3. TypeOK' /\ client' # "protocolError"
  BY <1>1 DEF Inv, TypeOK
<1>4. Stream'
  BY <1>1, <1>2 DEF Inv, Stream
<1> QED BY <1>2, <1>3, <1>4 DEF Inv

LEMMA InitInv == Init => Inv
<1> SUFFICES ASSUME Init PROVE Inv
  OBVIOUS
<1>1. <<>> \in Seq(Events) /\ Len(<<>>) = 0
  OBVIOUS
<1>2. NoChannel \in Channels /\ NoChannel.queue = <<>> /\ NoChannel.capacity = 0 /\ NoChannel.open = FALSE
  BY <1>1 DEF NoChannel, Channels
<1>3. TypeOK /\ client # "protocolError"
  <2>1. 0 \in 0..MaxEvents /\ 0 \in 0..MaxCuts /\ 0 <= EventLimit /\ 0 <= WireSize /\ 0 <= 0
    BY EventsAssumption
  <2>2. channel \in Channels /\ channel.queue = <<>> /\ channel.capacity = 0
    BY <1>2 DEF Init
  <2>3. Len(channel.queue) <= channel.capacity
    BY <1>1, <2>1, <2>2
  <2> QED BY <1>1, <2>1, <2>2, <2>3 DEF Init, TypeOK, Channels
<1>4. Window
  BY <1>1 DEF Init, Window
<1>5. Stream
  BY <1>2, LinkedEmpty, KnownEmpty DEF Init, Stream
<1>6. Cursor /\ Marked
  BY <1>1 DEF Init, Cursor, Marked
<1> QED BY <1>3, <1>4, <1>5, <1>6 DEF Inv

LEMMA StepInv == Inv /\ [Next]_vars => Inv'
<1> SUFFICES ASSUME Inv, [Next]_vars PROVE Inv'
  OBVIOUS
<1>1. ASSUME NEW type \in {"progress", "terminal"}, Publish(type) PROVE Inv'
  BY <1>1, PublishKept
<1>2. CASE Prune
  BY <1>2, PruneKept
<1>3. CASE Subscribe
  BY <1>3, SubscribeKept
<1>4. CASE Forward
  BY <1>4, ForwardKept
<1>5. CASE HandlerReturns
  BY <1>5, HandlerReturnsKept
<1>6. CASE Receive
  BY <1>6, ReceiveKept
<1>7. CASE StreamEnds
  BY <1>7, StreamEndsKept
<1>8. CASE Cut
  BY <1>8, CutKept
<1>9. CASE UNCHANGED vars
  BY <1>9, StutterKept
<1> QED BY <1>1, <1>2, <1>3, <1>4, <1>5, <1>6, <1>7, <1>8, <1>9 DEF Next

LEMMA Invariance == Spec => []Inv
  BY InitInv, StepInv, PTL DEF Spec

-----------------------------------------------------------------------------
(* The properties.                                                         *)

(* The buffers stay within their limits: what publish keeps within         *)
(* eventLimit, what a subscriber has pending within its channel.           *)
THEOREM TypeCorrect == Spec => []TypeOK
<1>1. Inv => TypeOK
  BY DEF Inv
<1> QED BY <1>1, Invariance, PTL

(* events() never meets an event out of sequence and never asks for what   *)
(* the task has not published, whatever is cut, dropped or overrun.        *)
THEOREM NeverMisledHolds == Spec => []NeverMisled
<1>1. Inv => NeverMisled
  BY DEF Inv, Cursor, NeverMisled
<1> QED BY <1>1, Invariance, PTL

(* What Subscribe's replay leaves out is gone from the server, and the     *)
(* replay_overflow event that ends the gap tells the client so.            *)
THEOREM LossIsMarkedHolds == Spec => []LossIsMarked
<1>1. Inv => LossIsMarked
  <2> SUFFICES ASSUME Inv, NEW id \in (1..cursor) \ Seen
               PROVE  /\ id < events[1].id
                      /\ \E i \in DOMAIN seen :
                            /\ seen[i].type = "replay_overflow" /\ id <= seen[i].id
                            /\ i > 1 => seen[i - 1].id < id
    BY DEF LossIsMarked
  <2>1. nextEventID \in Nat /\ cursor \in Nat /\ cursor <= nextEventID /\ seen \in Seq(Events)
    BY NumberTypes DEF Inv, Cursor
  <2>2. nextEventID > 0
    BY <2>1
  <2>3. events # <<>>
    BY <2>2 DEF Inv, Window
  <2>4. events[1].id = Oldest
    BY <2>3, OldestIsFirst DEF Inv
  <2>5. DOMAIN seen = 1..Len(seen)
    BY <2>1
  <2> QED BY <2>4, <2>5 DEF Inv, Marked
<1> QED BY <1>1, Invariance, PTL

===============================================================================
