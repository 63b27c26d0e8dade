--------------------------- MODULE EventLogProofs ---------------------------
(***************************************************************************)
(* The event log keeps its order and its bounds through every failure of   *)
(* its file, remembers the last events through kills and restarts, answers *)
(* Since exactly, and a client that follows it misses nothing: for any     *)
(* capacity, number of events, starts and repositories.                    *)
(***************************************************************************)
EXTENDS EventFollower, Iteration

USE CapacityAssumption

-----------------------------------------------------------------------------
(* The inductive invariant. *)

\* The ring fills from slot 0 and starts to turn when it is full.
RingOK(g) ==
    /\ g = [buf |-> g.buf, start |-> g.start, count |-> g.count]
    /\ g.count \in 0..Capacity /\ g.start \in 0..(Capacity - 1)
    /\ g.buf \in [0..(g.count - 1) -> Event]
    /\ g.count < Capacity => g.start = 0

GoesUp(g, last) ==
    /\ \A i, j \in 0..(g.count - 1) : i < j => At(g, i).id < At(g, j).id
    /\ g.count > 0 => At(g, g.count - 1).id = last

\* The ring holds the last of the first n events of h.
HoldsTail(g, h, n) ==
    /\ g.count = IF n <= Capacity THEN n ELSE Capacity
    /\ \A i \in 0..(g.count - 1) : At(g, i) = h[n - g.count + i + 1]

RingFits ==
    /\ plan \in Plans /\ starts \in 1..MaxStarts
    /\ life \in {"up", "stopping", "down"} /\ open \in BOOLEAN
    /\ lastID \in Nat /\ lines \in Nat /\ disk \in Seq(Line) /\ history \in Seq(Event)
    /\ RingOK(ring) /\ GoesUp(ring, lastID)

FileFits ==
    /\ Len(disk) <= 2 * Capacity + 1
    /\ open => Len(disk) <= lines /\ lines <= 2 * Capacity

\* While no event is forgotten, an event's identifier is its place in the
\* history, and the ring holds the end of it.
Counted ==
    Faults \subseteq {"kill"} \/ MaxStarts = 1 =>
        /\ \A i \in 1..Len(history) : history[i].id = i
        /\ lastID <= Len(history) /\ (life # "down" => lastID = Len(history))
        /\ HoldsTail(ring, history, lastID)

\* The lines at the beginning of the file that load can read, if only the
\* last one is cut short.
Readable(d) == IF d # <<>> /\ d[Len(d)].kind = "cut" THEN Len(d) - 1 ELSE Len(d)

\* The lines of d are the end of the history h, and enough of it.
Tells(d, h) ==
    /\ Readable(d) <= Len(h) /\ (Readable(d) >= Capacity \/ Readable(d) = Len(h))
    /\ \A i \in 1..Readable(d) : /\ d[i].kind \in {"whole", "unended"}
                                 /\ d[i].event = h[Len(h) - Readable(d) + i]

FileTells ==
    Faults \subseteq {"kill"} =>
        /\ life = "up" => open
        /\ life # "down" => \A i \in 1..Len(disk) : disk[i].kind = "whole"
        /\ Tells(disk, history)

LogIInv == RingFits /\ FileFits /\ Counted /\ FileTells

\* The newest event the client may have printed.
Reach == IF pc = "ask" THEN 0 ELSE IF pc = "answer" THEN lastID
         ELSE IF pc \in {"subscribe", "gap"} THEN after ELSE heard

ClientFits ==
    /\ pc \in {"ask", "answer", "subscribe", "gap", "follow", "ended"}
    /\ printed \in Seq(Event) /\ answered \in Nat /\ after \in Nat /\ heard \in Nat
    /\ ~plan.client => pc = "ask" /\ printed = <<>> /\ after = 0 /\ heard = 0
    /\ after <= lastID /\ heard <= lastID
    /\ pc \in {"subscribe", "gap"} => answered = after
    /\ pc = "gap" => after < heard
    /\ pc \in {"follow", "ended"} => after <= heard

FollowIInv ==
    /\ ClientFits
    /\ \A i \in 1..Len(printed) : printed[i].id <= Reach
    /\ FollowsExactly

-----------------------------------------------------------------------------
(* The ring. *)

Slot(s, i) == (s + i) % Capacity

LEMMA Turned ==
    \A s \in 0..(Capacity - 1), i \in 0..Capacity :
        /\ Slot(s, i) = IF s + i < Capacity THEN s + i ELSE s + i - Capacity
        /\ Slot(s, i) \in 0..(Capacity - 1)
BY DEF Slot

LEMMA AtSlot == \A g, i : At(g, i) = g.buf[Slot(g.start, i)]
BY DEF At, Slot

LEMMA PushSlot ==
    \A g, ev : Push(g, ev) =
        IF g.count < Capacity
        THEN [g EXCEPT !.buf = Put(g.buf, Slot(g.start, g.count), ev), !.count = g.count + 1]
        ELSE [g EXCEPT !.buf = Put(g.buf, g.start, ev), !.start = Slot(g.start, 1)]
BY DEF Push, Slot

LEMMA NoRingOK == RingOK(NoRing) /\ NoRing.count = 0
<1>1. [i \in {} |-> 0] \in [0..(0 - 1) -> Event]
  OBVIOUS
<1>. QED
  BY <1>1 DEF RingOK, NoRing

\* What push leaves.
LEMMA PushFacts ==
    ASSUME NEW g, RingOK(g), NEW ev \in Event
    PROVE  /\ RingOK(Push(g, ev)) /\ Push(g, ev).count > 0
           /\ Push(g, ev).count = IF g.count < Capacity THEN g.count + 1 ELSE Capacity
           /\ At(Push(g, ev), Push(g, ev).count - 1) = ev
           /\ \A i \in 0..(Push(g, ev).count - 2) :
                At(Push(g, ev), i) = IF g.count < Capacity THEN At(g, i) ELSE At(g, i + 1)
<1>. DEFINE b == g.buf
            s == g.start
            c == g.count
            h == Push(g, ev)
<1>0. /\ g = [buf |-> b, start |-> s, count |-> c]
      /\ c \in 0..Capacity /\ s \in 0..(Capacity - 1) /\ b \in [0..(c - 1) -> Event]
      /\ c < Capacity => s = 0
  BY DEF RingOK
<1>. HIDE DEF b, s, c
<1>1. CASE c < Capacity
  <2>. DEFINE d == [j \in 0..c |-> IF j = c THEN ev ELSE b[j]]
  <2>1. s = 0 /\ Slot(s, c) = c
    BY <1>0, <1>1, Turned
  <2>2. 0..(c - 1) \cup {c} = 0..c
    BY <1>0
  <2>3. Put(b, c, ev) = d
    BY <1>0, <2>2 DEF Put
  <2>4. h = [buf |-> d, start |-> s, count |-> c + 1]
    BY <1>0, <1>1, <2>1, <2>3, PushSlot
  <2>5. d \in [0..c -> Event]
    BY <1>0
  <2>6. RingOK(h)
    <3>. HIDE DEF d, h
    <3>. QED BY <1>0, <1>1, <2>1, <2>4, <2>5 DEF RingOK
  <2>7. \A i \in 0..(c - 1) : Slot(s, i) = i
    BY <1>0, <1>1, <2>1, Turned
  <2>8. \A i \in 0..c : At(h, i) = d[i]
    <3>1. \A i \in 0..c : Slot(s, i) = i
      BY <1>0, <2>1, <2>7
    <3>. HIDE DEF d, h
    <3>. QED BY <2>4, <3>1, AtSlot
  <2>9. \A i \in 0..(c - 1) : At(g, i) = b[i]
    BY <1>0, <2>7, AtSlot
  <2>10. d[c] = ev /\ \A i \in 0..(c - 1) : d[i] = b[i]
    BY <1>0
  <2>11. h.count = c + 1
    <3>. HIDE DEF d, h
    <3>. QED BY <2>4
  <2>. HIDE DEF d, h
  <2>. QED BY <1>0, <1>1, <2>6, <2>8, <2>9, <2>10, <2>11 DEF h, c
<1>2. CASE c = Capacity
  <2>. DEFINE d == [j \in 0..(c - 1) |-> IF j = s THEN ev ELSE b[j]]
              t == Slot(s, 1)
  <2>1. t \in 0..(Capacity - 1) /\ t = IF s + 1 < Capacity THEN s + 1 ELSE 0
    <3>1. 1 \in 0..Capacity /\ s \in 0..(Capacity - 1)
      BY <1>0
    <3>2. t = (IF s + 1 < Capacity THEN s + 1 ELSE s + 1 - Capacity) /\ t \in 0..(Capacity - 1)
      BY <3>1, Turned
    <3>. QED BY <3>1, <3>2
  <2>2. (0..(c - 1)) \cup {s} = 0..(c - 1)
    BY <1>0, <1>2
  <2>3. Put(b, s, ev) = d
    BY <1>0, <2>2 DEF Put
  <2>. HIDE DEF t
  <2>4. h = [buf |-> d, start |-> t, count |-> c]
    <3>1. ~(c < Capacity) /\ g.buf = b /\ g.start = s /\ g.count = c
      BY <1>0, <1>2
    <3>2. h = [g EXCEPT !.buf = d, !.start = t]
      BY <2>3, <3>1, PushSlot DEF t
    <3>. HIDE DEF d, h
    <3>. QED BY <1>0, <3>2
  <2>5. d \in [0..(c - 1) -> Event]
    BY <1>0
  <2>6. RingOK(h)
    <3>. HIDE DEF d, h
    <3>. QED BY <1>0, <1>2, <2>1, <2>4, <2>5 DEF RingOK
  <2>7. \A i \in 0..(c - 1) : At(h, i) = d[Slot(t, i)]
    <3>. HIDE DEF d, h
    <3>. QED BY <2>4, AtSlot
  <2>8. \A i \in 0..(c - 1) : At(g, i) = b[Slot(s, i)]
    BY <1>0, AtSlot
  <2>9. ASSUME NEW i \in 0..(c - 2) PROVE At(h, i) = At(g, i + 1)
    <3>. DEFINE k == Slot(t, i)
    <3>1. k = (IF t + i < Capacity THEN t + i ELSE t + i - Capacity) /\ k \in 0..(c - 1)
      <4>1. t \in 0..(Capacity - 1) /\ i \in 0..Capacity /\ c = Capacity
        BY <1>0, <1>2, <2>1
      <4>. QED BY <4>1, Turned
    <3>2. /\ Slot(s, i + 1) = IF s + (i + 1) < Capacity THEN s + (i + 1) ELSE s + (i + 1) - Capacity
          /\ i + 1 \in 0..(c - 1)
      <4>1. s \in 0..(Capacity - 1) /\ i + 1 \in 0..Capacity /\ c = Capacity /\ i + 1 \in 0..(c - 1)
        BY <1>0, <1>2
      <4>. QED BY <4>1, Turned
    <3>. HIDE DEF k
    <3>3. k # s /\ k = Slot(s, i + 1)
      BY <1>0, <1>2, <2>1, <3>1, <3>2
    <3>4. d[k] = b[k]
      BY <3>1, <3>3
    <3>5. At(h, i) = d[k]
      <4>1. i \in 0..(c - 1)
        BY <1>0
      <4>. QED BY <2>7, <4>1 DEF k
    <3>. HIDE DEF d, h
    <3>. QED BY <2>8, <3>2, <3>3, <3>4, <3>5
  <2>10. At(h, c - 1) = ev
    <3>1. Slot(t, c - 1) = s
      <4>1. t \in 0..(Capacity - 1) /\ c - 1 \in 0..Capacity /\ c = Capacity
        BY <1>0, <1>2, <2>1
      <4>2. Slot(t, c - 1) = IF t + (c - 1) < Capacity THEN t + (c - 1) ELSE t + (c - 1) - Capacity
        BY <4>1, Turned
      <4>. QED BY <1>0, <1>2, <2>1, <4>1, <4>2
    <3>2. d[s] = ev
      BY <1>0, <1>2
    <3>. HIDE DEF d, h
    <3>. QED BY <1>0, <1>2, <2>7, <3>1, <3>2
  <2>11. h.count = c
    <3>. HIDE DEF d, h
    <3>. QED BY <2>4
  <2>. HIDE DEF d, h
  <2>. QED BY <1>0, <1>2, <2>6, <2>9, <2>10, <2>11 DEF h, c
<1>. QED
  BY <1>0, <1>1, <1>2

LEMMA AtEvent ==
    ASSUME NEW g, RingOK(g), NEW i \in 0..(g.count - 1)
    PROVE  At(g, i) \in Event /\ At(g, i).id \in Nat
<1>1. /\ g.count \in 0..Capacity /\ g.start \in 0..(Capacity - 1)
      /\ g.buf \in [0..(g.count - 1) -> Event] /\ (g.count < Capacity => g.start = 0)
  BY DEF RingOK
<1>2. Slot(g.start, i) \in 0..(g.count - 1)
  <2>1. i \in 0..Capacity
    BY <1>1
  <2>2. /\ Slot(g.start, i) = IF g.start + i < Capacity THEN g.start + i ELSE g.start + i - Capacity
        /\ Slot(g.start, i) \in 0..(Capacity - 1)
    BY <1>1, <2>1, Turned
  <2>. QED BY <1>1, <2>2
<1>. QED
  BY <1>1, <1>2, AtSlot DEF Event

\* An event with a new identifier keeps the ring in order.
LEMMA PushGoesUp ==
    ASSUME NEW g, RingOK(g), NEW last \in Nat, GoesUp(g, last), NEW ev \in Event, ev.id > last
    PROVE  GoesUp(Push(g, ev), ev.id)
<1>. DEFINE h == Push(g, ev)
            n == IF g.count < Capacity THEN 0 ELSE 1
<1>0. /\ RingOK(h) /\ h.count > 0 /\ At(h, h.count - 1) = ev /\ g.count \in Nat
      /\ h.count = g.count + 1 - n
      /\ \A i \in 0..(h.count - 2) : At(h, i) = At(g, i + n)
  <2>1. g.count \in 0..Capacity
    BY DEF RingOK
  <2>. QED BY <2>1, PushFacts
<1>1. n \in {0, 1} /\ ev.id \in Nat
  BY DEF Event
<1>. HIDE DEF h, n
<1>2. ASSUME NEW i \in 0..(g.count - 1) PROVE At(g, i).id \in Nat /\ At(g, i).id <= last
  <2>1. At(g, i).id \in Nat /\ At(g, g.count - 1).id \in Nat
    BY <1>0, AtEvent
  <2>2. CASE i = g.count - 1
    BY <1>0, <2>1, <2>2 DEF GoesUp
  <2>3. CASE i < g.count - 1
    BY <1>0, <2>1, <2>3 DEF GoesUp
  <2>. QED BY <1>0, <2>2, <2>3
<1>3. ASSUME NEW i \in 0..(h.count - 1), NEW j \in 0..(h.count - 1), i < j
      PROVE  At(h, i).id < At(h, j).id
  <2>1. i \in 0..(h.count - 2) /\ i + n \in 0..(g.count - 1) /\ At(h, i) = At(g, i + n)
    BY <1>0, <1>1, <1>3
  <2>2. CASE j = h.count - 1
    BY <1>0, <1>1, <1>2, <2>1, <2>2
  <2>3. CASE j # h.count - 1
    <3>1. j + n \in 0..(g.count - 1) /\ At(h, j) = At(g, j + n) /\ i + n < j + n
      BY <1>0, <1>1, <1>3, <2>3
    <3>. QED BY <2>1, <3>1 DEF GoesUp
  <2>. QED BY <2>2, <2>3
<1>. QED
  BY <1>0, <1>3 DEF GoesUp, h

\* A ring that holds the end of what came so far holds the end of it all.
LEMMA PushHolds ==
    ASSUME NEW g, RingOK(g), NEW h \in Seq(Event), NEW n \in Nat, n < Len(h), HoldsTail(g, h, n)
    PROVE  HoldsTail(Push(g, h[n + 1]), h, n + 1)
<1>. DEFINE ev == h[n + 1]
            p == Push(g, ev)
<1>1. ev \in Event
  OBVIOUS
<1>2. /\ p.count = IF g.count < Capacity THEN g.count + 1 ELSE Capacity
      /\ At(p, p.count - 1) = ev
      /\ \A i \in 0..(p.count - 2) : At(p, i) = IF g.count < Capacity THEN At(g, i) ELSE At(g, i + 1)
  <2>. HIDE DEF ev
  <2>. QED BY <1>1, PushFacts
<1>3. g.count = IF n <= Capacity THEN n ELSE Capacity
  BY DEF HoldsTail
<1>. HIDE DEF p, ev
<1>4. p.count = (IF n + 1 <= Capacity THEN n + 1 ELSE Capacity) /\ p.count \in Nat
  BY <1>2, <1>3
<1>5. ASSUME NEW i \in 0..(p.count - 1) PROVE At(p, i) = h[(n + 1) - p.count + i + 1]
  <2>1. CASE i = p.count - 1
    BY <1>2, <1>4, <2>1 DEF ev
  <2>2. CASE i # p.count - 1 /\ g.count < Capacity
    <3>1. At(p, i) = At(g, i) /\ i \in 0..(g.count - 1)
      BY <1>2, <1>3, <1>4, <2>2
    <3>. QED BY <1>2, <1>3, <1>4, <2>2, <3>1 DEF HoldsTail
  <2>3. CASE i # p.count - 1 /\ g.count = Capacity
    <3>1. At(p, i) = At(g, i + 1) /\ i + 1 \in 0..(g.count - 1)
      BY <1>2, <1>3, <1>4, <2>3
    <3>2. At(g, i + 1) = h[n - g.count + (i + 1) + 1]
      BY <3>1 DEF HoldsTail
    <3>3. n - g.count + (i + 1) + 1 = (n + 1) - p.count + i + 1
      BY <1>2, <1>3, <1>4, <2>3
    <3>. QED BY <3>1, <3>2, <3>3
  <2>. QED BY <1>3, <2>1, <2>2, <2>3
<1>. QED
  BY <1>4, <1>5 DEF HoldsTail, p, ev

-----------------------------------------------------------------------------
(* load. *)

Rings == {g \in [buf : UNION {[0..(c - 1) -> Event] : c \in 0..Capacity},
                 start : 0..(Capacity - 1), count : 0..Capacity] : RingOK(g)}
Loads == [ring : Rings, lastID : Nat]

LEMMA InRings == \A g : g \in Rings <=> RingOK(g)
<1>. SUFFICES ASSUME NEW g, RingOK(g) PROVE g \in Rings
  BY DEF Rings
<1>. DEFINE B == UNION {[0..(c - 1) -> Event] : c \in 0..Capacity}
            b == g.buf
            s == g.start
            c == g.count
<1>1. g = [buf |-> b, start |-> s, count |-> c] /\ c \in 0..Capacity /\ s \in 0..(Capacity - 1)
      /\ b \in [0..(c - 1) -> Event]
  BY DEF RingOK
<1>2. b \in B
  BY <1>1
<1>. HIDE DEF B, b, s, c
<1>3. g \in [buf : B, start : 0..(Capacity - 1), count : 0..Capacity]
  BY <1>1, <1>2
<1>. QED
  BY <1>3 DEF Rings, B

NoLoad == [ring |-> NoRing, lastID |-> 0]
LoadLine(l, v) ==
    IF l.kind \in {"whole", "unended"} /\ l.event.id > v.lastID
    THEN [ring |-> Push(v.ring, l.event), lastID |-> l.event.id]
    ELSE v

LEMMA LoadLineIn == \A l \in Line, v \in Loads : LoadLine(l, v) \in Loads
<1>. SUFFICES ASSUME NEW l \in Line, NEW v \in Loads PROVE LoadLine(l, v) \in Loads
  OBVIOUS
<1>. DEFINE g == Push(v.ring, l.event)
            n == l.event.id
<1>1. v.ring \in Rings /\ l.event \in Event
  BY DEF Loads, Line
<1>2. n \in Nat
  BY <1>1 DEF Event
<1>3. g \in Rings
  BY <1>1, InRings, PushFacts
<1>4. LoadLine(l, v) \in {[ring |-> g, lastID |-> n], v}
  BY DEF LoadLine
<1>. HIDE DEF g, n
<1>. QED
  BY <1>2, <1>3, <1>4 DEF Loads

\* load reads the file line by line.
LEMMA LoadUnfolds ==
    ASSUME NEW d \in Seq(Line)
    PROVE  \E f \in [0..Len(d) -> Loads] :
               /\ f[0] = NoLoad /\ \A i \in 1..Len(d) : f[i] = LoadLine(d[i], f[i - 1])
               /\ Loaded(d) = f[Len(d)]
<1>. DEFINE n == Len(d)
            F(f) == [i \in 0..n |->
                        IF i = 0 THEN [ring |-> NoRing, lastID |-> 0]
                        ELSE IF d[i].kind \in {"whole", "unended"} /\ d[i].event.id > f[i - 1].lastID
                        THEN [ring |-> Push(f[i - 1].ring, d[i].event), lastID |-> d[i].event.id]
                        ELSE f[i - 1]]
            load == CHOOSE f : f = F(f)
            st == [i \in 1..n |-> [v \in Loads |-> LoadLine(d[i], v)]]
<1>0. n \in Nat
  OBVIOUS
<1>1. NoLoad \in Loads
  <2>1. NoRing \in Rings /\ 0 \in Nat
    BY NoRingOK, InRings
  <2>. QED BY <2>1 DEF NoLoad, Loads
<1>2. st \in [1..n -> [Loads -> Loads]]
  <2>1. \A i \in 1..n, v \in Loads : LoadLine(d[i], v) \in Loads
    BY LoadLineIn
  <2>. QED BY <2>1
<1>3. Iterates(n, Loads, NoLoad, st)
  <2>. HIDE DEF st, n
  <2>. QED BY <1>0, <1>1, <1>2, Iterated
<1>4. PICK f \in [0..n -> Loads] : f[0] = NoLoad /\ \A i \in 1..n : f[i] = st[i][f[i - 1]]
  BY <1>3 DEF Iterates
<1>5. ASSUME NEW i \in 1..n PROVE f[i] = LoadLine(d[i], f[i - 1])
  <2>1. f[i - 1] \in Loads
    OBVIOUS
  <2>2. st[i] = [v \in Loads |-> LoadLine(d[i], v)]
    OBVIOUS
  <2>. HIDE DEF st
  <2>. QED BY <1>4, <2>1, <2>2
<1>6. ASSUME NEW g PROVE \A i \in 1..n : F(g)[i] = LoadLine(d[i], g[i - 1])
  BY DEF LoadLine
<1>7. ASSUME NEW g PROVE F(g)[0] = NoLoad /\ DOMAIN F(g) = 0..n /\ F(g) = [i \in 0..n |-> F(g)[i]]
  BY DEF NoLoad
<1>. HIDE DEF F, st
<1>8. f = F(f)
  <2>1. f = [i \in 0..n |-> f[i]]
    OBVIOUS
  <2>2. \A i \in 0..n : f[i] = F(f)[i]
    BY <1>4, <1>5, <1>6, <1>7
  <2>3. F(f) = [i \in 0..n |-> F(f)[i]]
    BY <1>7
  <2>. QED BY <2>1, <2>2, <2>3
<1>9. load = F(load)
  BY <1>8
<1>10. Loaded(d) = load[n]
  BY DEF Loaded, load, F
<1>. HIDE DEF load
<1>11. load[0] = NoLoad /\ \A i \in 1..n : load[i] = LoadLine(d[i], load[i - 1])
  BY <1>6, <1>7, <1>9
<1>12. \A i \in 0..n : load[i] = f[i]
  <2>. DEFINE S == {i \in 0..n : load[i] = f[i]}
  <2>1. 0 \in S
    BY <1>4, <1>11
  <2>2. \A i \in 1..n : i - 1 \in S => i \in S
    BY <1>5, <1>11
  <2>. HIDE DEF S
  <2>3. \A i \in 0..n : i \in S
    BY <1>0, <2>1, <2>2, Climb
  <2>. QED BY <2>3 DEF S
<1>. QED
  BY <1>4, <1>5, <1>10, <1>12

\* Whatever the file holds, load leaves a ring in order.
LEMMA LoadedFits ==
    ASSUME NEW d \in Seq(Line)
    PROVE  /\ RingOK(Loaded(d).ring) /\ Loaded(d).lastID \in Nat
           /\ GoesUp(Loaded(d).ring, Loaded(d).lastID)
<1>1. PICK f \in [0..Len(d) -> Loads] :
           /\ f[0] = NoLoad /\ \A i \in 1..Len(d) : f[i] = LoadLine(d[i], f[i - 1])
           /\ Loaded(d) = f[Len(d)]
  BY LoadUnfolds
<1>. DEFINE S == {i \in 0..Len(d) : GoesUp(f[i].ring, f[i].lastID)}
<1>2. 0 \in S
  <2>1. f[0].ring = NoRing /\ NoRing.count = 0
    BY <1>1, NoRingOK DEF NoLoad
  <2>. QED BY <2>1 DEF GoesUp
<1>3. ASSUME NEW i \in 1..Len(d), i - 1 \in S PROVE i \in S
  <2>. DEFINE v == f[i - 1]
              l == d[i]
  <2>1. v \in Loads /\ l \in Line /\ f[i] = LoadLine(l, v) /\ GoesUp(v.ring, v.lastID)
    BY <1>1, <1>3
  <2>2. RingOK(v.ring) /\ v.lastID \in Nat /\ l.event \in Event
    BY <2>1, InRings DEF Loads, Line
  <2>. HIDE DEF v, l
  <2>3. CASE l.event.id > v.lastID /\ f[i] = [ring |-> Push(v.ring, l.event), lastID |-> l.event.id]
    <3>1. f[i].ring = Push(v.ring, l.event) /\ f[i].lastID = l.event.id
      BY <2>3
    <3>. QED BY <2>1, <2>2, <2>3, <3>1, PushGoesUp
  <2>4. CASE f[i] = v
    BY <2>1, <2>4
  <2>. QED BY <2>1, <2>3, <2>4 DEF LoadLine
<1>4. Len(d) \in 0..Len(d) /\ Len(d) \in Nat
  OBVIOUS
<1>5. Len(d) \in S
  <2>. HIDE DEF S
  <2>. QED BY <1>2, <1>3, <1>4, Climb
<1>6. f[Len(d)] \in Loads
  BY <1>4
<1>. QED
  BY <1>1, <1>5, <1>6, InRings DEF Loads

\* A file that tells the end of the history is loaded as such.
LEMMA LoadedHolds ==
    ASSUME NEW d \in Seq(Line), NEW h \in Seq(Event), \A i \in 1..Len(h) : h[i].id = i, Tells(d, h)
    PROVE  HoldsTail(Loaded(d).ring, h, Len(h)) /\ Loaded(d).lastID = Len(h)
<1>1. PICK f \in [0..Len(d) -> Loads] :
           /\ f[0] = NoLoad /\ \A i \in 1..Len(d) : f[i] = LoadLine(d[i], f[i - 1])
           /\ Loaded(d) = f[Len(d)]
  BY LoadUnfolds
<1>. DEFINE c == Readable(d)
            m == Len(h) - c
            e == [k \in 1..c |-> h[m + k]]
<1>2. /\ c \in Nat /\ c \in {Len(d), Len(d) - 1} /\ Len(d) \in Nat /\ Len(h) \in Nat
      /\ c = Len(d) - 1 => d[Len(d)].kind = "cut"
      /\ c = Len(d) - 1 => Len(d) \in 1..Len(d)
  BY DEF Readable
<1>3. c <= Len(h) /\ (c >= Capacity \/ c = Len(h)) /\ m \in Nat
      /\ \A i \in 1..c : d[i].kind \in {"whole", "unended"} /\ d[i].event = h[m + i]
  BY <1>2 DEF Tells
<1>. HIDE DEF c, m
<1>4. m + c = Len(h)
  BY <1>2 DEF m
<1>5. e \in Seq(Event) /\ Len(e) = c /\ \A k \in 1..c : e[k] = h[m + k] /\ e[k] \in Event /\ e[k].id = m + k
  BY <1>2, <1>3, <1>4
<1>. HIDE DEF e
<1>. DEFINE S == {i \in 0..c : /\ HoldsTail(f[i].ring, e, i)
                               /\ f[i].lastID = IF i = 0 THEN 0 ELSE m + i}
<1>6. 0 \in S
  <2>1. f[0].ring = NoRing /\ NoRing.count = 0 /\ f[0].lastID = 0
    BY <1>1, NoRingOK DEF NoLoad
  <2>. QED BY <1>2, <2>1 DEF HoldsTail
<1>7. ASSUME NEW i \in 1..c, i - 1 \in S PROVE i \in S
  <2>. DEFINE v == f[i - 1]
              l == d[i]
  <2>1. /\ v \in Loads /\ f[i] = LoadLine(l, v) /\ HoldsTail(v.ring, e, i - 1)
        /\ v.lastID = IF i - 1 = 0 THEN 0 ELSE m + (i - 1)
        /\ i - 1 \in Nat /\ i - 1 < Len(e) /\ (i - 1) + 1 = i
    <3>1. i \in 1..Len(d) /\ i - 1 \in 0..Len(d) /\ i - 1 \in Nat /\ i - 1 < Len(e) /\ (i - 1) + 1 = i
      BY <1>2, <1>5
    <3>2. v \in Loads /\ f[i] = LoadLine(l, v)
      BY <1>1, <3>1
    <3>. QED BY <1>7, <3>1, <3>2
  <2>2. RingOK(v.ring) /\ l.kind \in {"whole", "unended"} /\ l.event = e[i] /\ l.event.id = m + i
    BY <1>3, <1>5, <2>1, InRings DEF Loads
  <2>. HIDE DEF v, l
  <2>3. m + i > v.lastID
    BY <1>3, <2>1
  <2>4. f[i] = [ring |-> Push(v.ring, e[i]), lastID |-> m + i]
    BY <2>1, <2>2, <2>3 DEF LoadLine
  <2>5. HoldsTail(Push(v.ring, e[i]), e, i)
    <3>1. HoldsTail(Push(v.ring, e[(i - 1) + 1]), e, (i - 1) + 1)
      BY <1>5, <2>1, <2>2, PushHolds
    <3>. QED BY <2>1, <3>1
  <2>6. f[i].ring = Push(v.ring, e[i]) /\ f[i].lastID = m + i
    BY <2>4
  <2>. QED BY <2>5, <2>6
<1>8. c \in S
  <2>1. c \in 0..c
    BY <1>2
  <2>. HIDE DEF S
  <2>. QED BY <1>2, <1>6, <1>7, <2>1, Climb
<1>9. f[Len(d)] = f[c]
  <2>1. CASE c = Len(d)
    BY <2>1
  <2>2. CASE c = Len(d) - 1
    BY <1>1, <1>2, <2>2 DEF LoadLine
  <2>. QED BY <1>2, <2>1, <2>2
<1>. DEFINE g == f[c].ring
<1>10. HoldsTail(g, e, c) /\ f[c].lastID = IF c = 0 THEN 0 ELSE m + c
  BY <1>8
<1>. HIDE DEF g, S
<1>11. g.count = (IF c <= Capacity THEN c ELSE Capacity) /\ \A i \in 0..(g.count - 1) : At(g, i) = e[c - g.count + i + 1]
  BY <1>10 DEF HoldsTail
<1>12. HoldsTail(g, h, Len(h))
  <2>1. g.count = IF Len(h) <= Capacity THEN Len(h) ELSE Capacity
    BY <1>2, <1>3, <1>11
  <2>2. ASSUME NEW i \in 0..(g.count - 1) PROVE At(g, i) = h[Len(h) - g.count + i + 1]
    <3>0. g.count \in Nat /\ g.count <= c /\ c \in Nat /\ m \in Nat
      BY <1>2, <1>3, <1>11
    <3>1. c - g.count + i + 1 \in 1..c /\ m + (c - g.count + i + 1) = Len(h) - g.count + i + 1
      <4>. DEFINE k == g.count
      <4>1. k \in Nat /\ k <= c /\ i \in 0..(k - 1) /\ c \in Nat /\ m \in Nat
        BY <3>0
      <4>. HIDE DEF k
      <4>2. c - k + i + 1 \in 1..c
        BY <4>1
      <4>3. m + (c - k + i + 1) = Len(h) - k + i + 1
        BY <1>4, <4>1
      <4>. QED BY <4>2, <4>3 DEF k
    <3>. QED BY <1>5, <1>11, <3>1
  <2>. QED BY <2>1, <2>2 DEF HoldsTail
<1>13. f[c].lastID = Len(h)
  BY <1>2, <1>3, <1>4, <1>10
<1>. QED
  BY <1>1, <1>9, <1>12, <1>13 DEF g

-----------------------------------------------------------------------------
(* The file. *)

LEMMA CompactedFits ==
    ASSUME NEW g, RingOK(g)
    PROVE  /\ Compacted(g) \in Seq(Line) /\ Len(Compacted(g)) = g.count
           /\ \A i \in 1..g.count : /\ Compacted(g)[i].kind = "whole"
                                    /\ Compacted(g)[i].event = At(g, i - 1)
<1>. DEFINE c == g.count
            L(i) == [event |-> At(g, i - 1), kind |-> "whole"]
            d == [i \in 1..c |-> L(i)]
<1>1. c \in Nat
  BY DEF RingOK
<1>2. \A i \in 1..c : Held(g)[i] = At(g, i - 1)
  BY DEF Held
<1>3. Compacted(g) = d
  BY <1>2 DEF Compacted
<1>4. ASSUME NEW i \in 1..c PROVE L(i) \in Line /\ L(i).kind = "whole" /\ L(i).event = At(g, i - 1)
  <2>1. At(g, i - 1) \in Event
    BY <1>1, AtEvent
  <2>. QED BY <2>1 DEF Line
<1>. HIDE DEF L, c
<1>5. d \in Seq(Line) /\ Len(d) = c /\ \A i \in 1..c : d[i] = L(i)
  BY <1>1, <1>4
<1>. HIDE DEF d
<1>. QED
  BY <1>3, <1>4, <1>5 DEF c

LEMMA CompactedTells ==
    ASSUME NEW g, RingOK(g), NEW h \in Seq(Event), HoldsTail(g, h, Len(h))
    PROVE  Tells(Compacted(g), h)
<1>. DEFINE d == Compacted(g)
<1>1. /\ d \in Seq(Line) /\ Len(d) = g.count
      /\ \A i \in 1..g.count : d[i].kind = "whole" /\ d[i].event = At(g, i - 1)
  BY CompactedFits
<1>. HIDE DEF d
<1>2. Readable(d) = g.count
  BY <1>1 DEF Readable
<1>3. /\ g.count = IF Len(h) <= Capacity THEN Len(h) ELSE Capacity
      /\ \A i \in 0..(g.count - 1) : At(g, i) = h[Len(h) - g.count + i + 1]
  BY DEF HoldsTail
<1>4. ASSUME NEW i \in 1..g.count PROVE d[i].event = h[Len(h) - g.count + i]
  <2>1. i - 1 \in 0..(g.count - 1) /\ Len(h) - g.count + (i - 1) + 1 = Len(h) - g.count + i
    BY <1>3
  <2>. QED BY <1>1, <1>3, <2>1
<1>5. g.count <= Len(h) /\ (g.count >= Capacity \/ g.count = Len(h))
  BY <1>3
<1>. QED
  BY <1>1, <1>2, <1>4, <1>5 DEF Tells, d

LEMMA WrittenFits ==
    ASSUME NEW d \in Seq(Line), NEW ev \in Event, NEW kind \in {"whole", "unended", "cut"}
    PROVE  /\ Written(d, ev, kind) \in Seq(Line)
           /\ Len(Written(d, ev, kind)) <= Len(d) + 1
           /\ d = <<>> \/ d[Len(d)].kind = "whole" =>
                  Written(d, ev, kind) = Append(d, [event |-> ev, kind |-> kind])
<1>. DEFINE l == [event |-> ev, kind |-> kind]
<1>1. l \in Line
  BY DEF Line
<1>. HIDE DEF l
<1>2. Append(d, l) \in Seq(Line) /\ Len(Append(d, l)) = Len(d) + 1
  BY <1>1
<1>3. CASE d # <<>> /\ Last(d).kind \in {"unended", "cut"}
  <2>. DEFINE n == Len(d)
              k == IF kind = "whole" THEN "garbage" ELSE "cut"
              x == [d[n] EXCEPT !.kind = k]
  <2>1. n \in 1..Len(d) /\ d[n] \in Line
    BY <1>3
  <2>2. x \in Line
    BY <2>1 DEF Line
  <2>3. Written(d, ev, kind) = [d EXCEPT ![n] = x]
    BY <1>3 DEF Written
  <2>. HIDE DEF x
  <2>4. [d EXCEPT ![n] = x] \in Seq(Line) /\ Len([d EXCEPT ![n] = x]) = Len(d)
    BY <2>1, <2>2
  <2>5. d # <<>> /\ d[n].kind # "whole"
    BY <1>3 DEF Last
  <2>. DEFINE w == [d EXCEPT ![n] = x]
  <2>. HIDE DEF w
  <2>6. w \in Seq(Line) /\ Len(w) <= Len(d) + 1
    BY <2>4 DEF w
  <2>7. Written(d, ev, kind) = w
    BY <2>3 DEF w
  <2>. QED BY <2>5, <2>6, <2>7, Zenon
<1>4. CASE ~(d # <<>> /\ Last(d).kind \in {"unended", "cut"})
  <2>1. Written(d, ev, kind) = Append(d, l)
    BY <1>4 DEF Written, l
  <2>2. Len(Append(d, l)) <= Len(d) + 1
    BY <1>2
  <2>. QED BY <1>2, <2>1, <2>2, Zenon DEF l
<1>. QED
  BY <1>3, <1>4

\* A line after whole ones goes at the end.
LEMMA TellsMore ==
    ASSUME NEW d \in Seq(Line), NEW h \in Seq(Event), NEW ev \in Event, Tells(d, h),
           \A i \in 1..Len(d) : d[i].kind = "whole"
    PROVE  /\ \A k \in {"whole", "unended"} : Tells(Append(d, [event |-> ev, kind |-> k]), Append(h, ev))
           /\ Tells(Append(d, [event |-> ev, kind |-> "cut"]), h)
<1>. DEFINE n == Len(d)
<1>0. n \in Nat /\ Len(h) \in Nat /\ (n # 0 => n \in 1..n)
  OBVIOUS
<1>1. Readable(d) = n
  BY <1>0 DEF Readable
<1>2. /\ n <= Len(h) /\ (n >= Capacity \/ n = Len(h))
      /\ \A i \in 1..n : d[i].kind \in {"whole", "unended"} /\ d[i].event = h[Len(h) - n + i]
  BY <1>1 DEF Tells
<1>3. ASSUME NEW k \in {"whole", "unended"}
      PROVE  Tells(Append(d, [event |-> ev, kind |-> k]), Append(h, ev))
  <2>. DEFINE l == [event |-> ev, kind |-> k]
              e == Append(d, l)
              j == Append(h, ev)
  <2>1. l \in Line /\ l.kind = k /\ l.event = ev
    BY DEF Line
  <2>. HIDE DEF l
  <2>2. e \in Seq(Line) /\ Len(e) = n + 1 /\ e[n + 1] = l /\ \A i \in 1..n : e[i] = d[i]
    BY <2>1
  <2>3. Len(j) = Len(h) + 1 /\ j[Len(h) + 1] = ev /\ \A i \in 1..Len(h) : j[i] = h[i]
    OBVIOUS
  <2>. HIDE DEF e, j
  <2>4. Readable(e) = n + 1
    BY <1>0, <2>1, <2>2 DEF Readable
  <2>5. ASSUME NEW i \in 1..(n + 1)
        PROVE  e[i].kind \in {"whole", "unended"} /\ e[i].event = j[Len(j) - (n + 1) + i]
    <3>1. CASE i = n + 1
      <4>1. Len(j) - (n + 1) + i = Len(h) + 1
        BY <1>0, <2>3, <3>1
      <4>. QED BY <2>1, <2>2, <2>3, <3>1, <4>1
    <3>2. CASE i \in 1..n
      <4>1. Len(j) - (n + 1) + i = Len(h) - n + i /\ Len(h) - n + i \in 1..Len(h)
        BY <1>0, <1>2, <2>3, <3>2
      <4>. QED BY <1>2, <2>2, <2>3, <3>2, <4>1
    <3>. QED BY <1>0, <3>1, <3>2
  <2>6. n + 1 <= Len(j) /\ (n + 1 >= Capacity \/ n + 1 = Len(j))
    BY <1>0, <1>2, <2>3
  <2>. QED BY <2>4, <2>5, <2>6 DEF Tells, e, j, l
<1>4. Tells(Append(d, [event |-> ev, kind |-> "cut"]), h)
  <2>. DEFINE l == [event |-> ev, kind |-> "cut"]
              e == Append(d, l)
  <2>1. l \in Line /\ l.kind = "cut"
    BY DEF Line
  <2>. HIDE DEF l
  <2>2. e \in Seq(Line) /\ Len(e) = n + 1 /\ e[n + 1] = l /\ \A i \in 1..n : e[i] = d[i]
    BY <2>1
  <2>. HIDE DEF e
  <2>3. Readable(e) = n
    BY <1>0, <2>1, <2>2 DEF Readable
  <2>. QED BY <1>2, <2>2, <2>3 DEF Tells, e, l
<1>. QED
  BY <1>3, <1>4

LEMMA HoldsMore ==
    ASSUME NEW g, RingOK(g), NEW h \in Seq(Event), NEW ev \in Event, NEW n \in 0..Len(h), HoldsTail(g, h, n)
    PROVE  HoldsTail(g, Append(h, ev), n)
<1>1. /\ g.count = IF n <= Capacity THEN n ELSE Capacity
      /\ \A i \in 0..(g.count - 1) : At(g, i) = h[n - g.count + i + 1]
  BY DEF HoldsTail
<1>2. ASSUME NEW i \in 0..(g.count - 1) PROVE At(g, i) = Append(h, ev)[n - g.count + i + 1]
  <2>. DEFINE k == n - g.count + i + 1
  <2>1. g.count \in Nat /\ g.count <= n
    BY <1>1
  <2>2. k \in 1..Len(h) /\ At(g, i) = h[k]
    BY <1>1, <2>1
  <2>. HIDE DEF k
  <2>3. Append(h, ev)[k] = h[k]
    BY <2>2
  <2>. QED BY <2>2, <2>3 DEF k
<1>. QED
  BY <1>1, <1>2 DEF HoldsTail

-----------------------------------------------------------------------------
(* The steps of the log. *)

LEMMA PlanFacts ==
    ASSUME plan \in Plans
    PROVE  /\ plan.repos \subseteq Repos /\ MaxEvents \in Nat /\ MaxStarts \in Nat \ {0}
           /\ plan.client \in BOOLEAN /\ (plan.client => MaxStarts = 1)
BY PlansAssumption, ClientAssumption DEF MaxEvents, MaxStarts

LEMMA LogInitInv == LogInit => LogIInv
<1>. SUFFICES ASSUME LogInit PROVE LogIInv
  OBVIOUS
<1>1. /\ plan \in Plans /\ ring = NoRing /\ lastID = 0 /\ lines = 0 /\ open = TRUE
      /\ disk = <<>> /\ life = "up" /\ starts = 1 /\ history = <<>>
  BY DEF LogInit
<1>2. RingOK(ring) /\ ring.count = 0
  BY <1>1, NoRingOK
<1>3. disk \in Seq(Line) /\ history \in Seq(Event) /\ Len(disk) = 0 /\ Len(history) = 0
  BY <1>1
<1>4. RingFits
  <2>1. starts \in 1..MaxStarts
    BY <1>1, PlanFacts
  <2>2. GoesUp(ring, lastID)
    BY <1>2 DEF GoesUp
  <2>. QED BY <1>1, <1>2, <1>3, <2>1, <2>2 DEF RingFits
<1>5. FileFits
  BY <1>1, <1>3 DEF FileFits
<1>6. Counted
  BY <1>1, <1>2, <1>3 DEF Counted, HoldsTail
<1>7. FileTells
  BY <1>1, <1>3 DEF FileTells, Tells, Readable
<1>. QED
  BY <1>4, <1>5, <1>6, <1>7 DEF LogIInv

\* The parts of the invariant of the next state.
LEMMA LogFrom ==
    ASSUME UNCHANGED plan, plan \in Plans, starts' \in 1..MaxStarts,
           life' \in {"up", "stopping", "down"}, open' \in BOOLEAN, lastID' \in Nat, lines' \in Nat,
           disk' \in Seq(Line), history' \in Seq(Event), RingOK(ring'), GoesUp(ring', lastID'),
           Len(disk') <= 2 * Capacity + 1, open' => Len(disk') <= lines' /\ lines' <= 2 * Capacity,
           Faults \subseteq {"kill"} \/ MaxStarts = 1 =>
              /\ \A i \in 1..Len(history') : history'[i].id = i
              /\ lastID' <= Len(history') /\ (life' # "down" => lastID' = Len(history'))
              /\ HoldsTail(ring', history', lastID'),
           Faults \subseteq {"kill"} =>
              /\ life' = "up" => open'
              /\ life' # "down" => \A i \in 1..Len(disk') : disk'[i].kind = "whole"
              /\ Tells(disk', history')
    PROVE  LogIInv'
<1>1. Faults' = Faults /\ MaxStarts' = MaxStarts
  BY DEF Faults, MaxStarts
<1>2. RingFits'
  BY <1>1 DEF RingFits
<1>3. FileFits'
  BY DEF FileFits
<1>4. Counted'
  BY <1>1 DEF Counted
<1>5. FileTells'
  BY <1>1 DEF FileTells
<1>. QED
  BY <1>2, <1>3, <1>4, <1>5 DEF LogIInv

LEMMA LogStill ==
    ASSUME LogIInv, UNCHANGED <<logVars, plan>>
    PROVE  LogIInv'
<1>. USE DEF logVars
<1>1. Faults' = Faults /\ MaxStarts' = MaxStarts
  BY DEF Faults, MaxStarts
<1>2. RingFits'
  BY <1>1 DEF RingFits, LogIInv
<1>3. FileFits'
  BY DEF FileFits, LogIInv
<1>4. Counted'
  BY <1>1 DEF Counted, LogIInv
<1>5. FileTells'
  BY <1>1 DEF FileTells, LogIInv
<1>. QED
  BY <1>2, <1>3, <1>4, <1>5 DEF LogIInv

\* What follows from the invariant before a step.
LEMMA LogFacts ==
    ASSUME LogIInv
    PROVE  /\ plan \in Plans /\ starts \in 1..MaxStarts /\ MaxStarts \in Nat \ {0}
           /\ plan.repos \subseteq Repos
           /\ life \in {"up", "stopping", "down"} /\ open \in BOOLEAN /\ lastID \in Nat /\ lines \in Nat
           /\ disk \in Seq(Line) /\ history \in Seq(Event) /\ RingOK(ring) /\ GoesUp(ring, lastID)
           /\ Len(disk) \in Nat /\ Len(history) \in Nat
           /\ Len(disk) <= 2 * Capacity + 1 /\ (open => Len(disk) <= lines /\ lines <= 2 * Capacity)
           /\ ring.count \in 0..Capacity
<1>1. plan \in Plans /\ disk \in Seq(Line) /\ history \in Seq(Event) /\ RingOK(ring)
  BY DEF LogIInv, RingFits
<1>2. ring.count \in 0..Capacity
  BY <1>1 DEF RingOK
<1>3. Len(disk) \in Nat /\ Len(history) \in Nat
  BY <1>1
<1>. QED
  BY <1>1, <1>2, <1>3, PlanFacts DEF LogIInv, RingFits, FileFits

\* The event that is emitted next.
NextEvent(repo) == [id |-> lastID + 1, repo |-> repo, number |-> Len(history) + 1]

LEMMA NextEventFits ==
    ASSUME LogIInv, NEW repo \in plan.repos
    PROVE  NextEvent(repo) \in Event /\ NextEvent(repo).id = lastID + 1
<1>1. lastID + 1 \in Nat /\ Len(history) + 1 \in Nat /\ repo \in Repos
  BY LogFacts
<1>. QED
  BY <1>1 DEF NextEvent, Event

\* The history with one more event, while the daemon runs.
LEMMA CountedMore ==
    ASSUME LogIInv, NEW repo \in plan.repos, life # "down",
           Faults \subseteq {"kill"} \/ MaxStarts = 1
    PROVE  LET ev == NextEvent(repo)
               h == Append(history, ev)
           IN /\ lastID = Len(history) /\ Len(h) = lastID + 1
              /\ \A i \in 1..Len(h) : h[i].id = i
              /\ HoldsTail(ring, h, lastID)
              /\ HoldsTail(Push(ring, ev), h, lastID + 1)
<1>. DEFINE ev == NextEvent(repo)
            h == Append(history, ev)
<1>. SUFFICES /\ lastID = Len(history) /\ Len(h) = lastID + 1
              /\ \A i \in 1..Len(h) : h[i].id = i
              /\ HoldsTail(ring, h, lastID)
              /\ HoldsTail(Push(ring, ev), h, lastID + 1)
  OBVIOUS
<1>1. ev \in Event /\ ev.id = lastID + 1
  BY NextEventFits
<1>. HIDE DEF ev
<1>2. /\ history \in Seq(Event) /\ RingOK(ring) /\ lastID \in Nat
  BY LogFacts
<1>3. lastID = Len(history) /\ HoldsTail(ring, history, lastID) /\ \A i \in 1..Len(history) : history[i].id = i
  BY DEF LogIInv, Counted
<1>4. h \in Seq(Event) /\ Len(h) = lastID + 1 /\ h[lastID + 1] = ev /\ \A i \in 1..lastID : h[i] = history[i]
  BY <1>1, <1>2, <1>3
<1>5. HoldsTail(ring, h, lastID)
  BY <1>1, <1>2, <1>3, HoldsMore
<1>. HIDE DEF h
<1>6. HoldsTail(Push(ring, h[lastID + 1]), h, lastID + 1)
  BY <1>2, <1>4, <1>5, PushHolds
<1>7. \A i \in 1..Len(h) : h[i].id = i
  <2>. SUFFICES ASSUME NEW i \in 1..Len(h) PROVE h[i].id = i
    OBVIOUS
  <2>1. i = lastID + 1 \/ i \in 1..lastID
    BY <1>2, <1>4
  <2>. QED BY <1>1, <1>3, <1>4, <2>1
<1>. QED
  BY <1>3, <1>4, <1>5, <1>6, <1>7

LEMMA AppendStep ==
    ASSUME LogIInv, NEW repo \in plan.repos, AppendEvent(repo), UNCHANGED plan
    PROVE  LogIInv'
<1>. DEFINE ev == NextEvent(repo)
            g == Push(ring, ev)
            h == Append(history, ev)
            Sound == Faults \subseteq {"kill"}
<1>0. /\ plan \in Plans /\ starts \in 1..MaxStarts
      /\ life \in {"up", "stopping", "down"} /\ open \in BOOLEAN /\ lastID \in Nat /\ lines \in Nat
      /\ disk \in Seq(Line) /\ history \in Seq(Event) /\ RingOK(ring) /\ GoesUp(ring, lastID)
      /\ Len(disk) \in Nat /\ Len(disk) <= 2 * Capacity + 1
      /\ open => Len(disk) <= lines /\ lines <= 2 * Capacity
  BY LogFacts
<1>1. ev \in Event /\ ev.id = lastID + 1
  BY NextEventFits
<1>2. /\ Emitting /\ lastID' = lastID + 1 /\ ring' = g /\ history' = h
      /\ UNCHANGED <<life, starts>>
      /\ \/ ~open /\ UNCHANGED <<disk, lines, open>>
         \/ /\ open
            /\ \E w \in WriteOutcomes :
                 LET d == IF w = "none" THEN disk ELSE Written(disk, ev, w)
                 IN \/ /\ lines + 1 <= 2 * Capacity
                       /\ disk' = d /\ lines' = lines + 1 /\ UNCHANGED open
                    \/ /\ lines + 1 > 2 * Capacity
                       /\ \E o \in RewriteOutcomes :
                            /\ Rewritten(o, d, g)
                            /\ lines' = IF o = "done" THEN g.count ELSE lines + 1
  BY DEF AppendEvent, NextEvent
<1>. HIDE DEF ev
<1>3. RingOK(g) /\ g.count \in 0..Capacity /\ GoesUp(g, lastID + 1)
  <2>1. RingOK(g)
    BY <1>0, <1>1, PushFacts
  <2>2. GoesUp(g, ev.id)
    BY <1>0, <1>1, PushGoesUp
  <2>. QED BY <1>1, <2>1, <2>2 DEF RingOK
<1>4. h \in Seq(Event) /\ life # "down" /\ lastID' \in Nat /\ (Sound => life = "up")
  BY <1>0, <1>1, <1>2 DEF Emitting
<1>5. Sound \/ MaxStarts = 1 =>
         /\ \A i \in 1..Len(h) : h[i].id = i
         /\ Len(h) = lastID + 1 /\ lastID + 1 <= Len(h)
         /\ HoldsTail(g, h, lastID + 1)
  <2>. SUFFICES ASSUME Sound \/ MaxStarts = 1
                PROVE  /\ \A i \in 1..Len(h) : h[i].id = i
                       /\ Len(h) = lastID + 1 /\ lastID + 1 <= Len(h)
                       /\ HoldsTail(g, h, lastID + 1)
    OBVIOUS
  <2>. HIDE DEF h, g
  <2>1. Len(h) = lastID + 1 /\ (\A i \in 1..Len(h) : h[i].id = i) /\ HoldsTail(g, h, lastID + 1)
    BY <1>4, CountedMore DEF h, g, ev
  <2>. QED BY <1>0, <2>1
<1>6. Sound => /\ open /\ \A i \in 1..Len(disk) : disk[i].kind = "whole"
               /\ Tells(disk, history)
  BY <1>4 DEF LogIInv, FileTells
<1>. HIDE DEF g, h
<1>7. /\ Compacted(g) \in Seq(Line) /\ Len(Compacted(g)) = g.count
      /\ \A i \in 1..Len(Compacted(g)) : Compacted(g)[i].kind = "whole"
      /\ Sound => Tells(Compacted(g), h)
  <2>1. /\ Compacted(g) \in Seq(Line) /\ Len(Compacted(g)) = g.count
        /\ \A i \in 1..Len(Compacted(g)) : Compacted(g)[i].kind = "whole"
    BY <1>3, CompactedFits
  <2>2. Sound => Tells(Compacted(g), h)
    BY <1>3, <1>4, <1>5, CompactedTells
  <2>. QED BY <2>1, <2>2
<1>. HIDE DEF Sound
<1>8. CASE ~open /\ UNCHANGED <<disk, lines, open>>
  <2>1. ~Sound
    BY <1>6, <1>8
  <2>. QED BY <1>0, <1>2, <1>3, <1>4, <1>5, <1>8, <2>1, LogFrom DEF Sound
<1>9. ASSUME open, NEW w \in WriteOutcomes, NEW d,
             d = IF w = "none" THEN disk ELSE Written(disk, ev, w)
      PROVE  /\ d \in Seq(Line) /\ Len(d) <= Len(disk) + 1 /\ Len(d) \in Nat
             /\ Sound => (\A i \in 1..Len(d) : d[i].kind = "whole") /\ Tells(d, h)
  <2>1. w \in {"whole", "unended", "cut", "none"} /\ (Sound => w = "whole")
    BY DEF WriteOutcomes, Sound
  <2>2. CASE w = "none"
    BY <1>0, <1>9, <2>1, <2>2
  <2>3. CASE w # "none"
    <3>1. d = Written(disk, ev, w) /\ w \in {"whole", "unended", "cut"}
      BY <1>9, <2>1, <2>3
    <3>2. d \in Seq(Line) /\ Len(d) <= Len(disk) + 1 /\ Len(d) \in Nat
      <4>1. Written(disk, ev, w) \in Seq(Line) /\ Len(Written(disk, ev, w)) <= Len(disk) + 1
        BY <1>0, <1>1, <3>1, WrittenFits
      <4>2. d \in Seq(Line) /\ Len(d) <= Len(disk) + 1
        BY <3>1, <4>1, Zenon
      <4>3. Len(d) \in Nat
        BY <4>2
      <4>. QED BY <4>2, <4>3
    <3>3. ASSUME Sound PROVE (\A i \in 1..Len(d) : d[i].kind = "whole") /\ Tells(d, h)
      <4>. DEFINE l == [event |-> ev, kind |-> "whole"]
      <4>1. w = "whole" /\ Tells(disk, history) /\ \A i \in 1..Len(disk) : disk[i].kind = "whole"
        BY <1>6, <2>1, <3>3
      <4>2. disk = <<>> \/ disk[Len(disk)].kind = "whole"
        <5>1. disk # <<>> => Len(disk) \in 1..Len(disk)
          BY <1>0
        <5>. QED BY <4>1, <5>1
      <4>3. d = Append(disk, l)
        BY <1>0, <1>1, <3>1, <4>1, <4>2, WrittenFits
      <4>4. Tells(Append(disk, l), h)
        BY <1>0, <1>1, <4>1, TellsMore DEF h
      <4>5. l.kind = "whole"
        OBVIOUS
      <4>. HIDE DEF l
      <4>6. \A i \in 1..Len(d) : d[i].kind = "whole"
        BY <1>0, <4>1, <4>3, <4>5
      <4>. QED BY <4>3, <4>4, <4>6
    <3>. QED BY <3>2, <3>3
  <2>. QED BY <2>2, <2>3
<1>10. ASSUME open, NEW w \in WriteOutcomes, NEW d,
              d = IF w = "none" THEN disk ELSE Written(disk, ev, w),
              lines + 1 <= 2 * Capacity, disk' = d, lines' = lines + 1, UNCHANGED open
       PROVE  LogIInv'
  <2>1. /\ d \in Seq(Line) /\ Len(d) <= Len(disk) + 1 /\ Len(d) \in Nat
        /\ Sound => (\A i \in 1..Len(d) : d[i].kind = "whole") /\ Tells(d, h)
    BY <1>9, <1>10
  <2>2. Len(d) <= lines + 1 /\ Len(d) <= 2 * Capacity + 1 /\ lines + 1 \in Nat
    BY <1>0, <1>10, <2>1
  <2>. QED BY <1>0, <1>2, <1>3, <1>4, <1>5, <1>10, <2>1, <2>2, LogFrom DEF Sound
<1>11. ASSUME open, NEW w \in WriteOutcomes, NEW d,
              d = IF w = "none" THEN disk ELSE Written(disk, ev, w),
              lines + 1 > 2 * Capacity, NEW o \in RewriteOutcomes, Rewritten(o, d, g),
              lines' = IF o = "done" THEN g.count ELSE lines + 1
       PROVE  LogIInv'
  <2>1. /\ d \in Seq(Line) /\ Len(d) <= Len(disk) + 1 /\ Len(d) \in Nat
    BY <1>9, <1>11
  <2>2. /\ o \in {"done", "early", "late"} /\ (Sound => o = "done")
        /\ disk' = (IF o = "early" THEN d ELSE Compacted(g)) /\ open' = (o = "done")
    BY <1>11 DEF RewriteOutcomes, Rewritten, Sound
  <2>3. CASE o = "done"
    <3>1. disk' = Compacted(g) /\ open' = TRUE /\ lines' = g.count /\ g.count \in Nat
          /\ g.count <= g.count /\ g.count <= 2 * Capacity /\ g.count <= 2 * Capacity + 1
      <4>1. disk' = Compacted(g) /\ open' = TRUE /\ lines' = g.count
        BY <1>11, <2>2, <2>3
      <4>2. g.count \in Nat /\ g.count <= Capacity
        BY <1>3
      <4>. QED BY <4>1, <4>2
    <3>. QED BY <1>0, <1>2, <1>3, <1>4, <1>5, <1>7, <3>1, LogFrom DEF Sound
  <2>4. CASE o # "done"
    <3>1. /\ open' = FALSE /\ ~Sound /\ disk' \in Seq(Line) /\ Len(disk') <= 2 * Capacity + 1
          /\ lines' \in Nat
      <4>1. open' = FALSE /\ ~Sound /\ lines' = lines + 1 /\ disk' \in {d, Compacted(g)}
        BY <1>11, <2>2, <2>4
      <4>2. Len(d) <= 2 * Capacity + 1 /\ lines + 1 \in Nat /\ g.count <= 2 * Capacity + 1
        BY <1>0, <1>3, <1>11, <2>1
      <4>. QED BY <1>7, <2>1, <4>1, <4>2
    <3>. QED BY <1>0, <1>2, <1>3, <1>4, <1>5, <3>1, LogFrom DEF Sound
  <2>. QED BY <2>3, <2>4
<1>. QED
  BY <1>2, <1>8, <1>10, <1>11

LEMMA KillStep ==
    ASSUME LogIInv, NEW repo \in plan.repos, Kill(repo), UNCHANGED plan
    PROVE  LogIInv'
<1>. DEFINE ev == NextEvent(repo)
            h == Append(history, ev)
            Sound == Faults \subseteq {"kill"}
            Once == Sound \/ MaxStarts = 1
<1>0. /\ plan \in Plans /\ starts \in 1..MaxStarts /\ lastID \in Nat /\ lines \in Nat
      /\ disk \in Seq(Line) /\ history \in Seq(Event) /\ RingOK(ring) /\ GoesUp(ring, lastID)
      /\ Len(disk) \in Nat /\ Len(disk) <= 2 * Capacity + 1
      /\ open => Len(disk) <= lines /\ lines <= 2 * Capacity
  BY LogFacts
<1>1. ev \in Event
  BY NextEventFits
<1>2. /\ life # "down" /\ life' = "down" /\ open' = FALSE /\ UNCHANGED <<ring, lastID, lines, starts>>
      /\ \/ UNCHANGED <<disk, history>>
         \/ /\ open
            /\ \/ /\ disk' = Written(disk, ev, "unended")
                  /\ history' = IF disk' # <<>> /\ Last(disk').kind = "unended" THEN h ELSE history
               \/ disk' = Written(disk, ev, "cut") /\ UNCHANGED history
  BY DEF Kill, NextEvent
<1>. HIDE DEF ev
<1>3. h \in Seq(Event)
  BY <1>0, <1>1
<1>4. Once =>
         /\ \A i \in 1..Len(history) : history[i].id = i
         /\ lastID = Len(history) /\ HoldsTail(ring, history, lastID)
  BY <1>2 DEF LogIInv, Counted
<1>5. Once => lastID + 1 = Len(h) /\ (\A i \in 1..Len(h) : h[i].id = i) /\ HoldsTail(ring, h, lastID)
  <2>. SUFFICES ASSUME Once
                PROVE  lastID + 1 = Len(h) /\ (\A i \in 1..Len(h) : h[i].id = i) /\ HoldsTail(ring, h, lastID)
    OBVIOUS
  <2>. HIDE DEF h
  <2>. QED BY <1>2, CountedMore DEF h, ev
<1>6. Sound => /\ \A i \in 1..Len(disk) : disk[i].kind = "whole"
               /\ Tells(disk, history)
  BY <1>2 DEF LogIInv, FileTells
<1>7. ASSUME NEW k \in {"unended", "cut"}, NEW d, d = Written(disk, ev, k), open
      PROVE  /\ d \in Seq(Line) /\ Len(d) <= 2 * Capacity + 1
             /\ Sound => d = Append(disk, [event |-> ev, kind |-> k])
  <2>1. Written(disk, ev, k) \in Seq(Line) /\ Len(Written(disk, ev, k)) <= Len(disk) + 1
    BY <1>0, <1>1, WrittenFits
  <2>2. d \in Seq(Line) /\ Len(d) <= Len(disk) + 1
    BY <1>7, <2>1, Zenon
  <2>3. Len(d) \in Nat
    BY <2>2
  <2>4. Len(d) <= 2 * Capacity + 1
    BY <1>0, <1>7, <2>2, <2>3
  <2>5. ASSUME Sound PROVE d = Append(disk, [event |-> ev, kind |-> k])
    <3>1. disk # <<>> => Len(disk) \in 1..Len(disk)
      BY <1>0
    <3>2. disk = <<>> \/ disk[Len(disk)].kind = "whole"
      BY <1>6, <2>5, <3>1
    <3>. QED BY <1>0, <1>1, <1>7, <3>2, WrittenFits
  <2>. QED BY <2>2, <2>4, <2>5
<1>. HIDE DEF h
<1>8. ASSUME history' \in {history, h}, disk' \in Seq(Line), Len(disk') <= 2 * Capacity + 1,
             Sound => Tells(disk', history')
      PROVE  LogIInv'
  <2>1. history' \in Seq(Event)
    BY <1>0, <1>3, <1>8
  <2>2. Once => /\ \A i \in 1..Len(history') : history'[i].id = i
                /\ lastID <= Len(history') /\ HoldsTail(ring, history', lastID)
    <3>. SUFFICES ASSUME Once
                  PROVE  /\ \A i \in 1..Len(history') : history'[i].id = i
                         /\ lastID <= Len(history') /\ HoldsTail(ring, history', lastID)
      OBVIOUS
    <3>1. CASE history' = history
      <4>1. lastID <= Len(history)
        BY <1>0, <1>4
      <4>. QED BY <1>4, <3>1, <4>1
    <3>2. CASE history' = h
      <4>1. lastID <= Len(h)
        BY <1>0, <1>5
      <4>. QED BY <1>5, <3>2, <4>1
    <3>. QED BY <1>8, <3>1, <3>2
  <2>. QED BY <1>0, <1>2, <1>8, <2>1, <2>2, LogFrom
<1>9. CASE UNCHANGED <<disk, history>>
  BY <1>0, <1>6, <1>8, <1>9
<1>10. CASE /\ open /\ disk' = Written(disk, ev, "unended")
            /\ history' = IF disk' # <<>> /\ Last(disk').kind = "unended" THEN h ELSE history
  <2>. DEFINE l == [event |-> ev, kind |-> "unended"]
  <2>1. /\ disk' \in Seq(Line) /\ Len(disk') <= 2 * Capacity + 1
        /\ Sound => disk' = Append(disk, l)
    BY <1>7, <1>10
  <2>2. ASSUME Sound PROVE Tells(disk', history')
    <3>1. Tells(Append(disk, l), Append(history, ev))
      BY <1>0, <1>1, <1>6, <2>2, TellsMore
    <3>2. l \in Line /\ l.kind = "unended"
      BY <1>1 DEF Line
    <3>. HIDE DEF l
    <3>3. disk' # <<>> /\ Last(disk') = l
      BY <1>0, <2>1, <2>2, <3>2 DEF Last
    <3>. QED BY <1>10, <2>1, <2>2, <3>1, <3>2, <3>3 DEF h
  <2>. HIDE DEF l
  <2>. QED BY <1>8, <1>10, <2>1, <2>2
<1>11. CASE open /\ disk' = Written(disk, ev, "cut") /\ UNCHANGED history
  <2>. DEFINE l == [event |-> ev, kind |-> "cut"]
  <2>1. /\ disk' \in Seq(Line) /\ Len(disk') <= 2 * Capacity + 1
        /\ Sound => disk' = Append(disk, l)
    BY <1>7, <1>11
  <2>2. ASSUME Sound PROVE Tells(disk', history')
    <3>1. Tells(Append(disk, l), history)
      BY <1>0, <1>1, <1>6, <2>2, TellsMore
    <3>. HIDE DEF l
    <3>. QED BY <1>11, <2>1, <2>2, <3>1
  <2>. HIDE DEF l
  <2>. QED BY <1>8, <1>11, <2>1, <2>2
<1>. QED
  BY <1>2, <1>9, <1>10, <1>11

LEMMA StopStep ==
    ASSUME LogIInv, CloseLog \/ Exit, UNCHANGED plan
    PROVE  LogIInv'
<1>1. /\ life # "down" /\ life' \in {"stopping", "down"} /\ UNCHANGED <<ring, lastID, lines, disk, starts, history>>
      /\ open' = FALSE \/ open' = open
  BY DEF CloseLog, Exit
<1>2. open' \in BOOLEAN /\ (open' => open)
  <2>1. open \in BOOLEAN
    BY LogFacts
  <2>2. CASE open' = FALSE
    BY <2>2, Zenon
  <2>3. CASE open' = open
    BY <2>1, <2>3, Zenon
  <2>. QED BY <1>1, <2>2, <2>3
<1>3. /\ plan \in Plans /\ starts \in 1..MaxStarts /\ lastID \in Nat /\ lines \in Nat
      /\ disk \in Seq(Line) /\ history \in Seq(Event) /\ RingOK(ring) /\ GoesUp(ring, lastID)
      /\ Len(disk) <= 2 * Capacity + 1 /\ (open => Len(disk) <= lines /\ lines <= 2 * Capacity)
  BY LogFacts
<1>4. Faults \subseteq {"kill"} \/ MaxStarts = 1 =>
        /\ \A i \in 1..Len(history) : history[i].id = i
        /\ lastID <= Len(history) /\ lastID = Len(history)
        /\ HoldsTail(ring, history, lastID)
  BY <1>1 DEF LogIInv, Counted
<1>5. Faults \subseteq {"kill"} =>
        (\A i \in 1..Len(disk) : disk[i].kind = "whole") /\ Tells(disk, history)
  BY <1>1 DEF LogIInv, FileTells
<1>. QED
  BY <1>1, <1>2, <1>3, <1>4, <1>5, LogFrom

LEMMA StartStep ==
    ASSUME LogIInv, NewEventLog, UNCHANGED plan
    PROVE  LogIInv'
<1>. DEFINE l == Loaded(disk)
            Sound == Faults \subseteq {"kill"}
<1>0. /\ plan \in Plans /\ starts \in 1..MaxStarts /\ MaxStarts \in Nat
      /\ disk \in Seq(Line) /\ history \in Seq(Event) /\ Len(disk) <= 2 * Capacity + 1
      /\ Len(history) \in Nat
  BY LogFacts
<1>1. /\ starts < MaxStarts /\ life' = "up" /\ starts' = starts + 1 /\ history' = history
      /\ \E o \in RewriteOutcomes :
            /\ Rewritten(o, disk, l.ring)
            /\ \/ /\ o = "done"
                  /\ ring' = l.ring /\ lastID' = l.lastID /\ lines' = l.ring.count
               \/ /\ o # "done"
                  /\ ring' = NoRing /\ lastID' = 0 /\ lines' = 0
  BY DEF NewEventLog
<1>2. MaxStarts # 1 /\ starts' \in 1..MaxStarts
  BY <1>0, <1>1
<1>3. RingOK(l.ring) /\ l.lastID \in Nat /\ GoesUp(l.ring, l.lastID)
  BY <1>0, LoadedFits
<1>. HIDE DEF l, Sound
<1>4. l.ring.count \in Nat /\ l.ring.count <= Capacity
  BY <1>3 DEF RingOK
<1>5. /\ Compacted(l.ring) \in Seq(Line) /\ Len(Compacted(l.ring)) = l.ring.count
      /\ \A i \in 1..Len(Compacted(l.ring)) : Compacted(l.ring)[i].kind = "whole"
  BY <1>3, CompactedFits
<1>6. ASSUME Sound
      PROVE  /\ \A i \in 1..Len(history) : history[i].id = i
             /\ l.lastID = Len(history) /\ l.lastID <= Len(history) /\ HoldsTail(l.ring, history, l.lastID)
             /\ Tells(Compacted(l.ring), history)
  <2>1. (\A i \in 1..Len(history) : history[i].id = i) /\ Tells(disk, history)
    BY <1>6 DEF LogIInv, Counted, FileTells, Sound
  <2>2. HoldsTail(l.ring, history, Len(history)) /\ l.lastID = Len(history)
    BY <1>0, <2>1, LoadedHolds DEF l
  <2>3. Tells(Compacted(l.ring), history)
    BY <1>0, <1>3, <2>2, CompactedTells
  <2>4. l.lastID <= Len(history)
    BY <1>0, <2>2
  <2>. QED BY <2>1, <2>2, <2>3, <2>4
<1>7. ASSUME NEW o \in RewriteOutcomes, Rewritten(o, disk, l.ring), o = "done",
             ring' = l.ring, lastID' = l.lastID, lines' = l.ring.count
      PROVE  LogIInv'
  <2>1. disk' = Compacted(l.ring) /\ open' = TRUE
    BY <1>7 DEF Rewritten
  <2>2. /\ l.ring.count <= l.ring.count /\ l.ring.count <= 2 * Capacity
        /\ l.ring.count <= 2 * Capacity + 1
    BY <1>4
  <2>. QED BY <1>0, <1>1, <1>2, <1>3, <1>4, <1>5, <1>6, <1>7, <2>1, <2>2, LogFrom DEF Sound
<1>8. ASSUME NEW o \in RewriteOutcomes, Rewritten(o, disk, l.ring), o # "done",
             ring' = NoRing, lastID' = 0, lines' = 0
      PROVE  LogIInv'
  <2>1. disk' \in {disk, Compacted(l.ring)} /\ open' = FALSE /\ ~Sound
    BY <1>8 DEF Rewritten, RewriteOutcomes, Sound
  <2>2. l.ring.count <= 2 * Capacity + 1
    BY <1>4
  <2>3. disk' \in Seq(Line) /\ Len(disk') <= 2 * Capacity + 1
    BY <1>0, <1>5, <2>1, <2>2
  <2>4. RingOK(NoRing) /\ GoesUp(NoRing, 0) /\ 0 \in Nat
    BY NoRingOK DEF GoesUp
  <2>. QED BY <1>0, <1>1, <1>2, <1>8, <2>1, <2>3, <2>4, LogFrom DEF Sound
<1>. QED
  BY <1>1, <1>7, <1>8

LEMMA LogStep ==
    ASSUME LogIInv, LogNext, UNCHANGED plan
    PROVE  LogIInv'
BY AppendStep, KillStep, StopStep, StartStep DEF LogNext

-----------------------------------------------------------------------------
(* Since. *)

Walks == [out : Seq(Event), on : BOOLEAN]
NoWalk == [out |-> <<>>, on |-> TRUE]
WalkOn(ev, since, repo, limit, w) ==
    IF ~w.on \/ ev.id <= since THEN [out |-> w.out, on |-> FALSE]
    ELSE IF repo \notin {"", ev.repo} THEN w
    ELSE [out |-> <<ev>> \o w.out, on |-> limit = 0 \/ Len(w.out) + 1 < limit]

LEMMA WalkOnIn ==
    ASSUME NEW ev \in Event, NEW since, NEW repo, NEW limit, NEW w \in Walks
    PROVE  WalkOn(ev, since, repo, limit, w) \in Walks
<1>. DEFINE o == w.out
            b == w.on
            p == <<ev>> \o o
            q == (limit = 0 \/ Len(o) + 1 < limit)
<1>1. o \in Seq(Event) /\ b \in BOOLEAN /\ w = [out |-> o, on |-> b]
  BY DEF Walks
<1>2. p \in Seq(Event)
  BY <1>1
<1>3. q \in BOOLEAN /\ FALSE \in BOOLEAN
  BY Zenon
<1>5. WalkOn(ev, since, repo, limit, w) \in {[out |-> o, on |-> FALSE], w, [out |-> p, on |-> q]}
  BY Zenon DEF WalkOn
<1>. HIDE DEF o, b, p, q
<1>6. \A x \in Seq(Event), y \in BOOLEAN : [out |-> x, on |-> y] \in Walks
  BY DEF Walks
<1>. QED
  BY <1>1, <1>2, <1>3, <1>5, <1>6, Zenon

\* Since walks back event by event.
LEMMA SinceUnfolds ==
    ASSUME RingOK(ring), NEW since, NEW repo, NEW limit
    PROVE  \E f \in [0..ring.count -> Walks] :
               /\ f[0] = NoWalk
               /\ \A k \in 1..ring.count :
                     f[k] = WalkOn(At(ring, ring.count - k), since, repo, limit, f[k - 1])
               /\ Since(since, repo, limit) = f[ring.count].out
<1>. DEFINE n == ring.count
            F(f) == [k \in 0..n |->
                        IF k = 0 THEN [out |-> <<>>, on |-> TRUE]
                        ELSE IF ~f[k - 1].on \/ At(ring, n - k).id <= since
                        THEN [out |-> f[k - 1].out, on |-> FALSE]
                        ELSE IF repo \notin {"", At(ring, n - k).repo} THEN f[k - 1]
                        ELSE [out |-> <<At(ring, n - k)>> \o f[k - 1].out,
                              on |-> limit = 0 \/ Len(f[k - 1].out) + 1 < limit]]
            walk == CHOOSE f : f = F(f)
            st == [k \in 1..n |-> [w \in Walks |-> WalkOn(At(ring, n - k), since, repo, limit, w)]]
<1>0. n \in Nat
  BY DEF RingOK
<1>1. NoWalk \in Walks
  <2>1. <<>> \in Seq(Event) /\ TRUE \in BOOLEAN
    OBVIOUS
  <2>. QED BY <2>1 DEF NoWalk, Walks
<1>2. st \in [1..n -> [Walks -> Walks]]
  <2>1. ASSUME NEW k \in 1..n, NEW w \in Walks
        PROVE  WalkOn(At(ring, n - k), since, repo, limit, w) \in Walks
    <3>1. n - k \in 0..(n - 1)
      BY <1>0
    <3>2. At(ring, n - k) \in Event
      BY <3>1, AtEvent
    <3>. QED BY <3>2, WalkOnIn
  <2>. QED BY <2>1
<1>3. Iterates(n, Walks, NoWalk, st)
  <2>. HIDE DEF st, n
  <2>. QED BY <1>0, <1>1, <1>2, Iterated
<1>4. PICK f \in [0..n -> Walks] : f[0] = NoWalk /\ \A k \in 1..n : f[k] = st[k][f[k - 1]]
  BY <1>3 DEF Iterates
<1>. HIDE DEF n
<1>5. ASSUME NEW k \in 1..n PROVE f[k] = WalkOn(At(ring, n - k), since, repo, limit, f[k - 1])
  <2>1. f[k - 1] \in Walks
    BY <1>0
  <2>2. st[k] = [w \in Walks |-> WalkOn(At(ring, n - k), since, repo, limit, w)]
    OBVIOUS
  <2>. HIDE DEF st
  <2>. QED BY <1>4, <2>1, <2>2
<1>6. ASSUME NEW g PROVE \A k \in 1..n : F(g)[k] = WalkOn(At(ring, n - k), since, repo, limit, g[k - 1])
  <2>. SUFFICES ASSUME NEW k \in 1..n
                PROVE  F(g)[k] = WalkOn(At(ring, n - k), since, repo, limit, g[k - 1])
    OBVIOUS
  <2>1. k \in 0..n /\ k # 0
    BY <1>0
  <2>. QED BY <2>1, Zenon DEF WalkOn
<1>7. ASSUME NEW g PROVE F(g)[0] = NoWalk /\ DOMAIN F(g) = 0..n /\ F(g) = [k \in 0..n |-> F(g)[k]]
  BY <1>0 DEF NoWalk
<1>. HIDE DEF F, st
<1>8. f = F(f)
  <2>1. f = [k \in 0..n |-> f[k]]
    OBVIOUS
  <2>2. \A k \in 0..n : f[k] = F(f)[k]
    BY <1>0, <1>4, <1>5, <1>6, <1>7
  <2>3. F(f) = [k \in 0..n |-> F(f)[k]]
    BY <1>7
  <2>. QED BY <2>1, <2>2, <2>3
<1>9. walk = F(walk)
  BY <1>8
<1>10. Since(since, repo, limit) = walk[n].out
  BY DEF Since, walk, F, n
<1>. HIDE DEF walk
<1>11. walk[0] = NoWalk
       /\ \A k \in 1..n : walk[k] = WalkOn(At(ring, n - k), since, repo, limit, walk[k - 1])
  BY <1>6, <1>7, <1>9
<1>12. \A k \in 0..n : walk[k] = f[k]
  <2>. DEFINE S == {k \in 0..n : walk[k] = f[k]}
  <2>1. 0 \in S
    BY <1>0, <1>4, <1>11
  <2>2. \A k \in 1..n : k - 1 \in S => k \in S
    BY <1>0, <1>5, <1>11
  <2>. HIDE DEF S
  <2>3. \A k \in 0..n : k \in S
    BY <1>0, <2>1, <2>2, Climb
  <2>. QED BY <2>3 DEF S
<1>13. n \in 0..n
  BY <1>0
<1>14. Since(since, repo, limit) = f[n].out
  BY <1>10, <1>12, <1>13
<1>. QED
  BY <1>4, <1>5, <1>14 DEF n

Asked(ev, since, repo) == ev.id > since /\ repo \in {"", ev.repo}

\* What a walk over the newest k events has found, going on or not.
Found(g, since, repo, limit, k, o, on) ==
    /\ \A i \in 1..Len(o) : \E j \in (g.count - k)..(g.count - 1) : o[i] = At(g, j) /\ Asked(o[i], since, repo)
    /\ \A i, j \in 1..Len(o) : i < j => o[i].id < o[j].id
    /\ limit > 0 => Len(o) <= limit /\ (on => Len(o) < limit)
    /\ \A j \in (g.count - k)..(g.count - 1) : Asked(At(g, j), since, repo) =>
          \/ \E i \in 1..Len(o) : o[i] = At(g, j)
          \/ limit > 0 /\ Len(o) = limit /\ At(g, j).id < o[1].id
    /\ ~on => \/ limit > 0 /\ Len(o) = limit
              \/ \A j \in 0..(g.count - k - 1) : At(g, j).id <= since

\* An older event than those found.
LEMMA OlderThanFound ==
    ASSUME NEW g, RingOK(g), NEW last, GoesUp(g, last), NEW since, NEW repo, NEW limit,
           NEW k \in 1..g.count, NEW o \in Seq(Event), NEW on,
           Found(g, since, repo, limit, k - 1, o, on), NEW i \in 1..Len(o)
    PROVE  At(g, g.count - k).id < o[i].id
<1>. DEFINE n == g.count
<1>0. n \in Nat
  BY DEF RingOK
<1>. HIDE DEF n
<1>1. PICK j \in (n - (k - 1))..(n - 1) : o[i] = At(g, j)
  BY DEF Found, n
<1>2. n - k \in 0..(n - 1) /\ j \in 0..(n - 1) /\ n - k < j
  BY <1>0 DEF n
<1>. QED
  BY <1>1, <1>2 DEF GoesUp, n

LEMMA FoundSkip ==
    ASSUME NEW g, RingOK(g), NEW last, GoesUp(g, last), NEW since \in Nat, NEW repo, NEW limit \in Nat,
           NEW k \in 1..g.count, NEW o \in Seq(Event), NEW on, NEW new,
           Found(g, since, repo, limit, k - 1, o, on),
           \/ ~on /\ ~new
           \/ on /\ ~new /\ At(g, g.count - k).id <= since
           \/ on /\ new /\ ~Asked(At(g, g.count - k), since, repo)
    PROVE  Found(g, since, repo, limit, k, o, new)
<1>. DEFINE n == g.count
            m == n - k
            x == At(g, m)
<1>0. /\ n \in Nat /\ Len(o) \in Nat /\ m \in 0..(n - 1) /\ (new => on)
      /\ \A j : j \in m..(n - 1) <=> j = m \/ j \in (n - (k - 1))..(n - 1)
      /\ \A j : j \in 0..(n - k - 1) => j \in 0..(n - (k - 1) - 1) /\ j < m
      /\ m \in 0..(n - (k - 1) - 1)
  <2>1. n \in Nat /\ Len(o) \in Nat
    BY DEF RingOK
  <2>. QED BY <2>1
<1>1. /\ \A i \in 1..Len(o) : \E j \in (n - (k - 1))..(n - 1) : o[i] = At(g, j) /\ Asked(o[i], since, repo)
      /\ \A i, j \in 1..Len(o) : i < j => o[i].id < o[j].id
      /\ limit > 0 => Len(o) <= limit /\ (on => Len(o) < limit)
      /\ \A j \in (n - (k - 1))..(n - 1) : Asked(At(g, j), since, repo) =>
            \/ \E i \in 1..Len(o) : o[i] = At(g, j)
            \/ limit > 0 /\ Len(o) = limit /\ At(g, j).id < o[1].id
      /\ ~on => \/ limit > 0 /\ Len(o) = limit
                \/ \A j \in 0..(n - (k - 1) - 1) : At(g, j).id <= since
  BY DEF Found
<1>2. x.id \in Nat /\ \A j \in 0..(n - 1) : At(g, j).id \in Nat
  BY <1>0, AtEvent
<1>22. \/ ~on /\ ~new
       \/ on /\ ~new /\ x.id <= since
       \/ on /\ new /\ ~Asked(x, since, repo)
  OBVIOUS
<1>. HIDE DEF n, m, x
<1>3. ASSUME Asked(x, since, repo) PROVE limit > 0 /\ Len(o) = limit /\ x.id < o[1].id
  <2>0. ~(x.id <= since)
    <3>1. x.id \in Nat
      BY <1>2
    <3>2. x.id > since
      BY <1>3 DEF Asked
    <3>. QED BY <3>1, <3>2
  <2>1. ~on
    BY <1>3, <1>22, <2>0
  <2>2. limit > 0 /\ Len(o) = limit
    <3>1. ~\A j \in 0..(n - (k - 1) - 1) : At(g, j).id <= since
      BY <1>0, <2>0 DEF x
    <3>. QED BY <1>1, <2>1, <3>1
  <2>3. 1 \in 1..Len(o)
    BY <1>0, <2>2
  <2>. QED BY <2>2, <2>3, OlderThanFound DEF x, m, n
<1>4. ~new => \/ limit > 0 /\ Len(o) = limit
              \/ \A j \in 0..(n - k - 1) : At(g, j).id <= since
  <2>1. CASE ~on
    BY <1>0, <1>1, <2>1
  <2>2. CASE on /\ x.id <= since
    <3>1. ASSUME NEW j \in 0..(n - k - 1) PROVE At(g, j).id <= since
      <4>0. j < m /\ j \in Nat
        <5>1. j < m
          BY <1>0, Zenon
        <5>. QED BY <5>1
      <4>1. j \in 0..(n - 1) /\ j < m
        BY <1>0, <4>0
      <4>2. At(g, j).id < x.id
        BY <1>0, <4>1 DEF GoesUp, x, n
      <4>. QED BY <1>2, <2>2, <4>1, <4>2
    <3>. QED BY <3>1
  <2>. QED BY <1>22, <2>1, <2>2
<1>5. \A i \in 1..Len(o) : \E j \in m..(n - 1) : o[i] = At(g, j) /\ Asked(o[i], since, repo)
  BY <1>0, <1>1
<1>6. \A j \in m..(n - 1) : Asked(At(g, j), since, repo) =>
          \/ \E i \in 1..Len(o) : o[i] = At(g, j)
          \/ limit > 0 /\ Len(o) = limit /\ At(g, j).id < o[1].id
  BY <1>0, <1>1, <1>3 DEF x
<1>7. limit > 0 => Len(o) <= limit /\ (new => Len(o) < limit)
  BY <1>0, <1>1
<1>. QED
  BY <1>1, <1>4, <1>5, <1>6, <1>7 DEF Found, m, n

LEMMA FoundTake ==
    ASSUME NEW g, RingOK(g), NEW last, GoesUp(g, last), NEW since \in Nat, NEW repo, NEW limit \in Nat,
           NEW k \in 1..g.count, NEW o \in Seq(Event), NEW new,
           new <=> limit = 0 \/ Len(o) + 1 < limit,
           Found(g, since, repo, limit, k - 1, o, TRUE),
           Asked(At(g, g.count - k), since, repo)
    PROVE  Found(g, since, repo, limit, k, <<At(g, g.count - k)>> \o o, new)
<1>. DEFINE n == g.count
            m == n - k
            x == At(g, m)
            p == <<x>> \o o
<1>0. /\ n \in Nat /\ Len(o) \in Nat /\ m \in 0..(n - 1)
      /\ \A j : j \in m..(n - 1) <=> j = m \/ j \in (n - (k - 1))..(n - 1)
      /\ m \in m..(n - 1)
  <2>1. n \in Nat /\ Len(o) \in Nat
    BY DEF RingOK
  <2>. QED BY <2>1
<1>1. /\ \A i \in 1..Len(o) : \E j \in (n - (k - 1))..(n - 1) : o[i] = At(g, j) /\ Asked(o[i], since, repo)
      /\ \A i, j \in 1..Len(o) : i < j => o[i].id < o[j].id
      /\ limit > 0 => Len(o) < limit
      /\ \A j \in (n - (k - 1))..(n - 1) : Asked(At(g, j), since, repo) =>
            \E i \in 1..Len(o) : o[i] = At(g, j)
  <2>1. limit > 0 => Len(o) < limit
    BY DEF Found
  <2>2. limit > 0 => Len(o) # limit
    BY <1>0, <2>1
  <2>3. /\ \A i \in 1..Len(o) : \E j \in (n - (k - 1))..(n - 1) : o[i] = At(g, j) /\ Asked(o[i], since, repo)
        /\ \A i, j \in 1..Len(o) : i < j => o[i].id < o[j].id
        /\ \A j \in (n - (k - 1))..(n - 1) : Asked(At(g, j), since, repo) =>
              \/ \E i \in 1..Len(o) : o[i] = At(g, j)
              \/ limit > 0 /\ Len(o) = limit /\ At(g, j).id < o[1].id
    BY DEF Found
  <2>. QED BY <2>1, <2>2, <2>3
<1>2. x \in Event
  BY <1>0, AtEvent
<1>. HIDE DEF n, m, x
<1>3. /\ Len(p) = Len(o) + 1 /\ p[1] = x /\ \A i \in 1..Len(o) : p[i + 1] = o[i]
      /\ \A i \in 2..(Len(o) + 1) : i - 1 \in 1..Len(o) /\ p[i] = o[i - 1]
  BY <1>0, <1>2
<1>. HIDE DEF p
<1>4. \A i \in 1..Len(p) : i = 1 \/ i \in 2..(Len(o) + 1)
  BY <1>0, <1>3
<1>5. ASSUME NEW i \in 1..Len(p)
      PROVE  \E j \in m..(n - 1) : p[i] = At(g, j) /\ Asked(p[i], since, repo)
  <2>1. CASE i = 1
    BY <1>0, <1>3, <2>1 DEF x, m, n
  <2>2. CASE i \in 2..(Len(o) + 1)
    <3>1. i - 1 \in 1..Len(o) /\ p[i] = o[i - 1]
      BY <1>3, <2>2
    <3>2. PICK j \in (n - (k - 1))..(n - 1) : o[i - 1] = At(g, j) /\ Asked(o[i - 1], since, repo)
      BY <1>1, <3>1
    <3>3. j \in m..(n - 1)
      BY <1>0, <3>2
    <3>. QED BY <3>1, <3>2, <3>3
  <2>. QED BY <1>4, <2>1, <2>2
<1>6. ASSUME NEW i \in 1..Len(p), NEW j \in 1..Len(p), i < j PROVE p[i].id < p[j].id
  <2>1. j \in 2..(Len(o) + 1)
    BY <1>0, <1>3, <1>6
  <2>2. CASE i = 1
    <3>1. x.id < o[j - 1].id
      BY <1>3, <2>1, OlderThanFound DEF x, m, n
    <3>. QED BY <1>3, <2>1, <2>2, <3>1
  <2>3. CASE i \in 2..(Len(o) + 1)
    <3>1. i - 1 < j - 1
      BY <1>6
    <3>. QED BY <1>1, <1>3, <2>1, <2>3, <3>1
  <2>. QED BY <1>4, <2>2, <2>3
<1>7. ASSUME NEW j \in m..(n - 1), Asked(At(g, j), since, repo)
      PROVE  \E i \in 1..Len(p) : p[i] = At(g, j)
  <2>1. CASE j = m
    <3>1. 1 \in 1..Len(p)
      BY <1>0, <1>3
    <3>. QED BY <1>3, <2>1, <3>1 DEF x
  <2>2. CASE j \in (n - (k - 1))..(n - 1)
    <3>1. PICK i \in 1..Len(o) : o[i] = At(g, j)
      BY <1>1, <1>7, <2>2
    <3>2. i + 1 \in 1..Len(p) /\ p[i + 1] = At(g, j)
      BY <1>0, <1>3, <3>1
    <3>. QED BY <3>2
  <2>. QED BY <1>0, <2>1, <2>2
<1>8. limit > 0 => /\ Len(p) <= limit /\ (new => Len(p) < limit)
  BY <1>0, <1>1, <1>3
<1>9. ~new => limit > 0 /\ Len(p) = limit
  BY <1>0, <1>1, <1>3
<1>10. Found(g, since, repo, limit, k, p, new)
  BY <1>5, <1>6, <1>7, <1>8, <1>9 DEF Found, m, n
<1>. QED
  BY <1>10 DEF p, x, m, n

LEMMA SinceFinds ==
    ASSUME RingOK(ring), NEW last, GoesUp(ring, last), NEW since \in Nat, NEW repo, NEW limit \in Nat
    PROVE  /\ Since(since, repo, limit) \in Seq(Event)
           /\ \E on : Found(ring, since, repo, limit, ring.count, Since(since, repo, limit), on)
<1>. DEFINE n == ring.count
<1>0. n \in Nat /\ n \in 0..n
  BY DEF RingOK
<1>1. PICK f \in [0..n -> Walks] :
           /\ f[0] = NoWalk
           /\ \A k \in 1..n : f[k] = WalkOn(At(ring, n - k), since, repo, limit, f[k - 1])
           /\ Since(since, repo, limit) = f[n].out
  BY SinceUnfolds
<1>. DEFINE S == {k \in 0..n : Found(ring, since, repo, limit, k, f[k].out, f[k].on)}
<1>2. 0 \in S
  <2>1. f[0].out = <<>> /\ f[0].on = TRUE /\ Len(f[0].out) = 0
    BY <1>1 DEF NoWalk
  <2>2. Found(ring, since, repo, limit, 0, f[0].out, f[0].on)
    <3>. DEFINE o == f[0].out
    <3>1. Len(o) = 0
      BY <2>1
    <3>. HIDE DEF o
    <3>2. Found(ring, since, repo, limit, 0, o, TRUE)
      BY <1>0, <3>1 DEF Found
    <3>. QED BY <2>1, <3>2, Zenon DEF o
  <2>. QED BY <1>0, <2>2
<1>3. ASSUME NEW k \in 1..n, k - 1 \in S PROVE k \in S
  <2>. DEFINE w == f[k - 1]
              o == w.out
              b == w.on
              x == At(ring, n - k)
  <2>1. w \in Walks /\ f[k] = WalkOn(x, since, repo, limit, w) /\ k \in 0..n
    BY <1>0, <1>1
  <2>2. o \in Seq(Event) /\ b \in BOOLEAN
    BY <2>1 DEF Walks
  <2>3. Found(ring, since, repo, limit, k - 1, o, b)
    BY <1>3
  <2>4. x \in Event /\ x.id \in Nat
    <3>1. n - k \in 0..(n - 1)
      BY <1>0
    <3>. QED BY <3>1, AtEvent
  <2>. HIDE DEF w, o, b, x
  <2>5. CASE ~b \/ x.id <= since
    <3>1. f[k] = [out |-> o, on |-> FALSE]
      BY <2>1, <2>5 DEF WalkOn, o, b
    <3>2. Found(ring, since, repo, limit, k, o, FALSE)
      <4>1. ASSUME NEW y, ~y PROVE Found(ring, since, repo, limit, k, o, y)
        <5>1. CASE ~b
          BY <2>2, <2>3, <4>1, <5>1, FoundSkip
        <5>2. CASE b /\ x.id <= since
          BY <2>2, <2>3, <4>1, <5>2, FoundSkip DEF x
        <5>. QED BY <2>5, <5>1, <5>2
      <4>. QED BY <4>1, Zenon
    <3>3. f[k].out = o /\ f[k].on = FALSE
      BY <3>1
    <3>. QED BY <2>1, <3>2, <3>3
  <2>6. CASE b /\ ~(x.id <= since) /\ repo \notin {"", x.repo}
    <3>1. f[k] = w
      BY <2>1, <2>6 DEF WalkOn, o, b
    <3>2. ~Asked(x, since, repo)
      BY <2>6 DEF Asked
    <3>3. Found(ring, since, repo, limit, k, o, b)
      <4>1. ASSUME NEW y, y PROVE Found(ring, since, repo, limit, k, o, y)
        BY <2>2, <2>3, <2>6, <3>2, <4>1, FoundSkip DEF x
      <4>. QED BY <2>6, <4>1, Zenon
    <3>. QED BY <2>1, <3>1, <3>3 DEF o, b
  <2>7. CASE b /\ ~(x.id <= since) /\ repo \in {"", x.repo}
    <3>. DEFINE p == <<x>> \o o
                q == (limit = 0 \/ Len(o) + 1 < limit)
    <3>1. f[k] = [out |-> p, on |-> q]
      BY <2>1, <2>7, Zenon DEF WalkOn, o, b
    <3>2. Asked(x, since, repo)
      <4>1. ~(x.id <= since)
        BY <2>7
      <4>2. x.id \in Nat
        BY <2>4
      <4>3. x.id > since
        BY <4>1, <4>2
      <4>. QED BY <2>7, <4>3 DEF Asked
    <3>3. b = TRUE
      BY <2>2, <2>7
    <3>4. Found(ring, since, repo, limit, k - 1, o, TRUE)
      BY <2>3, <3>3
    <3>5. ASSUME NEW y, y <=> limit = 0 \/ Len(o) + 1 < limit PROVE Found(ring, since, repo, limit, k, p, y)
      BY <2>2, <3>2, <3>4, <3>5, FoundTake DEF x
    <3>6. Found(ring, since, repo, limit, k, p, q)
      BY <3>5, Zenon
    <3>. HIDE DEF p, q
    <3>7. f[k].out = p /\ f[k].on = q
      BY <3>1
    <3>. QED BY <2>1, <3>6, <3>7, Zenon
  <2>. QED BY <2>2, <2>5, <2>6, <2>7
<1>4. n \in S
  <2>. HIDE DEF S, n
  <2>. QED BY <1>0, <1>2, <1>3, Climb
<1>5. f[n] \in Walks
  BY <1>0
<1>6. f[n].out \in Seq(Event)
  BY <1>5 DEF Walks
<1>7. Found(ring, since, repo, limit, n, f[n].out, f[n].on)
  BY <1>4
<1>. QED
  BY <1>1, <1>6, <1>7

\* What Since returns, of a ring in order.
LEMMA SinceFacts ==
    ASSUME RingOK(ring), NEW last, GoesUp(ring, last), NEW since \in Nat, NEW repo, NEW limit \in Nat
    PROVE  LET got == Since(since, repo, limit)
           IN /\ got \in Seq(Event)
              /\ \A i, j \in 1..Len(got) : i < j => got[i].id < got[j].id
              /\ \A i \in 1..Len(got) :
                    Asked(got[i], since, repo) /\ \E j \in 0..(ring.count - 1) : got[i] = At(ring, j)
              /\ limit > 0 => Len(got) <= limit
              /\ \A j \in 0..(ring.count - 1) : Asked(At(ring, j), since, repo) =>
                    \/ \E i \in 1..Len(got) : got[i] = At(ring, j)
                    \/ limit > 0 /\ Len(got) = limit /\ At(ring, j).id < got[1].id
<1>. DEFINE got == Since(since, repo, limit)
            n == ring.count
<1>1. PICK on : got \in Seq(Event) /\ Found(ring, since, repo, limit, n, got, on)
  BY SinceFinds
<1>2. n \in Nat /\ n - n = 0
  BY DEF RingOK
<1>. HIDE DEF got
<1>3. /\ \A i \in 1..Len(got) : \E j \in (n - n)..(n - 1) : got[i] = At(ring, j) /\ Asked(got[i], since, repo)
      /\ \A i, j \in 1..Len(got) : i < j => got[i].id < got[j].id
      /\ limit > 0 => Len(got) <= limit
      /\ \A j \in (n - n)..(n - 1) : Asked(At(ring, j), since, repo) =>
            \/ \E i \in 1..Len(got) : got[i] = At(ring, j)
            \/ limit > 0 /\ Len(got) = limit /\ At(ring, j).id < got[1].id
  BY <1>1 DEF Found
<1>. QED
  BY <1>1, <1>2, <1>3 DEF got

LEMMA SinceExactAt ==
    ASSUME LogIInv, NEW since \in Nat, NEW repo, NEW limit \in Nat
    PROVE  LET got == Since(since, repo, limit)
               wanted == Wanted(since, repo)
           IN /\ Range(got) \subseteq wanted
              /\ \A i, j \in DOMAIN got : i < j => got[i].id < got[j].id
              /\ limit > 0 => Len(got) <= limit
              /\ \A ev \in wanted \ Range(got) :
                    limit > 0 /\ Len(got) = limit /\ ev.id < got[1].id
<1>. DEFINE got == Since(since, repo, limit)
            wanted == Wanted(since, repo)
            n == ring.count
<1>00. lastID \in Nat /\ ring.count \in 0..Capacity
  BY LogFacts
<1>0. RingOK(ring) /\ GoesUp(ring, lastID)
  BY LogFacts
<1>1. /\ got \in Seq(Event)
      /\ \A i, j \in 1..Len(got) : i < j => got[i].id < got[j].id
      /\ \A i \in 1..Len(got) : Asked(got[i], since, repo) /\ \E j \in 0..(n - 1) : got[i] = At(ring, j)
      /\ limit > 0 => Len(got) <= limit
      /\ \A j \in 0..(n - 1) : Asked(At(ring, j), since, repo) =>
            \/ \E i \in 1..Len(got) : got[i] = At(ring, j)
            \/ limit > 0 /\ Len(got) = limit /\ At(ring, j).id < got[1].id
  BY <1>0, SinceFacts
<1>2. \A ev : ev \in wanted <=> Asked(ev, since, repo) /\ \E j \in 0..(n - 1) : ev = At(ring, j)
  <2>1. \A ev : ev \in Range(Held(ring)) <=> \E j \in 0..(n - 1) : ev = At(ring, j)
    <3>1. \A ev : ev \in Range(Held(ring)) <=> \E i \in 1..n : ev = At(ring, i - 1)
      BY DEF Range, Held
    <3>2. \A i \in 1..n : i - 1 \in 0..(n - 1)
      BY <1>00
    <3>3. \A j \in 0..(n - 1) : j + 1 \in 1..n /\ (j + 1) - 1 = j
      BY <1>00
    <3>. QED BY <3>1, <3>2, <3>3
  <2>. QED BY <2>1 DEF Wanted, Asked
<1>. HIDE DEF got, wanted, n
<1>3. DOMAIN got = 1..Len(got) /\ \A ev : ev \in Range(got) <=> \E i \in 1..Len(got) : got[i] = ev
  <2>1. got \in Seq(Event)
    BY <1>1
  <2>2. DOMAIN got = 1..Len(got)
    BY <2>1
  <2>. QED BY <2>2, Zenon DEF Range
<1>4. Range(got) \subseteq wanted
  BY <1>1, <1>2, <1>3
<1>5. \A ev \in wanted \ Range(got) : limit > 0 /\ Len(got) = limit /\ ev.id < got[1].id
  <2>. SUFFICES ASSUME NEW ev \in wanted \ Range(got)
                PROVE  limit > 0 /\ Len(got) = limit /\ ev.id < got[1].id
    OBVIOUS
  <2>1. PICK j \in 0..(n - 1) : ev = At(ring, j) /\ Asked(At(ring, j), since, repo)
    BY <1>2, Zenon
  <2>2. ~\E i \in 1..Len(got) : got[i] = At(ring, j)
    BY <1>3, <2>1, Zenon
  <2>. QED BY <1>1, <2>1, <2>2
<1>. QED
  BY <1>1, <1>3, <1>4, <1>5 DEF got, wanted

LEMMA SinceExact == LogIInv => SinceIsExact
<1>1. LogIInv => lastID \in Nat
  BY LogFacts
<1>2. LogIInv => \A since \in 0..lastID, limit \in 0..Capacity : since \in Nat /\ limit \in Nat
  BY <1>1
<1>. QED BY <1>2, SinceExactAt, Zenon DEF SinceIsExact

-----------------------------------------------------------------------------
(* What the invariant says of the log. *)

LEMMA HeldFits ==
    ASSUME LogIInv
    PROVE  /\ Held(ring) \in Seq(Event) /\ Len(Held(ring)) = ring.count
           /\ \A i \in 1..ring.count : Held(ring)[i] = At(ring, i - 1)
<1>. DEFINE n == ring.count
            s == [i \in 1..n |-> At(ring, i - 1)]
<1>1. n \in Nat /\ RingOK(ring)
  BY LogFacts
<1>2. \A i \in 1..n : At(ring, i - 1) \in Event
  <2>1. \A i \in 1..n : i - 1 \in 0..(n - 1)
    BY <1>1
  <2>. QED BY <1>1, <2>1, AtEvent
<1>3. Held(ring) = s
  BY DEF Held
<1>. HIDE DEF n
<1>4. s \in Seq(Event) /\ Len(s) = n /\ \A i \in 1..n : s[i] = At(ring, i - 1)
  BY <1>1, <1>2
<1>. QED
  BY <1>3, <1>4 DEF n

LEMMA LogInvHolds == LogIInv => LogInv
<1>. SUFFICES ASSUME LogIInv PROVE LogInv
  OBVIOUS
<1>. DEFINE n == ring.count
            held == Held(ring)
<1>1. /\ n \in 0..Capacity /\ n \in Nat /\ RingOK(ring) /\ GoesUp(ring, lastID)
      /\ Len(disk) <= 2 * Capacity + 1
  BY LogFacts
<1>2. LogTypeOK
  <2>1. ring.buf \in [0..(n - 1) -> Event] /\ ring.start \in 0..(Capacity - 1)
    BY <1>1 DEF RingOK
  <2>2. DOMAIN ring.buf \subseteq 0..(Capacity - 1)
    <3>1. 0..(n - 1) \subseteq 0..(Capacity - 1)
      BY <1>1
    <3>. HIDE DEF n
    <3>. QED BY <2>1, <3>1
  <2>3. Range(ring.buf) \subseteq Event
    BY <2>1 DEF Range
  <2>. QED BY <1>1, <2>1, <2>2, <2>3, LogFacts DEF LogTypeOK
<1>3. RingInOrder
  <2>. SUFFICES /\ \A i, j \in 1..n : i < j => held[i].id < held[j].id
                /\ n > 0 => Last(held).id = lastID
    BY DEF RingInOrder
  <2>1. held \in Seq(Event) /\ Len(held) = n /\ \A i \in 1..n : held[i] = At(ring, i - 1)
    BY HeldFits
  <2>2. /\ \A i, j \in 0..(n - 1) : i < j => At(ring, i).id < At(ring, j).id
        /\ n > 0 => At(ring, n - 1).id = lastID
    BY <1>1 DEF GoesUp
  <2>. HIDE DEF held, n
  <2>3. ASSUME NEW i \in 1..n, NEW j \in 1..n, i < j PROVE held[i].id < held[j].id
    <3>1. i - 1 \in 0..(n - 1) /\ j - 1 \in 0..(n - 1) /\ i - 1 < j - 1
      BY <1>1, <2>3
    <3>. QED BY <2>1, <2>2, <3>1
  <2>4. ASSUME n > 0 PROVE Last(held).id = lastID
    <3>1. n \in 1..n
      BY <1>1, <2>4
    <3>2. Last(held) = held[n]
      BY <2>1 DEF Last
    <3>. QED BY <2>1, <2>2, <2>4, <3>1, <3>2
  <2>. QED BY <2>3, <2>4
<1>. QED
  BY <1>1, <1>2, <1>3 DEF LogInv, FileBounded

LEMMA RemembersHolds == LogIInv => RemembersEvents
<1>. SUFFICES ASSUME LogIInv, life = "up", Faults \subseteq {"kill"}
              PROVE  Held(ring) = IF Len(history) <= Capacity THEN history
                                  ELSE SubSeq(history, Len(history) - Capacity + 1, Len(history))
  BY DEF RemembersEvents
<1>. DEFINE n == ring.count
            held == Held(ring)
            m == Len(history)
<1>1. HoldsTail(ring, history, m) /\ m \in Nat /\ history \in Seq(Event)
  <2>1. lastID = m /\ HoldsTail(ring, history, lastID)
    BY DEF LogIInv, Counted
  <2>. QED BY <2>1, LogFacts
<1>2. n = (IF m <= Capacity THEN m ELSE Capacity) /\ \A i \in 0..(n - 1) : At(ring, i) = history[m - n + i + 1]
  BY <1>1 DEF HoldsTail
<1>3. held \in Seq(Event) /\ Len(held) = n /\ \A i \in 1..n : held[i] = At(ring, i - 1)
  BY HeldFits
<1>4. m = Len(history)
  OBVIOUS
<1>. HIDE DEF n, held, m
<1>5. \A i \in 1..n : held[i] = history[m - n + i]
  <2>. SUFFICES ASSUME NEW i \in 1..n PROVE held[i] = history[m - n + i]
    OBVIOUS
  <2>1. i - 1 \in 0..(n - 1) /\ m - n + (i - 1) + 1 = m - n + i
    BY <1>1, <1>2
  <2>. QED BY <1>2, <1>3, <2>1
<1>6. CASE m <= Capacity
  <2>1. n = m /\ \A i \in 1..m : m - n + i = i
    BY <1>1, <1>2, <1>6
  <2>2. \A i \in 1..m : held[i] = history[i]
    BY <1>5, <2>1
  <2>3. held = history
    BY <1>1, <1>3, <1>4, <2>1, <2>2
  <2>. QED BY <1>6, <2>3 DEF held, m
<1>7. CASE ~(m <= Capacity)
  <2>. DEFINE s == SubSeq(history, m - Capacity + 1, m)
  <2>1. n = Capacity /\ m - Capacity + 1 \in 1..(m + 1)
    BY <1>1, <1>2, <1>7
  <2>2. s \in Seq(Event) /\ Len(s) = n /\ \A i \in 1..n : s[i] = history[m - Capacity + 1 + i - 1]
    BY <1>1, <1>4, <1>7, <2>1
  <2>3. \A i \in 1..n : m - Capacity + 1 + i - 1 = m - n + i
    BY <1>1, <2>1
  <2>. HIDE DEF s
  <2>4. \A i \in 1..n : held[i] = s[i]
    BY <1>5, <2>2, <2>3
  <2>5. held = s
    BY <1>3, <2>2, <2>4
  <2>. QED BY <1>7, <2>5 DEF held, m, s
<1>. QED
  BY <1>6, <1>7

LEMMA LogInductive ==
    LogIInv /\ [Next /\ UNCHANGED plan]_<<followerVars, plan>> => LogIInv'
<1>. SUFFICES ASSUME LogIInv, [Next /\ UNCHANGED plan]_<<followerVars, plan>> PROVE LogIInv'
  OBVIOUS
<1>1. CASE LogNext /\ UNCHANGED plan
  BY <1>1, LogStep
<1>2. CASE ClientNext /\ UNCHANGED plan
  <2>1. UNCHANGED logVars
    BY <1>2 DEF ClientNext, AskEvents, AskLast, Subscribe, AskGap, ReadFrame, CutOff
  <2>. QED BY <1>2, <2>1, LogStill
<1>3. CASE UNCHANGED <<followerVars, plan>>
  BY <1>3, LogStill DEF followerVars
<1>. QED
  BY <1>1, <1>2, <1>3 DEF Next

\* Ring, identifiers, file and history fit together as LogIInv says, after
\* every step of the daemon, its file system and its client (EventLog).
THEOREM LogInvariant == Spec => []LogIInv
<1>1. Init => LogIInv
  BY LogInitInv DEF Init
<1>. QED
  BY <1>1, LogInductive, PTL DEF Spec

\* Whatever the file system and the process do to it, the log's ring stays in
\* order and in step with the last identifier given, and its file within twice
\* the capacity and a line (push, load, Append, rewrite).
THEOREM EventLogInOrder == Spec => []LogInv
BY LogInvariant, LogInvHolds, PTL

\* While the daemon is up its log holds the last events that were emitted, the
\* ones of earlier starts included, if nothing worse than kills happens: also
\* kills in the middle of a write (Append, load).
THEOREM EventLogRemembers == Spec => []RemembersEvents
BY LogInvariant, RemembersHolds, PTL

\* Since answers every question, of any identifier, repository and limit, with
\* the newest of the events asked for, oldest first.
THEOREM SinceAnswersExactly == Spec => []SinceIsExact
BY LogInvariant, SinceExact, PTL

-----------------------------------------------------------------------------
(* What the client prints. *)

PrintOne(ev, last, p) == IF ev.id <= last THEN Append(p, ev) ELSE p

LEMMA PrintOneIn ==
    ASSUME NEW ev \in Event, NEW last, NEW p \in Seq(Event)
    PROVE  PrintOne(ev, last, p) \in Seq(Event)
BY DEF PrintOne

\* The events are printed one by one.
OneByOne(out, events, last) ==
    \E f \in [0..Len(events) -> Seq(Event)] :
        /\ f[0] = out /\ \A i \in 1..Len(events) : f[i] = PrintOne(events[i], last, f[i - 1])
        /\ Printing(out, events, last) = f[Len(events)]

LEMMA PrintingUnfolds ==
    ASSUME NEW out \in Seq(Event), NEW events \in Seq(Event), NEW last
    PROVE  OneByOne(out, events, last)
<1>. DEFINE n == Len(events)
            V == Seq(Event)
            F(f) == [i \in 0..n |->
                        IF i = 0 THEN out
                        ELSE IF events[i].id <= last THEN Append(f[i - 1], events[i]) ELSE f[i - 1]]
            print == CHOOSE f : f = F(f)
            st == [i \in 1..n |-> [p \in V |-> PrintOne(events[i], last, p)]]
<1>0. n \in Nat
  OBVIOUS
<1>1. out \in V
  OBVIOUS
<1>2. st \in [1..n -> [V -> V]]
  <2>1. ASSUME NEW i \in 1..n, NEW p \in V PROVE PrintOne(events[i], last, p) \in V
    <3>1. events[i] \in Event
      OBVIOUS
    <3>2. p \in Seq(Event)
      OBVIOUS
    <3>. QED BY <3>1, <3>2, PrintOneIn
  <2>. HIDE DEF V
  <2>. QED BY <2>1
<1>3. Iterates(n, V, out, st)
  <2>. HIDE DEF st, n, V
  <2>. QED BY <1>0, <1>1, <1>2, Iterated
<1>4. PICK f \in [0..n -> V] : f[0] = out /\ \A i \in 1..n : f[i] = st[i][f[i - 1]]
  BY <1>3 DEF Iterates
<1>. HIDE DEF V
<1>5. ASSUME NEW i \in 1..n PROVE f[i] = PrintOne(events[i], last, f[i - 1])
  <2>1. f[i - 1] \in V
    OBVIOUS
  <2>2. st[i] = [p \in V |-> PrintOne(events[i], last, p)]
    OBVIOUS
  <2>. HIDE DEF st
  <2>. QED BY <1>4, <2>1, <2>2
<1>6. ASSUME NEW g PROVE \A i \in 1..n : F(g)[i] = PrintOne(events[i], last, g[i - 1])
  BY DEF PrintOne
<1>7. ASSUME NEW g PROVE F(g)[0] = out /\ DOMAIN F(g) = 0..n /\ F(g) = [i \in 0..n |-> F(g)[i]]
  OBVIOUS
<1>. HIDE DEF F, st
<1>8. f = F(f)
  <2>1. f = [i \in 0..n |-> f[i]]
    OBVIOUS
  <2>2. ASSUME NEW i \in 0..n PROVE f[i] = F(f)[i]
    <3>1. CASE i = 0
      BY <1>4, <1>7, <3>1
    <3>2. CASE i \in 1..n
      BY <1>5, <1>6, <3>2
    <3>. QED BY <1>0, <3>1, <3>2
  <2>3. F(f) = [i \in 0..n |-> F(f)[i]]
    BY <1>7
  <2>. QED BY <2>1, <2>2, <2>3
<1>9. print = F(print)
  BY <1>8
<1>10. Printing(out, events, last) = print[n]
  BY DEF Printing, print, F
<1>. HIDE DEF print
<1>11. print[0] = out /\ \A i \in 1..n : print[i] = PrintOne(events[i], last, print[i - 1])
  BY <1>6, <1>7, <1>9
<1>12. \A i \in 0..n : print[i] = f[i]
  <2>. DEFINE S == {i \in 0..n : print[i] = f[i]}
  <2>1. 0 \in S
    BY <1>4, <1>11
  <2>2. \A i \in 1..n : i - 1 \in S => i \in S
    BY <1>5, <1>11
  <2>. HIDE DEF S
  <2>3. \A i \in 0..n : i \in S
    BY <1>0, <2>1, <2>2, Climb
  <2>. QED BY <2>3 DEF S
<1>. QED
  BY <1>4, <1>5, <1>10, <1>12 DEF V, OneByOne

\* p is out and, in order, the first k of the events up to last.
Prints(out, events, last, k, p) ==
    /\ \A i \in 1..Len(p) : \/ \E j \in 1..Len(out) : p[i] = out[j]
                            \/ \E j \in 1..k : p[i] = events[j] /\ events[j].id <= last
    /\ \A j \in 1..Len(out) : \E i \in 1..Len(p) : p[i] = out[j]
    /\ \A j \in 1..k : events[j].id <= last => \E i \in 1..Len(p) : p[i] = events[j]
    /\ \A i, j \in 1..Len(p) : i < j => p[i].id < p[j].id

LEMMA PrintsOneMore ==
    ASSUME NEW out \in Seq(Event), NEW events \in Seq(Event), NEW last \in Nat,
           NEW k \in 1..Len(events), NEW p \in Seq(Event),
           \A i, j \in 1..Len(events) : i < j => events[i].id < events[j].id,
           \A i \in 1..Len(out), j \in 1..Len(events) : out[i].id < events[j].id,
           Prints(out, events, last, k - 1, p)
    PROVE  Prints(out, events, last, k, PrintOne(events[k], last, p))
<1>. DEFINE ev == events[k]
            n == Len(events)
<1>0. ev \in Event /\ n \in Nat /\ k \in 1..n
  OBVIOUS
<1>1. /\ \A i \in 1..Len(p) : \/ \E j \in 1..Len(out) : p[i] = out[j]
                              \/ \E j \in 1..(k - 1) : p[i] = events[j] /\ events[j].id <= last
      /\ \A j \in 1..Len(out) : \E i \in 1..Len(p) : p[i] = out[j]
      /\ \A j \in 1..(k - 1) : events[j].id <= last => \E i \in 1..Len(p) : p[i] = events[j]
      /\ \A i, j \in 1..Len(p) : i < j => p[i].id < p[j].id
  BY DEF Prints
<1>2. \A j \in 1..k : j = k \/ j \in 1..(k - 1)
  OBVIOUS
<1>3. 1..(k - 1) \subseteq 1..k /\ k \in 1..k
  OBVIOUS
<1>4. CASE ~(ev.id <= last)
  <2>1. PrintOne(ev, last, p) = p
    BY <1>4 DEF PrintOne
  <2>2. Prints(out, events, last, k, p)
    BY <1>1, <1>2, <1>3, <1>4 DEF Prints
  <2>. QED BY <2>1, <2>2
<1>5. CASE ev.id <= last
  <2>. DEFINE q == Append(p, ev)
  <2>1. PrintOne(ev, last, p) = q
    BY <1>5 DEF PrintOne
  <2>2. /\ Len(q) = Len(p) + 1 /\ Len(p) \in Nat /\ q[Len(p) + 1] = ev
        /\ \A i \in 1..Len(p) : q[i] = p[i]
    BY <1>0
  <2>3. ASSUME NEW i \in 1..Len(p) PROVE p[i].id < ev.id
    <3>1. CASE \E j \in 1..Len(out) : p[i] = out[j]
      BY <1>0, <3>1
    <3>2. CASE \E j \in 1..(k - 1) : p[i] = events[j]
      <4>1. PICK j \in 1..(k - 1) : p[i] = events[j]
        BY <3>2
      <4>2. j \in 1..n /\ j < k
        BY <1>0
      <4>. QED BY <1>0, <4>1, <4>2
    <3>. QED BY <1>1, <3>1, <3>2
  <2>. HIDE DEF q, ev
  <2>4. \A i \in 1..Len(q) : i = Len(p) + 1 \/ i \in 1..Len(p)
    BY <2>2
  <2>5. Len(p) + 1 \in 1..Len(q) /\ 1..Len(p) \subseteq 1..Len(q)
    BY <2>2
  <2>6. ASSUME NEW i \in 1..Len(q)
        PROVE  \/ \E j \in 1..Len(out) : q[i] = out[j]
               \/ \E j \in 1..k : q[i] = events[j] /\ events[j].id <= last
    <3>1. CASE i = Len(p) + 1
      <4>1. q[i] = events[k] /\ events[k].id <= last
        BY <1>5, <2>2, <3>1 DEF ev
      <4>. QED BY <1>3, <4>1
    <3>2. CASE i \in 1..Len(p)
      <4>1. q[i] = p[i]
        BY <2>2, <3>2
      <4>. QED BY <1>1, <1>3, <3>2, <4>1
    <3>. QED BY <2>4, <3>1, <3>2
  <2>7. ASSUME NEW j \in 1..Len(out) PROVE \E i \in 1..Len(q) : q[i] = out[j]
    BY <1>1, <2>2, <2>5
  <2>8. ASSUME NEW j \in 1..k, events[j].id <= last PROVE \E i \in 1..Len(q) : q[i] = events[j]
    <3>1. CASE j = k
      BY <2>2, <2>5, <3>1 DEF ev
    <3>2. CASE j \in 1..(k - 1)
      BY <1>1, <2>2, <2>5, <2>8, <3>2
    <3>. QED BY <1>2, <3>1, <3>2
  <2>9. ASSUME NEW i \in 1..Len(q), NEW j \in 1..Len(q), i < j PROVE q[i].id < q[j].id
    <3>1. i \in 1..Len(p)
      BY <2>2, <2>9
    <3>2. CASE j = Len(p) + 1
      BY <2>2, <2>3, <3>1, <3>2
    <3>3. CASE j \in 1..Len(p)
      BY <1>1, <2>2, <2>9, <3>1, <3>3
    <3>. QED BY <2>4, <3>2, <3>3
  <2>10. Prints(out, events, last, k, q)
    BY <2>6, <2>7, <2>8, <2>9 DEF Prints
  <2>. QED BY <2>1, <2>10 DEF ev
<1>. QED
  BY <1>4, <1>5

LEMMA PrintingFacts ==
    ASSUME NEW out \in Seq(Event), NEW events \in Seq(Event), NEW last \in Nat,
           \A i, j \in 1..Len(out) : i < j => out[i].id < out[j].id,
           \A i, j \in 1..Len(events) : i < j => events[i].id < events[j].id,
           \A i \in 1..Len(out), j \in 1..Len(events) : out[i].id < events[j].id
    PROVE  /\ Printing(out, events, last) \in Seq(Event)
           /\ Prints(out, events, last, Len(events), Printing(out, events, last))
<1>. DEFINE n == Len(events)
<1>0. n \in Nat /\ n \in 0..n
  OBVIOUS
<1>1. PICK f \in [0..n -> Seq(Event)] :
           /\ f[0] = out /\ \A i \in 1..n : f[i] = PrintOne(events[i], last, f[i - 1])
           /\ Printing(out, events, last) = f[n]
  <2>1. OneByOne(out, events, last)
    BY PrintingUnfolds
  <2>. QED BY <2>1, Zenon DEF OneByOne
<1>. DEFINE S == {k \in 0..n : Prints(out, events, last, k, f[k])}
<1>2. 0 \in S
  <2>1. Prints(out, events, last, 0, out)
    BY DEF Prints
  <2>. QED BY <1>0, <1>1, <2>1
<1>3. ASSUME NEW k \in 1..n, k - 1 \in S PROVE k \in S
  <2>1. f[k - 1] \in Seq(Event) /\ k \in 0..n /\ Prints(out, events, last, k - 1, f[k - 1])
    BY <1>3
  <2>2. Prints(out, events, last, k, PrintOne(events[k], last, f[k - 1]))
    BY <2>1, PrintsOneMore
  <2>. QED BY <1>1, <2>1, <2>2
<1>4. n \in S
  <2>. HIDE DEF S, n
  <2>. QED BY <1>0, <1>2, <1>3, Climb
<1>5. f[n] \in Seq(Event) /\ Prints(out, events, last, n, f[n])
  BY <1>0, <1>4
<1>. QED
  BY <1>1, <1>5

-----------------------------------------------------------------------------
(* The client. *)

\* What the invariant says of the log of a daemon a client follows.
LEMMA ClientLog ==
    ASSUME LogIInv, plan.client
    PROVE  /\ MaxStarts = 1 /\ lastID \in Nat /\ Len(history) \in Nat /\ lastID <= Len(history)
           /\ \A i \in 1..Len(history) : history[i] \in Event /\ history[i].id = i
           /\ HoldsTail(ring, history, lastID)
<1>1. MaxStarts = 1
  BY LogFacts, PlanFacts
<1>2. /\ \A i \in 1..Len(history) : history[i].id = i
      /\ lastID <= Len(history) /\ HoldsTail(ring, history, lastID)
  BY <1>1 DEF LogIInv, Counted
<1>3. lastID \in Nat /\ Len(history) \in Nat /\ history \in Seq(Event)
  BY LogFacts
<1>4. \A i \in 1..Len(history) : history[i] \in Event
  BY <1>3
<1>. QED
  BY <1>1, <1>2, <1>3, <1>4

\* The events of the ring are not newer than the last identifier.
LEMMA RingReach ==
    ASSUME LogIInv, NEW j \in 0..(ring.count - 1)
    PROVE  At(ring, j).id <= lastID
<1>. DEFINE n == ring.count
<1>1. n \in Nat /\ RingOK(ring) /\ GoesUp(ring, lastID) /\ lastID \in Nat
  BY LogFacts
<1>2. n - 1 \in 0..(n - 1) /\ (j = n - 1 \/ j < n - 1)
  BY <1>1
<1>3. At(ring, j).id \in Nat
  BY <1>1, AtEvent
<1>4. At(ring, n - 1).id = lastID /\ (j < n - 1 => At(ring, j).id < At(ring, n - 1).id)
  <2>1. n > 0
    BY <1>1
  <2>. QED BY <1>1, <1>2, <2>1 DEF GoesUp
<1>. QED
  BY <1>1, <1>2, <1>3, <1>4

LEMMA InConcern ==
    \A ev, first, last : ev \in Concern(first, last) <=>
        \E k \in first..last : ev = history[k] /\ OnlyRepo \in {"", history[k].repo}
BY DEF Concern

LEMMA FollowInit == Init => FollowIInv
<1>. SUFFICES ASSUME Init PROVE FollowIInv
  OBVIOUS
<1>1. pc = "ask" /\ printed = <<>> /\ answered = 0 /\ after = 0 /\ heard = 0 /\ lastID = 0
  BY DEF Init, LogInit
<1>2. printed \in Seq(Event) /\ Len(printed) = 0
  BY <1>1
<1>3. ClientFits
  BY <1>1, <1>2 DEF ClientFits
<1>4. FollowsExactly
  BY <1>1, <1>2 DEF FollowsExactly, PrintedInOrder, PrintsFromAnswer
<1>. QED
  BY <1>2, <1>3, <1>4 DEF FollowIInv

\* The parts of the invariant, and what they are of the next state.
LEMMA FollowFacts ==
    ASSUME FollowIInv
    PROVE  /\ printed \in Seq(Event) /\ Len(printed) \in Nat
           /\ answered \in Nat /\ after \in Nat /\ heard \in Nat /\ after <= lastID /\ heard <= lastID
           /\ \A i \in 1..Len(printed) : printed[i] \in Event /\ printed[i].id \in Nat /\ printed[i].id <= Reach
           /\ PrintedInOrder
<1>1. printed \in Seq(Event)
  BY DEF FollowIInv, ClientFits
<1>2. \A i \in 1..Len(printed) : printed[i] \in Event
  BY <1>1
<1>3. \A i \in 1..Len(printed) : printed[i].id \in Nat
  BY <1>2 DEF Event
<1>4. Len(printed) \in Nat
  BY <1>1
<1>. QED
  BY <1>1, <1>2, <1>3, <1>4 DEF FollowIInv, ClientFits, FollowsExactly

\* Over one start, identifiers and the history only grow.
LEMMA LogGrows ==
    ASSUME LogIInv, MaxStarts = 1, LogNext
    PROVE  /\ lastID' \in {lastID, lastID + 1}
           /\ \A i \in 1..Len(history) : history'[i] = history[i]
<1>0. history \in Seq(Event) /\ starts \in 1..MaxStarts /\ lastID \in Nat
  BY LogFacts
<1>1. \A ev : \A i \in 1..Len(history) : Append(history, ev)[i] = history[i]
  BY <1>0
<1>2. ASSUME NEW r \in plan.repos, AppendEvent(r)
      PROVE  lastID' = lastID + 1 /\ \E ev : history' = Append(history, ev)
  BY <1>2 DEF AppendEvent
<1>3. ASSUME NEW r \in plan.repos, Kill(r)
      PROVE  lastID' = lastID /\ (history' = history \/ \E ev : history' = Append(history, ev))
  BY <1>3 DEF Kill
<1>4. ASSUME CloseLog \/ Exit PROVE lastID' = lastID /\ history' = history
  BY <1>4 DEF CloseLog, Exit
<1>5. ASSUME NewEventLog PROVE FALSE
  BY <1>0, <1>5 DEF NewEventLog
<1>6. lastID' \in {lastID, lastID + 1} /\ (history' = history \/ \E ev : history' = Append(history, ev))
  BY <1>2, <1>3, <1>4, <1>5 DEF LogNext
<1>. QED
  BY <1>1, <1>6

LEMMA FollowLog ==
    ASSUME LogIInv, LogIInv', FollowIInv, LogNext, UNCHANGED clientVars, UNCHANGED plan
    PROVE  FollowIInv'
<1>. USE DEF clientVars
<1>0. plan.client \in BOOLEAN /\ lastID \in Nat /\ lastID' \in Nat
  <2>1. lastID' \in Nat
    BY DEF LogIInv, RingFits
  <2>. QED BY <2>1, LogFacts, PlanFacts
<1>1. CASE ~plan.client
  <2>1. pc = "ask" /\ printed = <<>> /\ after = 0 /\ heard = 0 /\ answered \in Nat
    BY <1>1 DEF FollowIInv, ClientFits
  <2>2. printed \in Seq(Event) /\ Len(printed) = 0
    BY <2>1
  <2>3. after <= lastID' /\ heard <= lastID'
    BY <1>0, <2>1
  <2>4. ClientFits'
    BY <2>1, <2>2, <2>3 DEF ClientFits
  <2>5. FollowsExactly'
    BY <2>1, <2>2 DEF FollowsExactly, PrintedInOrder, PrintsFromAnswer
  <2>. QED BY <2>2, <2>4, <2>5 DEF FollowIInv
<1>2. CASE plan.client
  <2>1. /\ lastID' \in {lastID, lastID + 1} /\ \A i \in 1..Len(history) : history'[i] = history[i]
        /\ lastID <= Len(history) /\ Len(history) \in Nat
    BY <1>2, ClientLog, LogGrows
  <2>2. /\ printed \in Seq(Event) /\ answered \in Nat /\ after \in Nat /\ heard \in Nat
        /\ after <= lastID /\ heard <= lastID /\ PrintedInOrder
        /\ \A i \in 1..Len(printed) : printed[i].id \in Nat /\ printed[i].id <= Reach
    BY FollowFacts
  <2>3. after <= lastID' /\ heard <= lastID' /\ lastID <= lastID'
    BY <1>0, <2>1, <2>2
  <2>4. ClientFits'
    BY <2>3 DEF FollowIInv, ClientFits
  <2>5. ASSUME NEW i \in 1..Len(printed) PROVE printed[i].id <= Reach'
    <3>1. CASE pc = "answer"
      <4>1. Reach = lastID /\ Reach' = lastID'
        BY <3>1 DEF Reach
      <4>2. printed[i].id \in Nat /\ printed[i].id <= lastID
        BY <2>2, <4>1
      <4>3. printed[i].id <= lastID'
        BY <1>0, <2>3, <4>2
      <4>. QED BY <4>1, <4>3
    <3>2. CASE pc # "answer"
      <4>1. Reach' = Reach
        BY <3>2 DEF Reach
      <4>. QED BY <2>2, <4>1
    <3>. QED BY <3>1, <3>2
  <2>6. \A k \in (answered + 1)..heard : k \in 1..Len(history)
    <3>1. answered \in Nat /\ heard \in Nat /\ heard <= lastID /\ lastID <= Len(history)
      BY <2>1, <2>2
    <3>2. lastID \in Nat /\ Len(history) \in Nat
      BY <1>0, <2>1
    <3>. QED BY <3>1, <3>2
  <2>7. PrintsFromAnswer'
    <3>. SUFFICES ASSUME pc \in {"follow", "ended"},
                         NEW k \in (answered + 1)..heard, OnlyRepo \in {"", history'[k].repo}
                  PROVE  history'[k] \in Range(printed)
      BY DEF PrintsFromAnswer, Concern
    <3>1. k \in 1..Len(history)
      BY <2>6
    <3>2. history'[k] = history[k]
      BY <2>1, <3>1
    <3>3. history[k] \in Concern(answered + 1, heard)
      BY <3>2, InConcern
    <3>. QED BY <3>2, <3>3 DEF FollowIInv, FollowsExactly, PrintsFromAnswer
  <2>8. PrintedInOrder'
    BY <2>2 DEF PrintedInOrder
  <2>9. \A i \in 1..Len(printed') : printed'[i].id <= Reach'
    BY <2>5
  <2>. QED BY <2>4, <2>7, <2>8, <2>9 DEF FollowIInv, FollowsExactly
<1>. QED
  BY <1>0, <1>1, <1>2

LEMMA FollowStill ==
    ASSUME FollowIInv, UNCHANGED <<followerVars, plan>>
    PROVE  FollowIInv'
<1>. USE DEF followerVars, logVars, clientVars
<1>1. ClientFits'
  BY DEF FollowIInv, ClientFits
<1>2. Reach' = Reach
  BY DEF Reach
<1>3. FollowsExactly'
  BY DEF FollowIInv, FollowsExactly, PrintedInOrder, PrintsFromAnswer, Concern
<1>4. \A i \in 1..Len(printed') : printed'[i].id <= Reach'
  BY <1>2 DEF FollowIInv
<1>. QED
  BY <1>1, <1>3, <1>4 DEF FollowIInv

-----------------------------------------------------------------------------
(* The steps of the client. *)

LEMMA AskEventsStep ==
    ASSUME LogIInv, FollowIInv, plan.client, AskEvents, UNCHANGED plan
    PROVE  FollowIInv'
<1>. DEFINE got == Since(0, OnlyRepo, Limit)
<1>1. pc' = "answer" /\ printed' = got /\ UNCHANGED <<logVars, answered, after, heard>>
  BY DEF AskEvents
<1>2. RingOK(ring) /\ GoesUp(ring, lastID) /\ Limit \in Nat /\ 0 \in Nat
  BY LogFacts, ClientAssumption
<1>3. /\ got \in Seq(Event) /\ \A i, j \in 1..Len(got) : i < j => got[i].id < got[j].id
      /\ \A i \in 1..Len(got) : \E j \in 0..(ring.count - 1) : got[i] = At(ring, j)
  BY <1>2, SinceFacts
<1>. HIDE DEF got
<1>4. \A i \in 1..Len(got) : got[i].id <= lastID
  BY <1>3, RingReach
<1>5. lastID' = lastID
  BY <1>1 DEF logVars
<1>6. ClientFits'
  BY <1>1, <1>3, <1>5 DEF FollowIInv, ClientFits
<1>7. Reach' = lastID
  BY <1>1, <1>5 DEF Reach
<1>8. FollowsExactly'
  BY <1>1, <1>3 DEF FollowsExactly, PrintedInOrder, PrintsFromAnswer
<1>. QED
  BY <1>1, <1>4, <1>6, <1>7, <1>8 DEF FollowIInv

LEMMA AskLastStep ==
    ASSUME LogIInv, FollowIInv, plan.client, AskLast, UNCHANGED plan
    PROVE  FollowIInv'
<1>1. /\ pc = "answer" /\ pc' = "subscribe" /\ after' = lastID /\ answered' = lastID
      /\ UNCHANGED <<logVars, printed, heard>>
  BY DEF AskLast
<1>2. lastID' = lastID /\ lastID \in Nat /\ lastID <= lastID
  BY <1>1, LogFacts DEF logVars
<1>3. ClientFits'
  BY <1>1, <1>2 DEF FollowIInv, ClientFits
<1>4. Reach' = Reach
  BY <1>1, <1>2 DEF Reach
<1>5. PrintedInOrder' /\ PrintsFromAnswer'
  BY <1>1, FollowFacts DEF PrintedInOrder, PrintsFromAnswer
<1>. QED
  BY <1>1, <1>3, <1>4, <1>5 DEF FollowIInv, FollowsExactly

LEMMA SubscribeStep ==
    ASSUME LogIInv, FollowIInv, plan.client, Subscribe, UNCHANGED plan
    PROVE  FollowIInv'
<1>1. /\ pc = "subscribe" /\ heard' = lastID /\ pc' = (IF lastID > after THEN "gap" ELSE "follow")
      /\ UNCHANGED <<logVars, printed, answered, after>>
  BY DEF Subscribe
<1>2. /\ lastID' = lastID /\ lastID \in Nat /\ lastID <= lastID /\ after \in Nat /\ after <= lastID
      /\ answered = after
  <2>1. answered = after
    BY <1>1 DEF FollowIInv, ClientFits
  <2>2. lastID \in Nat
    BY LogFacts
  <2>. QED BY <1>1, <2>1, <2>2, FollowFacts DEF logVars
<1>3. \A i \in 1..Len(printed) : printed[i].id \in Nat /\ printed[i].id <= after
  BY <1>1, FollowFacts DEF Reach
<1>4. PrintedInOrder'
  BY <1>1, FollowFacts DEF PrintedInOrder
<1>5. CASE lastID > after
  <2>1. pc' = "gap" /\ after < lastID
    BY <1>1, <1>2, <1>5
  <2>2. ClientFits'
    BY <1>1, <1>2, <2>1 DEF FollowIInv, ClientFits
  <2>3. Reach' = after
    BY <1>1, <2>1 DEF Reach
  <2>4. PrintsFromAnswer'
    BY <2>1 DEF PrintsFromAnswer
  <2>. QED BY <1>1, <1>3, <1>4, <2>2, <2>3, <2>4 DEF FollowIInv, FollowsExactly
<1>6. CASE ~(lastID > after)
  <2>1. pc' = "follow" /\ after = lastID
    BY <1>1, <1>2, <1>6
  <2>2. ClientFits'
    BY <1>1, <1>2, <2>1 DEF FollowIInv, ClientFits
  <2>3. Reach' = after
    BY <1>1, <2>1 DEF Reach
  <2>4. PrintsFromAnswer'
    <3>1. (answered + 1)..lastID = {}
      BY <1>2, <2>1
    <3>2. answered' = answered /\ heard' = lastID
      BY <1>1
    <3>3. Concern(answered + 1, heard)' = {}
      BY <3>1, <3>2 DEF Concern
    <3>. QED BY <3>3 DEF PrintsFromAnswer
  <2>. QED BY <1>1, <1>3, <1>4, <2>2, <2>3, <2>4 DEF FollowIInv, FollowsExactly
<1>. QED
  BY <1>5, <1>6

LEMMA CutOffStep ==
    ASSUME LogIInv, FollowIInv, plan.client, CutOff, UNCHANGED plan
    PROVE  FollowIInv'
<1>1. pc = "follow" /\ pc' = "ended" /\ UNCHANGED <<logVars, printed, answered, after, heard>>
  BY DEF CutOff
<1>2. UNCHANGED <<lastID, history>>
  BY <1>1 DEF logVars
<1>3. ClientFits'
  BY <1>1, <1>2 DEF FollowIInv, ClientFits
<1>4. Reach' = Reach
  BY <1>1 DEF Reach
<1>5. PrintedInOrder'
  BY <1>1, FollowFacts DEF PrintedInOrder
<1>6. PrintsFromAnswer'
  BY <1>1, <1>2 DEF FollowIInv, FollowsExactly, PrintsFromAnswer, Concern
<1>. QED
  BY <1>1, <1>3, <1>4, <1>5, <1>6 DEF FollowIInv, FollowsExactly

\* The gap is filled with what the log still has of it.
LEMMA AskGapStep ==
    ASSUME LogIInv, FollowIInv, plan.client, AskGap, UNCHANGED plan
    PROVE  FollowIInv'
<1>. DEFINE got == Since(after, OnlyRepo, 0)
            new == Printing(printed, got, heard)
            n == ring.count
            m == Len(history)
<1>1. /\ pc = "gap" /\ pc' = "follow" /\ printed' = new /\ after' = heard
      /\ answered' = (IF lastID > answered + Capacity THEN lastID - Capacity ELSE answered)
      /\ UNCHANGED <<logVars, heard>>
  BY DEF AskGap
<1>2. UNCHANGED <<lastID, history>>
  BY <1>1 DEF logVars
<1>3. /\ printed \in Seq(Event) /\ answered \in Nat /\ after \in Nat /\ heard \in Nat
      /\ after <= lastID /\ heard <= lastID
      /\ \A i, j \in 1..Len(printed) : i < j => printed[i].id < printed[j].id
  BY FollowFacts DEF PrintedInOrder
<1>4. \A i \in 1..Len(printed) : printed[i].id \in Nat /\ printed[i].id <= after
  BY <1>1, FollowFacts DEF Reach
<1>5. answered = after /\ after < heard
  BY <1>1 DEF FollowIInv, ClientFits
<1>6. lastID \in Nat /\ n \in 0..Capacity /\ m \in Nat /\ lastID <= m
  BY LogFacts, ClientLog
<1>7. RingOK(ring) /\ GoesUp(ring, lastID) /\ 0 \in Nat
  BY LogFacts
<1>8. /\ got \in Seq(Event) /\ \A i, j \in 1..Len(got) : i < j => got[i].id < got[j].id
      /\ \A i \in 1..Len(got) : Asked(got[i], after, OnlyRepo)
      /\ \A j \in 0..(n - 1) : Asked(At(ring, j), after, OnlyRepo) =>
            \/ \E i \in 1..Len(got) : got[i] = At(ring, j)
            \/ 0 > 0 /\ Len(got) = 0 /\ At(ring, j).id < got[1].id
  BY <1>3, <1>7, SinceFacts
<1>9. \A j \in 0..(n - 1) : Asked(At(ring, j), after, OnlyRepo) => \E i \in 1..Len(got) : got[i] = At(ring, j)
  BY <1>8
<1>. HIDE DEF got, n, m
<1>10. ASSUME NEW i \in 1..Len(got) PROVE got[i].id \in Nat /\ got[i].id > after
  <2>1. got[i] \in Event
    BY <1>8
  <2>. QED BY <1>8, <2>1 DEF Asked, Event
<1>11. \A i \in 1..Len(printed), j \in 1..Len(got) : printed[i].id < got[j].id
  BY <1>3, <1>4, <1>10
<1>12. new \in Seq(Event) /\ Prints(printed, got, heard, Len(got), new)
  BY <1>3, <1>8, <1>11, PrintingFacts
<1>. HIDE DEF new
<1>13. answered' \in Nat /\ answered' >= answered /\ answered' >= lastID - Capacity
  BY <1>1, <1>3, <1>6
<1>14. ClientFits'
  <2>1. after' \in Nat /\ heard' \in Nat /\ after' <= lastID' /\ heard' <= lastID' /\ after' <= heard'
    BY <1>1, <1>2, <1>3
  <2>2. printed' \in Seq(Event) /\ pc' = "follow" /\ plan'.client
    BY <1>1, <1>12
  <2>. QED BY <1>13, <2>1, <2>2 DEF ClientFits
<1>15. \A i \in 1..Len(printed') : printed'[i].id <= Reach'
  <2>1. Reach' = heard
    BY <1>1 DEF Reach
  <2>. SUFFICES ASSUME NEW i \in 1..Len(new) PROVE new[i].id <= heard
    BY <1>1, <2>1
  <2>2. CASE \E j \in 1..Len(printed) : new[i] = printed[j]
    BY <1>3, <1>4, <1>5, <2>2
  <2>3. CASE \E j \in 1..Len(got) : new[i] = got[j] /\ got[j].id <= heard
    BY <2>3
  <2>. QED BY <1>12, <2>2, <2>3 DEF Prints
<1>16. PrintedInOrder'
  BY <1>1, <1>12 DEF PrintedInOrder, Prints
<1>17. \A k \in (answered' + 1)..heard : k \in Nat /\ k > after /\ k > lastID - Capacity /\ k <= heard
  <2>1. after \in Nat /\ heard \in Nat /\ answered = after
    BY <1>3, <1>5
  <2>. DEFINE a == answered'
  <2>2. a \in Nat /\ a >= after /\ a >= lastID - Capacity /\ lastID - Capacity \in Int
    BY <1>6, <1>13, <2>1
  <2>. HIDE DEF a
  <2>. SUFFICES ASSUME NEW k \in (a + 1)..heard
                PROVE  k \in Nat /\ k > after /\ k > lastID - Capacity /\ k <= heard
    BY DEF a
  <2>3. k \in Int /\ a + 1 <= k /\ k <= heard
    BY <2>1, <2>2
  <2>4. k \in Nat /\ k > after
    BY <2>1, <2>2, <2>3
  <2>5. k > lastID - Capacity
    BY <2>1, <2>2, <2>3
  <2>. QED BY <2>3, <2>4, <2>5
<1>18. ASSUME NEW k \in (answered' + 1)..heard, OnlyRepo \in {"", history[k].repo}
       PROVE  history[k] \in Range(new)
  <2>. DEFINE j == k - lastID + n - 1
  <2>1. n = (IF lastID <= Capacity THEN lastID ELSE Capacity)
    BY ClientLog DEF HoldsTail, n
  <2>2. \A i \in 0..(n - 1) : At(ring, i) = history[lastID - n + i + 1]
    BY ClientLog DEF HoldsTail, n
  <2>3. /\ k \in 1..m /\ k > after /\ k <= heard /\ j \in 0..(n - 1) /\ lastID - n + j + 1 = k
    <3>1. answered \in Nat /\ heard \in Nat /\ heard <= lastID /\ answered = after
      BY <1>3, <1>5
    <3>2. k \in Nat /\ k > after /\ k > lastID - Capacity /\ k <= heard
      BY <1>17
    <3>3. k \in 1..m
      BY <1>6, <3>1, <3>2
    <3>4. n \in Nat /\ lastID - n < k
      BY <1>6, <2>1, <3>1, <3>2, <3>3
    <3>5. j \in 0..(n - 1) /\ lastID - n + j + 1 = k
      BY <1>6, <3>1, <3>2, <3>4
    <3>. QED BY <3>2, <3>3, <3>5
  <2>. HIDE DEF j
  <2>4. At(ring, j) = history[k]
    BY <2>2, <2>3
  <2>5. history[k].id = k
    BY <2>3, ClientLog DEF m
  <2>6. history[k].id > after /\ history[k].id <= heard
    BY <2>3, <2>5
  <2>7. Asked(At(ring, j), after, OnlyRepo)
    BY <1>18, <2>4, <2>6, Zenon DEF Asked
  <2>8. PICK i \in 1..Len(got) : got[i] = history[k]
    BY <1>9, <2>3, <2>4, <2>7
  <2>9. PICK l \in 1..Len(new) : new[l] = got[i]
    BY <1>12, <2>6, <2>8 DEF Prints
  <2>10. DOMAIN new = 1..Len(new)
    BY <1>12
  <2>. QED BY <2>8, <2>9, <2>10, Zenon DEF Range
<1>19. PrintsFromAnswer'
  BY <1>1, <1>2, <1>18 DEF PrintsFromAnswer, Concern
<1>. QED
  BY <1>14, <1>15, <1>16, <1>19 DEF FollowIInv, FollowsExactly

LEMMA ReadFrameStep ==
    ASSUME LogIInv, FollowIInv, plan.client, ReadFrame, UNCHANGED plan
    PROVE  FollowIInv'
<1>. DEFINE ev == history[heard + 1]
            skip == ev.id <= after \/ (OnlyRepo # "" /\ ev.repo # OnlyRepo)
<1>1. /\ pc = "follow" /\ heard < lastID /\ heard' = ev.id
      /\ printed' = (IF skip THEN printed ELSE Append(printed, ev))
      /\ UNCHANGED <<logVars, pc, answered, after>>
  BY DEF ReadFrame
<1>2. UNCHANGED <<lastID, history>>
  BY <1>1 DEF logVars
<1>3. /\ printed \in Seq(Event) /\ answered \in Nat /\ after \in Nat /\ heard \in Nat /\ after <= lastID
      /\ Len(printed) \in Nat
      /\ \A i, j \in 1..Len(printed) : i < j => printed[i].id < printed[j].id
      /\ \A i \in 1..Len(printed) : printed[i].id \in Nat /\ printed[i].id <= heard
  BY <1>1, FollowFacts DEF PrintedInOrder, Reach
<1>4. lastID \in Nat /\ Len(history) \in Nat /\ lastID <= Len(history)
  BY ClientLog
<1>5. after <= heard
  BY <1>1 DEF FollowIInv, ClientFits
<1>6. heard + 1 \in 1..Len(history) /\ heard + 1 <= lastID
  <2>1. heard < lastID
    BY <1>1
  <2>. QED BY <1>3, <1>4, <2>1
<1>7. ev \in Event /\ ev.id = heard + 1
  BY <1>6, ClientLog
<1>. HIDE DEF ev, skip
<1>8. heard' = heard + 1
  BY <1>1, <1>7
<1>9. ~(ev.id <= after)
  BY <1>3, <1>5, <1>7
<1>10. skip <=> OnlyRepo # "" /\ ev.repo # OnlyRepo
  BY <1>9 DEF skip
<1>11. /\ printed' \in Seq(Event) /\ Range(printed) \subseteq Range(printed')
       /\ skip \/ ev \in Range(printed')
       /\ \A i \in 1..Len(printed') : printed'[i].id <= heard + 1
       /\ \A i, j \in 1..Len(printed') : i < j => printed'[i].id < printed'[j].id
  <2>1. CASE skip
    <3>1. printed' = printed
      BY <1>1, <2>1
    <3>2. \A i \in 1..Len(printed) : printed[i].id <= heard + 1
      BY <1>3
    <3>. QED BY <1>3, <2>1, <3>1, <3>2
  <2>2. CASE ~skip
    <3>. DEFINE p == Append(printed, ev)
                l == Len(printed)
    <3>1. printed' = p
      BY <1>1, <2>2
    <3>2. /\ p \in Seq(Event) /\ Len(p) = l + 1 /\ DOMAIN p = 1..(l + 1) /\ DOMAIN printed = 1..l
          /\ p[l + 1] = ev /\ \A i \in 1..l : p[i] = printed[i]
      BY <1>3, <1>7
    <3>3. l \in Nat
      BY <1>3
    <3>. HIDE DEF p, l
    <3>4. l + 1 \in 1..(l + 1) /\ \A i \in 1..l : i \in 1..(l + 1)
      BY <3>3
    <3>5. ev \in Range(p)
      BY <3>2, <3>4 DEF Range
    <3>6. Range(printed) \subseteq Range(p)
      BY <3>2, <3>4 DEF Range
    <3>7. ASSUME NEW i \in 1..l PROVE p[i].id \in Nat /\ p[i].id <= heard
      BY <1>3, <3>2 DEF l
    <3>8. \A i \in 1..(l + 1) : i \in 1..l \/ i = l + 1
      BY <3>3
    <3>9. ASSUME NEW i \in 1..(l + 1) PROVE p[i].id <= heard + 1
      <4>1. CASE i \in 1..l
        BY <1>3, <3>7, <4>1
      <4>2. CASE i = l + 1
        BY <1>3, <1>7, <3>2, <4>2
      <4>. QED BY <3>8, <4>1, <4>2
    <3>10. ASSUME NEW i \in 1..(l + 1), NEW j \in 1..(l + 1), i < j PROVE p[i].id < p[j].id
      <4>1. i \in 1..l
        BY <3>3, <3>10
      <4>2. CASE j \in 1..l
        BY <1>3, <3>2, <3>10, <4>1, <4>2 DEF l
      <4>3. CASE j = l + 1
        <5>1. p[j].id = heard + 1
          BY <1>7, <3>2, <4>3
        <5>. QED BY <1>3, <3>7, <4>1, <5>1
      <4>. QED BY <3>8, <4>2, <4>3
    <3>. QED BY <3>1, <3>2, <3>5, <3>6, <3>9, <3>10
  <2>. QED BY <2>1, <2>2
<1>12. ClientFits'
  <2>1. after' \in Nat /\ heard' \in Nat /\ after' <= lastID' /\ heard' <= lastID' /\ after' <= heard'
    <3>1. after' = after /\ lastID' = lastID
      BY <1>1, <1>2
    <3>. QED BY <1>3, <1>5, <1>6, <1>8, <3>1
  <2>2. pc' = "follow" /\ plan'.client /\ answered' \in Nat
    BY <1>1, <1>3
  <2>. QED BY <1>11, <2>1, <2>2 DEF ClientFits
<1>13. Reach' = heard + 1
  BY <1>1, <1>8 DEF Reach
<1>14. \A k \in (answered + 1)..(heard + 1) : k = heard + 1 \/ k \in (answered + 1)..heard
  <2>1. answered \in Nat /\ heard \in Nat
    BY <1>3
  <2>. QED BY <2>1
<1>15. PrintsFromAnswer'
  <2>. SUFFICES ASSUME NEW k \in (answered + 1)..(heard + 1), OnlyRepo \in {"", history[k].repo}
                PROVE  history[k] \in Range(printed')
    BY <1>1, <1>2, <1>8 DEF PrintsFromAnswer, Concern
  <2>1. k = heard + 1 \/ k \in (answered + 1)..heard
    BY <1>14
  <2>2. CASE k = heard + 1
    <3>1. ev = history[k]
      BY <2>2 DEF ev
    <3>2. ~skip
      BY <1>10, <3>1
    <3>. QED BY <1>11, <3>1, <3>2
  <2>3. CASE k \in (answered + 1)..heard
    <3>1. history[k] \in Concern(answered + 1, heard)
      BY <2>3, InConcern
    <3>2. history[k] \in Range(printed)
      BY <1>1, <3>1 DEF FollowIInv, FollowsExactly, PrintsFromAnswer
    <3>. QED BY <1>11, <3>2
  <2>. QED BY <2>1, <2>2, <2>3
<1>. QED
  BY <1>11, <1>12, <1>13, <1>15 DEF FollowIInv, FollowsExactly, PrintedInOrder

LEMMA FollowInductive ==
    LogIInv /\ LogIInv' /\ FollowIInv /\ [Next /\ UNCHANGED plan]_<<followerVars, plan>> => FollowIInv'
<1>. SUFFICES ASSUME LogIInv, LogIInv', FollowIInv, [Next /\ UNCHANGED plan]_<<followerVars, plan>>
              PROVE  FollowIInv'
  OBVIOUS
<1>1. CASE LogNext /\ UNCHANGED clientVars /\ UNCHANGED plan
  BY <1>1, FollowLog
<1>2. CASE plan.client /\ ClientNext /\ UNCHANGED plan
  BY <1>2, AskEventsStep, AskLastStep, SubscribeStep, AskGapStep, ReadFrameStep, CutOffStep DEF ClientNext
<1>3. CASE UNCHANGED <<followerVars, plan>>
  BY <1>3, FollowStill
<1>. QED
  BY <1>1, <1>2, <1>3 DEF Next

\* A client that follows the log prints no event twice or after a newer one, and
\* misses none from its first answer on that the log still had: whatever is
\* emitted between its question, its subscription and its question for the gap
\* (daemonEvents, followEvents).
THEOREM FollowerPrintsExactly == Spec => []FollowsExactly
<1>1. FollowIInv => FollowsExactly
  BY DEF FollowIInv
<1>. QED
  BY <1>1, FollowInit, LogInvariant, FollowInductive, PTL DEF Spec
=============================================================================
