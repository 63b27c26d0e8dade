---------------------------- MODULE SocketProofs ----------------------------
(***************************************************************************)
(* Of the daemons that could open their socket one at most works, and its  *)
(* socket server answers every request once, leaves no subscriber in silence, and gives  *)
(* each the event feed of module EventFeed: for any number of daemons,     *)
(* connections, events and updates, and any size of the queues.            *)
(***************************************************************************)
EXTENDS SocketServer, SingleInstance, FiniteSetTheorems, SequenceTheorems, TLAPS

-----------------------------------------------------------------------------
(* Daemons at the socket path (module SingleInstance). *)

\* The states in which a daemon has seen that nobody answers.
Taking == {"inspect", "remove", "listen", "chmod"}

\* Unless daemons start at the same moment or one that listens is not reached:
\* one starts at a time; from the moment it has seen nobody answer, nobody works
\* that has a socket, and what it has learnt of the path stays true, because only
\* a daemon that has one takes its socket away.
AloneInv ==
    /\ \A d, e \in Starting : d = e
    /\ \A d \in Daemons : state[d] \in Taking => AtWork \ failed = {}
    /\ \A d \in Daemons : state[d] = "remove" => path # "none"
    /\ \A d \in Daemons : state[d] = "listen" => path = "none"
    /\ \A d \in Daemons : state[d] = "chmod" => path = d /\ d \in serving
    /\ \A d \in AtWork \ failed : path = d /\ d \in serving
    /\ failed \cap serving = {}

PathInv == InstanceTypeOK /\ overlap \in BOOLEAN /\ (~overlap /\ ~missed => AloneInv)

LEMMA PathInit == InstanceInit => PathInv
<1>. SUFFICES ASSUME InstanceInit PROVE PathInv
  OBVIOUS
<1>1. InstanceTypeOK
  <2>1. 0 \in 0..MaxDials
    BY DialsAssumption
  <2>. QED
    BY <2>1 DEF InstanceInit, InstanceTypeOK, States
<1>2. AloneInv
  BY DEF InstanceInit, AloneInv, Starting, Taking, AtWork
<1>. QED
  BY <1>1, <1>2 DEF PathInv, InstanceInit

LEMMA InstanceTypes ==
    ASSUME InstanceTypeOK, InstanceNext
    PROVE  InstanceTypeOK'
<1>. PICK d \in Daemons :
        StartDaemon(d) \/ Begin(d) \/ StopDaemon(d) \/ Unlink(d) \/ CloseListener(d) \/ KillDaemon(d)
  BY DEF InstanceNext
<1>. USE DialsAssumption DEF InstanceTypeOK, Goes, States
<1>1. CASE StartDaemon(d)
  BY <1>1 DEF StartDaemon
<1>2. CASE Dial(d)
  BY <1>2 DEF Dial
<1>3. CASE WaitOver(d)
  BY <1>3 DEF WaitOver
<1>4. CASE Lstat(d)
  BY <1>4 DEF Lstat, WithoutSocket
<1>5. CASE RemoveStale(d)
  BY <1>5 DEF RemoveStale
<1>6. CASE Listen(d)
  BY <1>6 DEF Listen
<1>7. CASE StopDaemon(d)
  BY <1>7 DEF StopDaemon
<1>8. CASE Unlink(d)
  BY <1>8 DEF Unlink
<1>9. CASE CloseListener(d)
  BY <1>9 DEF CloseListener
<1>10. CASE KillDaemon(d)
  BY <1>10 DEF KillDaemon
<1>11. CASE SocketFails(d)
  BY <1>11 DEF SocketFails, WithoutSocket
<1>12. CASE DialFails(d)
  BY <1>12 DEF DialFails
<1>13. CASE Chmod(d)
  BY <1>13 DEF Chmod, WithoutSocket
<1>. QED
  BY <1>1, <1>2, <1>3, <1>4, <1>5, <1>6, <1>7, <1>8, <1>9, <1>10, <1>11, <1>12, <1>13 DEF Begin

LEMMA AloneNext ==
    ASSUME InstanceTypeOK, AloneInv, ~overlap, ~missed', InstanceNext
    PROVE  AloneInv'
<1>. PICK d \in Daemons :
        StartDaemon(d) \/ Begin(d) \/ StopDaemon(d) \/ Unlink(d) \/ CloseListener(d) \/ KillDaemon(d)
  BY DEF InstanceNext
<1>. USE DaemonsAssumption DEF InstanceTypeOK, AloneInv, Goes, Starting, Taking, AtWork
<1>1. CASE StartDaemon(d)
  BY <1>1 DEF StartDaemon
<1>2. CASE Dial(d)
  BY <1>2 DEF Dial
<1>3. CASE WaitOver(d)
  BY <1>3 DEF WaitOver
<1>4. CASE Lstat(d)
  BY <1>4 DEF Lstat, WithoutSocket
<1>5. CASE RemoveStale(d)
  BY <1>5 DEF RemoveStale
<1>6. CASE Listen(d)
  BY <1>6 DEF Listen
<1>7. CASE StopDaemon(d)
  BY <1>7 DEF StopDaemon
<1>8. CASE Unlink(d)
  <2>1. /\ state' = [state EXCEPT ![d] = "closing"] /\ state[d] = "stopping"
        /\ path' = IF d \in serving THEN "none" ELSE path
        /\ serving' = serving /\ failed' = failed
    BY <1>8 DEF Unlink
  <2>2. CASE d \in serving
    <3>1. d \in AtWork \ failed /\ path = d
      BY <2>1, <2>2
    <3>. QED
      BY <2>1, <2>2, <3>1
  <2>3. CASE d \notin serving
    BY <2>1, <2>3
  <2>. QED
    BY <2>2, <2>3
<1>9. CASE CloseListener(d)
  BY <1>9 DEF CloseListener
<1>10. CASE KillDaemon(d)
  BY <1>10 DEF KillDaemon
<1>11. CASE SocketFails(d)
  BY <1>11 DEF SocketFails, WithoutSocket
<1>12. CASE DialFails(d)
  BY <1>12 DEF DialFails
<1>13. CASE Chmod(d)
  BY <1>13 DEF Chmod, WithoutSocket
<1>. QED
  BY <1>1, <1>2, <1>3, <1>4, <1>5, <1>6, <1>7, <1>8, <1>9, <1>10, <1>11, <1>12, <1>13 DEF Begin

LEMMA PathNext == PathInv /\ [InstanceNext]_<<instanceVars, overlap>> => PathInv'
<1>1. ASSUME PathInv, InstanceNext PROVE PathInv'
  <2>1. ~missed' => ~missed
    BY <1>1 DEF InstanceNext, Begin, StartDaemon, Dial, DialFails, WaitOver, Lstat, RemoveStale,
                Listen, Chmod, SocketFails, StopDaemon, Unlink, CloseListener, KillDaemon
  <2>. QED
    BY <1>1, <2>1, InstanceTypes, AloneNext DEF PathInv, InstanceNext
<1>2. ASSUME PathInv, UNCHANGED <<instanceVars, overlap>> PROVE PathInv'
  BY <1>2 DEF PathInv, instanceVars, InstanceTypeOK, AloneInv, Starting, Taking, AtWork
<1>. QED
  BY <1>1, <1>2

LEMMA OnePath == PathInv => InstanceInv
<1>. SUFFICES ASSUME PathInv PROVE InstanceInv
  OBVIOUS
<1>1. ASSUME ~overlap, ~missed PROVE Cardinality(AtWork \ failed) <= 1
  <2>1. \A d, e \in AtWork \ failed : d = e
    BY <1>1 DEF PathInv, AloneInv
  <2>2. CASE AtWork \ failed = {}
    BY <2>2, FS_EmptySet
  <2>3. CASE AtWork \ failed # {}
    <3>1. PICK d : AtWork \ failed = {d}
      BY <2>1, <2>3
    <3>. QED
      BY <3>1, FS_Singleton
  <2>. QED
    BY <2>2, <2>3
<1>. QED
  BY <1>1 DEF PathInv, InstanceInv, OneDaemon, AtWorkAnswers, AloneInv

\* However daemons are started one after the other, stopped and killed, and
\* whichever of them cannot open the socket: at most one of the others syncs, and
\* it is the one that answers at the path
\* (src/common/socket.go, NewSocketServer; src/daemon/socket.go, startSocket).
THEOREM OneInstance == InstanceSpec => []InstanceInv
BY PathInit, PathNext, OnePath, PTL DEF InstanceSpec

-----------------------------------------------------------------------------
(* Sequences of frames. *)

News == {"hello", "event"}
StateKinds == {"hello", "state"}

LEMMA PlacesAppend ==
    ASSUME NEW f \in Seq(Frame), NEW x \in Frame, NEW K
    PROVE  /\ Append(f, x) \in Seq(Frame) /\ Len(f) \in Nat /\ Len(Append(f, x)) = Len(f) + 1
           /\ \A i \in 1..Len(f) : Append(f, x)[i] = f[i] /\ f[i] \in Frame
           /\ Append(f, x)[Len(f) + 1] = x
           /\ Places(f, K) \subseteq 1..Len(f)
           /\ x.kind \in K => Places(Append(f, x), K) = Places(f, K) \cup {Len(f) + 1}
           /\ x.kind \notin K => Places(Append(f, x), K) = Places(f, K)
<1>. HIDE DEF Frame
<1>1. /\ Append(f, x) \in Seq(Frame) /\ Len(f) \in Nat /\ Len(Append(f, x)) = Len(f) + 1
      /\ \A i \in 1..Len(f) : Append(f, x)[i] = f[i] /\ f[i] \in Frame
      /\ Append(f, x)[Len(f) + 1] = x
  OBVIOUS
<1>. DEFINE g == Append(f, x)
<1>. HIDE DEF g
<1>2. /\ Places(f, K) \subseteq 1..Len(f)
      /\ x.kind \in K => Places(g, K) = Places(f, K) \cup {Len(f) + 1}
      /\ x.kind \notin K => Places(g, K) = Places(f, K)
  BY <1>1 DEF Places, g
<1>. QED
  BY <1>1, <1>2 DEF g

\* Responses carry their own number among the responses.
Responses(f) == Places(f, {"response"})
Until(f, i) == {j \in Responses(f) : j <= i}
Numbered(f) == \A i \in Responses(f) : f[i].n = Cardinality(Until(f, i))

LEMMA ResponsesFinite ==
    ASSUME NEW f \in Seq(Frame)
    PROVE  IsFiniteSet(Responses(f)) /\ Cardinality(Responses(f)) \in Nat
<1>1. IsFiniteSet(1..Len(f))
  BY FS_Interval
<1>2. IsFiniteSet(Responses(f))
  BY <1>1, FS_Subset DEF Responses, Places
<1>. QED
  BY <1>2, FS_CardinalityType

LEMMA NumberedAppend ==
    ASSUME NEW f \in Seq(Frame), NEW x \in Frame, Numbered(f)
    PROVE  /\ x.kind = "response" /\ x.n = Cardinality(Responses(f)) + 1
                => /\ Numbered(Append(f, x))
                   /\ Cardinality(Responses(Append(f, x))) = x.n
           /\ x.kind # "response"
                => /\ Numbered(Append(f, x))
                   /\ Responses(Append(f, x)) = Responses(f)
<1>. DEFINE g == Append(f, x)
            l == Len(f) + 1
<1>1. /\ Len(f) \in Nat /\ \A i \in 1..Len(f) : g[i] = f[i]
      /\ g[l] = x /\ Responses(f) \subseteq 1..Len(f)
      /\ x.kind = "response" => Responses(g) = Responses(f) \cup {l}
      /\ x.kind # "response" => Responses(g) = Responses(f)
  BY PlacesAppend DEF Responses
<1>. HIDE DEF g
<1>2. \A i \in Responses(f) : Until(g, i) = Until(f, i) /\ g[i].n = f[i].n
  BY <1>1 DEF Until
<1>3. ASSUME x.kind = "response", x.n = Cardinality(Responses(f)) + 1
      PROVE  Numbered(g) /\ Cardinality(Responses(g)) = x.n
  <2>1. l \notin Responses(f)
    BY <1>1
  <2>2. Cardinality(Responses(f) \cup {l}) = Cardinality(Responses(f)) + 1
    BY <2>1, ResponsesFinite, FS_AddElement
  <2>3. Until(g, l) = Responses(g)
    BY <1>1, <1>3 DEF Until
  <2>. QED
    BY <1>1, <1>2, <1>3, <2>2, <2>3 DEF Numbered
<1>4. ASSUME x.kind # "response" PROVE Numbered(g) /\ Responses(g) = Responses(f)
  BY <1>1, <1>2, <1>4 DEF Numbered
<1>. QED
  BY <1>3, <1>4 DEF g

\* States only go up, to at most n; and the last one, if there is any.
Rising(f) == \A i, j \in Places(f, StateKinds) : i < j => f[i].seq <= f[j].seq
StatesUpTo(f, n) == \A i \in Places(f, StateKinds) : f[i].seq <= n
LastState(f, i) == i \in Places(f, StateKinds) /\ \A j \in Places(f, StateKinds) : j <= i

LEMMA RisingAppend ==
    ASSUME NEW f \in Seq(Frame), NEW x \in Frame, NEW n \in Nat, Rising(f), StatesUpTo(f, n)
    PROVE  /\ x.kind \in StateKinds /\ x.seq = n
                => /\ Rising(Append(f, x)) /\ StatesUpTo(Append(f, x), n)
                   /\ LastState(Append(f, x), Len(f) + 1) /\ Append(f, x)[Len(f) + 1].seq = n
           /\ x.kind \notin StateKinds
                => /\ Rising(Append(f, x)) /\ StatesUpTo(Append(f, x), n)
                   /\ \A i : LastState(f, i) => /\ LastState(Append(f, x), i)
                                                /\ Append(f, x)[i].seq = f[i].seq
<1>. DEFINE g == Append(f, x)
            l == Len(f) + 1
<1>1. /\ Len(f) \in Nat /\ \A i \in 1..Len(f) : g[i] = f[i]
      /\ g[l] = x /\ Places(f, StateKinds) \subseteq 1..Len(f)
      /\ x.kind \in StateKinds => Places(g, StateKinds) = Places(f, StateKinds) \cup {l}
      /\ x.kind \notin StateKinds => Places(g, StateKinds) = Places(f, StateKinds)
  BY PlacesAppend
<1>. HIDE DEF g, StateKinds
<1>2. \A i \in Places(f, StateKinds) : i \in Nat /\ i < l /\ g[i].seq = f[i].seq
  BY <1>1
<1>3. ASSUME x.kind \in StateKinds, x.seq = n
      PROVE  Rising(g) /\ StatesUpTo(g, n) /\ LastState(g, l) /\ g[l].seq = n
  BY <1>1, <1>2, <1>3 DEF Rising, StatesUpTo, LastState
<1>4. ASSUME x.kind \notin StateKinds
      PROVE  /\ Rising(g) /\ StatesUpTo(g, n)
             /\ \A i : LastState(f, i) => LastState(g, i) /\ g[i].seq = f[i].seq
  BY <1>1, <1>2, <1>4 DEF Rising, StatesUpTo, LastState
<1>. QED
  BY <1>3, <1>4 DEF g

\* News follow each other without a gap: an event has the number after that of
\* the news before it, a second hello the same; and the last one, if there is any.
Follows(f, i, j) ==
    /\ i \in Places(f, News) /\ j \in Places(f, News) /\ i < j
    /\ \A m \in Places(f, News) : ~(i < m /\ m < j)
Gapless(f) ==
    \A i, j \in Places(f, News) :
        Follows(f, i, j) => f[j].n = f[i].n \/ f[j].n = f[i].n + 1
NewsUpTo(f, n) == \A i \in Places(f, News) : f[i].n <= n
LastNews(f, i) == i \in Places(f, News) /\ \A j \in Places(f, News) : j <= i

LEMMA GaplessAppend ==
    ASSUME NEW f \in Seq(Frame), NEW x \in Frame, NEW n \in Nat, NEW m \in Nat,
           Gapless(f), NewsUpTo(f, n)
    PROVE  /\ (/\ x.kind \in News /\ x.n = m /\ m \in {n, n + 1}
               /\ Places(f, News) # {} => \E i : LastNews(f, i) /\ f[i].n = n)
                => /\ Gapless(Append(f, x)) /\ NewsUpTo(Append(f, x), m)
                   /\ LastNews(Append(f, x), Len(f) + 1) /\ Append(f, x)[Len(f) + 1].n = m
           /\ x.kind \notin News
                => /\ Gapless(Append(f, x)) /\ NewsUpTo(Append(f, x), n)
                   /\ \A i : LastNews(f, i) => /\ LastNews(Append(f, x), i)
                                               /\ Append(f, x)[i].n = f[i].n
<1>. DEFINE g == Append(f, x)
            l == Len(f) + 1
<1>1. /\ Len(f) \in Nat /\ \A i \in 1..Len(f) : g[i] = f[i] /\ f[i] \in Frame
      /\ g[l] = x /\ Places(f, News) \subseteq 1..Len(f)
      /\ x.kind \in News => Places(g, News) = Places(f, News) \cup {l}
      /\ x.kind \notin News => Places(g, News) = Places(f, News)
  BY PlacesAppend
<1>. HIDE DEF g, News
<1>2. \A i \in Places(f, News) : i \in Nat /\ i < l /\ g[i].n = f[i].n /\ f[i].n \in Nat
  BY <1>1 DEF Frame
<1>3. ASSUME x.kind \in News, x.n = m, m \in {n, n + 1},
             Places(f, News) # {} => \E i : LastNews(f, i) /\ f[i].n = n
      PROVE  Gapless(g) /\ NewsUpTo(g, m) /\ LastNews(g, l) /\ g[l].n = m
  <2>1. NewsUpTo(g, m) /\ LastNews(g, l) /\ g[l].n = m
    BY <1>1, <1>2, <1>3 DEF NewsUpTo, LastNews
  <2>2. ASSUME NEW i \in Places(g, News), NEW j \in Places(g, News), Follows(g, i, j)
        PROVE  g[j].n = g[i].n \/ g[j].n = g[i].n + 1
    <3>1. i \in Places(f, News) /\ i < j
      BY <1>1, <1>2, <1>3, <2>2 DEF Follows
    <3>2. CASE j = l
      <4>1. PICK k : LastNews(f, k) /\ f[k].n = n
        BY <1>3, <3>1
      <4>2. k = i
        BY <1>1, <1>2, <1>3, <2>2, <3>1, <3>2, <4>1 DEF Follows, LastNews
      <4>. QED
        BY <1>1, <1>2, <1>3, <3>1, <3>2, <4>1, <4>2
    <3>3. CASE j # l
      <4>1. j \in Places(f, News) /\ Follows(f, i, j)
        BY <1>1, <1>3, <2>2, <3>1, <3>3 DEF Follows
      <4>. QED
        BY <1>2, <3>1, <4>1 DEF Gapless
    <3>. QED
      BY <3>2, <3>3
  <2>. QED
    BY <2>1, <2>2 DEF Gapless
<1>4. ASSUME x.kind \notin News
      PROVE  /\ Gapless(g) /\ NewsUpTo(g, n)
             /\ \A i : LastNews(f, i) => LastNews(g, i) /\ g[i].n = f[i].n
  <2>1. \A i, j : Follows(g, i, j) => Follows(f, i, j)
    BY <1>1, <1>4 DEF Follows
  <2>. QED
    BY <1>1, <1>2, <1>4, <2>1 DEF Gapless, NewsUpTo, LastNews
<1>. QED
  BY <1>3, <1>4 DEF g

-----------------------------------------------------------------------------
(* A connection: its type, and what send does to it. *)

FitConnection == {k \in Connection : Len(k.queue) <= QueueSize}

\* What a step leaves alone of a connection, its stream aside.
SameReader(k, l) ==
    /\ l.reader = k.reader /\ l.writer = k.writer /\ l.finished = k.finished
    /\ l.asked = k.asked

LEMMA Fields ==
    ASSUME NEW k \in FitConnection
    PROVE  /\ k \in Connection /\ k.queue \in Seq(Frame) /\ k.got \in Seq(Frame)
           /\ k.todo \in Seq(Requests) /\ k.done \in BOOLEAN /\ k.finished \in BOOLEAN
           /\ k.eof \in BOOLEAN /\ k.asked \in Nat /\ k.sent \in Nat
           /\ Len(k.queue) \in Nat /\ Len(k.queue) <= QueueSize /\ Stream(k) \in Seq(Frame)
<1>. HIDE DEF Frame, Requests
<1>1. /\ k \in Connection /\ k.queue \in Seq(Frame) /\ k.got \in Seq(Frame)
      /\ k.todo \in Seq(Requests) /\ k.done \in BOOLEAN /\ k.finished \in BOOLEAN
      /\ k.eof \in BOOLEAN /\ k.asked \in Nat /\ k.sent \in Nat
      /\ Len(k.queue) <= QueueSize
  BY DEF FitConnection, Connection
<1>2. Stream(k) \in Seq(Frame)
  BY <1>1, ConcatProperties DEF Stream
<1>3. Len(k.queue) \in Nat
  BY <1>1
<1>. QED
  BY <1>1, <1>2, <1>3

LEMMA StreamAppend ==
    ASSUME NEW g \in Seq(Frame), NEW q \in Seq(Frame), NEW x \in Frame
    PROVE  g \o Append(q, x) = Append(g \o q, x)
<1>. HIDE DEF Frame
<1>1. Append(q, x) = q \o <<x>> /\ <<x>> \in Seq(Frame)
  BY AppendIsConcat
<1>2. g \o q \in Seq(Frame)
  BY ConcatProperties
<1>3. Append(g \o q, x) = (g \o q) \o <<x>>
  BY <1>2, AppendIsConcat
<1>. QED
  BY <1>1, <1>3, ConcatAssociative

LEMMA StreamShift ==
    ASSUME NEW g \in Seq(Frame), NEW q \in Seq(Frame), q # <<>>
    PROVE  Append(g, Head(q)) \o Tail(q) = g \o q
<1>. HIDE DEF Frame
<1>1. Head(q) \in Frame /\ Tail(q) \in Seq(Frame)
  BY HeadTailProperties
<1>2. Append(g, Head(q)) = g \o <<Head(q)>> /\ <<Head(q)>> \in Seq(Frame)
  BY <1>1, AppendIsConcat
<1>3. Append(g, Head(q)) \o Tail(q) = g \o (<<Head(q)>> \o Tail(q))
  <2>1. (g \o <<Head(q)>>) \o Tail(q) = g \o (<<Head(q)>> \o Tail(q))
    <3>. DEFINE x == <<Head(q)>>
                y == Tail(q)
    <3>1. x \in Seq(Frame) /\ y \in Seq(Frame)
      BY <1>1, <1>2
    <3>. HIDE DEF x, y
    <3>2. (g \o x) \o y = g \o (x \o y)
      BY <3>1, ConcatAssociative, SMTT(30)
    <3>. QED
      BY <3>2 DEF x, y
  <2>. QED
    BY <1>2, <2>1
<1>4. <<Head(q)>> \o Tail(q) = q
  BY <1>1
<1>. QED
  BY <1>3, <1>4

\* A frame is appended, or the connection is closed.
LEMMA SendDoes ==
    ASSUME NEW k \in FitConnection, NEW x \in Frame
    PROVE  /\ Send(k, x) \in FitConnection /\ SameReader(k, Send(k, x))
           /\ Send(k, x).got = k.got
           /\ k.done => Send(k, x) = k
           /\ ~Send(k, x).done => Stream(Send(k, x)) = Append(Stream(k), x)
           /\ Send(k, x).done => Stream(Send(k, x)) = Stream(k)
<1>. HIDE DEF Frame, Requests
<1>1. /\ k \in Connection /\ k.queue \in Seq(Frame) /\ k.got \in Seq(Frame) /\ k.done \in BOOLEAN
      /\ Len(k.queue) \in Nat /\ Len(k.queue) <= QueueSize
  BY Fields
<1>2. CASE k.done
  BY <1>2 DEF Send, SameReader
<1>3. CASE ~k.done /\ Len(k.queue) < QueueSize
  <2>. DEFINE l == [k EXCEPT !.queue = Append(@, x)]
  <2>1. Append(k.queue, x) \in Seq(Frame) /\ Len(Append(k.queue, x)) <= QueueSize
    BY <1>1, <1>3, QueueAssumption
  <2>2. Send(k, x) = l
    BY <1>3 DEF Send
  <2>3. l \in Connection /\ l.queue = Append(k.queue, x) /\ l.got = k.got /\ ~l.done
    BY <1>1, <1>3, <2>1 DEF Connection
  <2>4. SameReader(k, l)
    BY <1>1 DEF Connection, SameReader
  <2>5. Stream(l) = Append(Stream(k), x)
    <3>1. Stream(l) = k.got \o Append(k.queue, x) /\ Stream(k) = k.got \o k.queue
      BY <2>3, Zenon DEF Stream
    <3>2. k.got \o Append(k.queue, x) = Append(k.got \o k.queue, x)
      BY <1>1, StreamAppend, Zenon
    <3>. QED
      BY <3>1, <3>2, Zenon
  <2>. HIDE DEF l
  <2>. QED
    BY <1>3, <2>1, <2>2, <2>3, <2>4, <2>5 DEF FitConnection
<1>4. CASE ~k.done /\ ~(Len(k.queue) < QueueSize)
  <2>. DEFINE l == [k EXCEPT !.done = TRUE]
  <2>1. Send(k, x) = l
    BY <1>4 DEF Send
  <2>2. l \in Connection /\ l.queue = k.queue /\ l.got = k.got /\ l.done
    BY <1>1 DEF Connection
  <2>3. SameReader(k, l)
    BY <1>1 DEF Connection, SameReader
  <2>. HIDE DEF l
  <2>. QED
    BY <1>1, <1>4, <2>1, <2>2, <2>3 DEF FitConnection, Stream
<1>. QED
  BY <1>2, <1>3, <1>4

LEMMA FrameTypes ==
    /\ \A n \in Nat : /\ ResponseFrame(n) \in Frame /\ ResponseFrame(n).kind = "response"
                      /\ ResponseFrame(n).n = n
    /\ \A n \in Nat : /\ EventFrame(n) \in Frame /\ EventFrame(n).kind = "event"
                      /\ EventFrame(n).n = n
    /\ \A n \in Nat : /\ StateFrame(n) \in Frame /\ StateFrame(n).kind = "state"
                      /\ StateFrame(n).seq = n
    /\ lastID \in Nat /\ seq \in Nat =>
         /\ HelloFrame \in Frame /\ HelloFrame.kind = "hello"
         /\ HelloFrame.n = lastID /\ HelloFrame.seq = seq
BY DEF ResponseFrame, EventFrame, StateFrame, HelloFrame, Frame

\* A line is read: its response is the last of the stream, or the connection is
\* closed.
LEMMA RespondDoes ==
    ASSUME NEW k \in FitConnection, k.todo # <<>>
    PROVE  /\ Respond(k) \in FitConnection
           /\ Respond(k).asked = k.asked + 1 /\ Respond(k).reader = k.reader
           /\ Respond(k).writer = k.writer /\ Respond(k).finished = k.finished
           /\ Respond(k).got = k.got
           /\ k.done => Respond(k).done
           /\ ~Respond(k).done => Stream(Respond(k)) = Append(Stream(k), ResponseFrame(k.asked + 1))
           /\ Respond(k).done => Stream(Respond(k)) = Stream(k)
<1>. HIDE DEF Frame, Requests
<1>. DEFINE l == [Skip(k) EXCEPT !.asked = @ + 1]
<1>1. /\ k \in Connection /\ k.asked \in Nat /\ k.todo \in Seq(Requests)
      /\ Len(k.queue) <= QueueSize
  BY Fields
<1>2. Tail(k.todo) \in Seq(Requests) /\ k.asked + 1 \in Nat
  BY <1>1, HeadTailProperties
<1>3. l \in Connection /\ l.queue = k.queue /\ l.got = k.got /\ l.done = k.done
  BY <1>1, <1>2 DEF Connection, Skip
<1>4. /\ l.asked = k.asked + 1 /\ l.reader = k.reader /\ l.writer = k.writer
      /\ l.finished = k.finished
  BY <1>1 DEF Connection, Skip
<1>5. l \in FitConnection /\ Stream(l) = Stream(k)
  BY <1>1, <1>3 DEF FitConnection, Stream
<1>6. Respond(k) = Send(l, ResponseFrame(k.asked + 1))
  BY DEF Respond
<1>7. ResponseFrame(k.asked + 1) \in Frame
  BY <1>2, FrameTypes
<1>. HIDE DEF l
<1>. QED
  BY <1>3, <1>4, <1>5, <1>6, <1>7, SendDoes DEF SameReader

LEMMA GoOnDoes ==
    ASSUME NEW k \in FitConnection
    PROVE  /\ GoOn(k) \in FitConnection /\ Stream(GoOn(k)) = Stream(k) /\ GoOn(k).got = k.got
           /\ GoOn(k).asked = k.asked /\ GoOn(k).writer = k.writer
           /\ GoOn(k).finished = k.finished /\ GoOn(k).done = k.done
           /\ GoOn(k).reader = IF k.done THEN "left" ELSE k.reader
<1>. HIDE DEF Frame, Requests
<1>1. CASE k.done
  <2>1. GoOn(k) = [k EXCEPT !.reader = "left"]
    BY <1>1 DEF GoOn
  <2>. QED
    BY <1>1, <2>1 DEF FitConnection, Connection, Stream
<1>2. CASE ~k.done
  BY <1>2 DEF GoOn
<1>. QED
  BY <1>1, <1>2

-----------------------------------------------------------------------------
(* Steps of the server, connection by connection. *)

ConnsOK == conn \in [Conns -> FitConnection]

LEMMA ConnsFit == TypeOK => ConnsOK /\ lastID \in Nat /\ seq \in Nat /\ notifying \in Nat
<1>. SUFFICES ASSUME TypeOK PROVE ConnsOK /\ lastID \in Nat /\ seq \in Nat /\ notifying \in Nat
  OBVIOUS
<1>1. ConnsOK
  BY DEF TypeOK, ConnsOK, FitConnection
<1>2. lastID \in Nat /\ seq \in Nat /\ notifying \in Nat
  BY DEF TypeOK
<1>. QED
  BY <1>1, <1>2

\* A step of one connection.
LEMMA OneMoves ==
    ASSUME ConnsOK, NEW c \in Conns, NEW l \in FitConnection, conn' = [conn EXCEPT ![c] = l]
    PROVE  ConnsOK' /\ conn'[c] = l /\ \A e \in Conns : e # c => conn'[e] = conn[e]
BY DEF ConnsOK

\* The steps that take no line and push no frame: what is written was in the
\* queue, and the rest changes the flags.
Flags(k, l) == l.got = k.got /\ l.queue = k.queue /\ l.asked = k.asked

LEMMA WriteLoopDoes ==
    ASSUME ConnsOK, NEW c \in Conns, WriteLoop(c)
    PROVE  /\ ConnsOK' /\ \A e \in Conns : e # c => conn'[e] = conn[e]
           /\ SameReader(conn[c], conn'[c]) /\ conn'[c].done = conn[c].done
           /\ Stream(conn'[c]) = Stream(conn[c])
           /\ conn'[c].got = Append(conn[c].got, Head(conn[c].queue))
           /\ conn[c].queue # <<>>
<1>. HIDE DEF Frame, Requests
<1>. DEFINE k == conn[c]
            l == [k EXCEPT !.got = Append(@, Head(k.queue)), !.queue = Tail(@)]
<1>1. conn' = [conn EXCEPT ![c] = l] /\ k.queue # <<>>
  BY DEF WriteLoop, ConnsOK
<1>2. k \in FitConnection
  BY DEF ConnsOK
<1>3. k \in Connection /\ k.got \in Seq(Frame) /\ k.queue \in Seq(Frame) /\ Len(k.queue) <= QueueSize
  BY <1>2, Fields
<1>. HIDE DEF k
<1>4. /\ Append(k.got, Head(k.queue)) \in Seq(Frame) /\ Tail(k.queue) \in Seq(Frame)
      /\ Len(Tail(k.queue)) <= QueueSize
  BY <1>1, <1>3, HeadTailProperties, QueueAssumption
<1>5. l \in Connection /\ l.got = Append(k.got, Head(k.queue)) /\ l.queue = Tail(k.queue)
  BY <1>3, <1>4 DEF Connection
<1>6. SameReader(k, l) /\ l.done = k.done
  BY <1>3 DEF Connection, SameReader
<1>7. Stream(l) = Stream(k)
  BY <1>1, <1>3, <1>5, StreamShift DEF Stream
<1>8. l \in FitConnection
  BY <1>4, <1>5 DEF FitConnection
<1>. HIDE DEF l
<1>9. ConnsOK' /\ conn'[c] = l /\ \A e \in Conns : e # c => conn'[e] = conn[e]
  BY <1>1, <1>8, OneMoves
<1>. QED
  BY <1>1, <1>5, <1>6, <1>7, <1>9 DEF k

\* The client's lines.
LEMMA LinesDo ==
    ASSUME NEW k \in FitConnection, NEW q \in Requests
    PROVE  /\ LET l == [k EXCEPT !.todo = Append(@, q), !.sent = @ + 1]
              IN l \in FitConnection /\ Flags(k, l) /\ SameReader(k, l) /\ l.done = k.done
           /\ k.todo # <<>> =>
                LET l == [k EXCEPT !.todo = Tail(@)]
                IN l \in FitConnection /\ Flags(k, l) /\ SameReader(k, l) /\ l.done = k.done
<1>. HIDE DEF Frame, Requests
<1>1. k \in Connection /\ k.todo \in Seq(Requests) /\ k.sent \in Nat /\ Len(k.queue) <= QueueSize
  BY Fields
<1>2. Append(k.todo, q) \in Seq(Requests) /\ k.sent + 1 \in Nat
  BY <1>1, AppendProperties
<1>3. LET l == [k EXCEPT !.todo = Append(@, q), !.sent = @ + 1]
      IN l \in FitConnection /\ Flags(k, l) /\ SameReader(k, l) /\ l.done = k.done
  BY <1>1, <1>2 DEF FitConnection, Connection, Flags, SameReader
<1>4. ASSUME k.todo # <<>>
      PROVE  LET l == [k EXCEPT !.todo = Tail(@)]
             IN l \in FitConnection /\ Flags(k, l) /\ SameReader(k, l) /\ l.done = k.done
  <2>1. Tail(k.todo) \in Seq(Requests)
    BY <1>1, <1>4, HeadTailProperties
  <2>. QED
    BY <1>1, <2>1 DEF FitConnection, Connection, Flags, SameReader
<1>. QED
  BY <1>3, <1>4, Zenon

\* Only connection c moves, and its fields become the ones given.
Moves(c) == ConnsOK' /\ \A e \in Conns : e # c => conn'[e] = conn[e]

Turns(c, reader, done) ==
    /\ Moves(c) /\ Flags(conn[c], conn'[c])
    /\ conn'[c].reader = reader /\ conn'[c].done = done

LEMMA GoroutinesDo ==
    ASSUME ConnsOK, NEW c \in Conns
    PROVE  /\ WriteFails(c) \/ WriteEnds(c) =>
                Turns(c, conn[c].reader, TRUE) /\ conn'[c].finished = conn[c].finished
           /\ Accept(c) => Turns(c, "reading", conn[c].done) /\ conn'[c].finished = conn[c].finished
           /\ ReadFails(c) => Turns(c, "left", conn[c].done) /\ conn'[c].finished = conn[c].finished
           /\ Unregister(c) =>
                Turns(c, "unregistered", conn[c].done) /\ conn'[c].finished = conn[c].finished
           /\ Finish(c) => Turns(c, "gone", conn[c].done)
<1>. HIDE DEF Frame, Requests
<1>. DEFINE k == conn[c]
<1>1. k \in FitConnection
  BY DEF ConnsOK
<1>. HIDE DEF k
<1>2. ASSUME NEW l \in FitConnection, conn' = [conn EXCEPT ![c] = l], Flags(k, l)
      PROVE  Turns(c, l.reader, l.done) /\ conn'[c] = l
  BY <1>2, OneMoves DEF Turns, Moves, k
<1>3. ASSUME WriteFails(c) \/ WriteEnds(c)
      PROVE  Turns(c, conn[c].reader, TRUE) /\ conn'[c].finished = conn[c].finished
  <2>. DEFINE l == [k EXCEPT !.writer = "gone", !.done = TRUE]
  <2>1. conn' = [conn EXCEPT ![c] = l]
    BY <1>3 DEF WriteFails, WriteEnds, ConnsOK, k
  <2>2. /\ l \in FitConnection /\ Flags(k, l) /\ l.done = TRUE /\ l.reader = k.reader
        /\ l.finished = k.finished
    BY <1>1 DEF FitConnection, Connection, Flags
  <2>. HIDE DEF l
  <2>. QED
    BY <1>2, <2>1, <2>2 DEF k
<1>4. ASSUME Accept(c)
      PROVE  Turns(c, "reading", conn[c].done) /\ conn'[c].finished = conn[c].finished
  <2>. DEFINE l == [k EXCEPT !.reader = "reading", !.writer = "writing"]
  <2>1. conn' = [conn EXCEPT ![c] = l]
    BY <1>4 DEF Accept, ConnsOK, k
  <2>2. /\ l \in FitConnection /\ Flags(k, l) /\ l.done = k.done /\ l.reader = "reading"
        /\ l.finished = k.finished
    BY <1>1 DEF FitConnection, Connection, Flags
  <2>. HIDE DEF l
  <2>. QED
    BY <1>2, <2>1, <2>2 DEF k
<1>5. ASSUME NEW r \in {"left", "unregistered"}, conn' = [conn EXCEPT ![c].reader = r]
      PROVE  Turns(c, r, conn[c].done) /\ conn'[c].finished = conn[c].finished
  <2>. DEFINE l == [k EXCEPT !.reader = r]
  <2>1. conn' = [conn EXCEPT ![c] = l]
    BY <1>5 DEF ConnsOK, k
  <2>2. /\ l \in FitConnection /\ Flags(k, l) /\ l.done = k.done /\ l.reader = r
        /\ l.finished = k.finished
    BY <1>1 DEF FitConnection, Connection, Flags
  <2>. HIDE DEF l
  <2>. QED
    BY <1>2, <2>1, <2>2 DEF k
<1>6. ASSUME Finish(c) PROVE Turns(c, "gone", conn[c].done)
  <2>. DEFINE l == [k EXCEPT !.reader = "gone", !.finished = TRUE]
  <2>1. conn' = [conn EXCEPT ![c] = l]
    BY <1>6 DEF Finish, ConnsOK, k
  <2>2. l \in FitConnection /\ Flags(k, l) /\ l.done = k.done /\ l.reader = "gone"
    BY <1>1 DEF FitConnection, Connection, Flags
  <2>. HIDE DEF l
  <2>. QED
    BY <1>2, <2>1, <2>2 DEF k
<1>. QED
  BY <1>3, <1>4, <1>5, <1>6 DEF ReadFails, Unregister

\* A line is sent, skipped or the last: only what waits to be read changes.
LEMMA ClientDoes ==
    ASSUME ConnsOK, NEW c \in Conns,
           \/ HangUp(c) \/ \E q \in Requests : SendLine(c, q)
           \/ Handle(c) /\ Head(conn[c].todo) = "blank"
    PROVE  Moves(c) /\ Flags(conn[c], conn'[c]) /\ SameReader(conn[c], conn'[c])
           /\ conn'[c].done = conn[c].done
<1>. HIDE DEF Frame, Requests
<1>. DEFINE k == conn[c]
<1>1. k \in FitConnection
  BY DEF ConnsOK
<1>. HIDE DEF k
<1>2. ASSUME NEW l \in FitConnection, conn' = [conn EXCEPT ![c] = l],
             Flags(k, l), SameReader(k, l), l.done = k.done
      PROVE  Moves(c) /\ Flags(k, conn'[c]) /\ SameReader(k, conn'[c]) /\ conn'[c].done = k.done
  BY <1>2, OneMoves DEF Moves
<1>3. CASE HangUp(c)
  <2>. DEFINE l == [k EXCEPT !.eof = TRUE]
  <2>1. conn' = [conn EXCEPT ![c] = l]
    BY <1>3 DEF HangUp, ConnsOK, k
  <2>2. l \in FitConnection /\ Flags(k, l) /\ SameReader(k, l) /\ l.done = k.done
    BY <1>1 DEF FitConnection, Connection, Flags, SameReader
  <2>. HIDE DEF l
  <2>. QED
    BY <1>2, <2>1, <2>2 DEF k
<1>4. ASSUME NEW q \in Requests, SendLine(c, q)
      PROVE  Moves(c) /\ Flags(k, conn'[c]) /\ SameReader(k, conn'[c]) /\ conn'[c].done = k.done
  <2>. DEFINE l == [k EXCEPT !.todo = Append(@, q), !.sent = @ + 1]
  <2>1. conn' = [conn EXCEPT ![c] = l]
    BY <1>4 DEF SendLine, ConnsOK, k
  <2>2. l \in FitConnection /\ Flags(k, l) /\ SameReader(k, l) /\ l.done = k.done
    BY <1>1, LinesDo
  <2>. HIDE DEF l
  <2>. QED
    BY <1>2, <2>1, <2>2
<1>5. CASE Handle(c) /\ Head(conn[c].todo) = "blank"
  <2>. DEFINE l == [k EXCEPT !.todo = Tail(@)]
  <2>1. k.todo # <<>>
    BY <1>5 DEF Handle, k
  <2>2. conn' = [conn EXCEPT ![c] = l]
    BY <1>5 DEF Handle, Skip, k
  <2>3. \E q : q \in Requests
    BY DEF Requests
  <2>4. l \in FitConnection /\ Flags(k, l) /\ SameReader(k, l) /\ l.done = k.done
    BY <1>1, <2>1, <2>3, LinesDo
  <2>. HIDE DEF l
  <2>. QED
    BY <1>2, <2>2, <2>4 DEF k
<1>. QED
  BY <1>3, <1>4, <1>5 DEF k

\* A request is answered; subscribing adds the hello.
LEMMA HandleDoes ==
    ASSUME ConnsOK, NEW c \in Conns, Handle(c), Head(conn[c].todo) # "blank"
    PROVE  /\ Moves(c) /\ conn'[c] = GoOn(Respond(conn[c]))
           /\ conn[c].todo # <<>> /\ conn[c].reader = "reading"
<1>1. conn[c] \in FitConnection /\ conn[c].todo # <<>> /\ conn[c].reader = "reading"
  BY DEF ConnsOK, Handle
<1>2. GoOn(Respond(conn[c])) \in FitConnection
  BY <1>1, RespondDoes, GoOnDoes
<1>3. conn' = [conn EXCEPT ![c] = GoOn(Respond(conn[c]))]
  BY DEF Handle, ConnsOK
<1>. QED
  BY <1>1, <1>2, <1>3, OneMoves DEF Moves

LEMMA SubscribeDoes ==
    ASSUME ConnsOK, lastID \in Nat, seq \in Nat, NEW c \in Conns, Subscribe(c)
    PROVE  /\ Moves(c) /\ conn'[c] = GoOn(Send(Respond(conn[c]), HelloFrame))
           /\ conn[c].todo # <<>> /\ conn[c].reader = "reading"
<1>1. conn[c] \in FitConnection /\ conn[c].todo # <<>> /\ conn[c].reader = "reading"
  BY DEF ConnsOK, Subscribe
<1>2. HelloFrame \in Frame
  BY FrameTypes
<1>3. GoOn(Send(Respond(conn[c]), HelloFrame)) \in FitConnection
  BY <1>1, <1>2, RespondDoes, SendDoes, GoOnDoes
<1>4. conn' = [conn EXCEPT ![c] = GoOn(Send(Respond(conn[c]), HelloFrame))]
  BY DEF Subscribe, ConnsOK
<1>. QED
  BY <1>1, <1>3, <1>4, OneMoves DEF Moves

\* A push goes to every subscriber, and those it closes are dropped.
LEMMA PushDoes ==
    ASSUME ConnsOK, subs \subseteq Conns, NEW x \in Frame, Push(x)
    PROVE  /\ ConnsOK'
           /\ \A e \in Conns : conn'[e] = IF e \in subs THEN Send(conn[e], x) ELSE conn[e]
           /\ subs' = {e \in subs : ~conn'[e].done}
<1>1. \A e \in Conns : conn[e] \in FitConnection /\ Send(conn[e], x) \in FitConnection
  BY SendDoes DEF ConnsOK
<1>. QED
  BY <1>1 DEF Push, ConnsOK

LEMMA CloseConnsDoes ==
    ASSUME ConnsOK, CloseConns
    PROVE  ConnsOK' /\ \A e \in Conns : /\ SameReader(conn[e], conn'[e]) /\ Flags(conn[e], conn'[e])
                                        /\ conn'[e].done = (conn[e].done \/ e \in conns)
<1>. HIDE DEF Frame, Requests
<1>. DEFINE close(k) == [k EXCEPT !.done = TRUE]
<1>1. ASSUME NEW k \in FitConnection
      PROVE  close(k) \in FitConnection /\ SameReader(k, close(k)) /\ Flags(k, close(k)) /\ close(k).done = TRUE
  BY <1>1 DEF FitConnection, Connection, SameReader, Flags
<1>2. conn' = [e \in Conns |-> IF e \in conns THEN close(conn[e]) ELSE conn[e]]
  BY DEF CloseConns
<1>. HIDE DEF close
<1>3. \A e \in Conns : conn[e] \in FitConnection /\ conn[e].done \in BOOLEAN
  BY Fields DEF ConnsOK
<1>4. ConnsOK'
  BY <1>1, <1>2, <1>3 DEF ConnsOK
<1>5. ASSUME NEW e \in Conns
      PROVE  /\ SameReader(conn[e], conn'[e]) /\ Flags(conn[e], conn'[e])
             /\ conn'[e].done = (conn[e].done \/ e \in conns)
  <2>1. CASE e \in conns
    BY <1>1, <1>2, <1>3, <2>1
  <2>2. CASE e \notin conns
    BY <1>2, <1>3, <2>2 DEF SameReader, Flags
  <2>. QED
    BY <2>1, <2>2
<1>. QED
  BY <1>4, <1>5

-----------------------------------------------------------------------------
(* Who is on the server's lists. *)

\* A connection is on the lists while it is read from, and off them before its
\* queue is closed; once the server is closed, whoever still reads is cut off.
Listed(c) ==
    /\ conn[c].finished => conn[c].reader = "gone"
    /\ c \in subs => conn[c].reader \in {"reading", "left"}
    /\ conn[c].reader = "none" => conn[c].got = <<>> /\ conn[c].queue = <<>> /\ conn[c].asked = 0
    /\ conn[c].reader \in {"reading", "left"} /\ server # "closed" => c \in conns
    /\ server = "closed" /\ conn[c].reader = "reading" => conn[c].done

ListInv ==
    /\ \A c \in Conns : Listed(c)
    /\ notifying \in {0, seq}
    /\ plan \in Plans

LEMMA PlanTypes ==
    ASSUME plan \in Plans
    PROVE  /\ MaxEvents \in Nat /\ MaxUpdates \in Nat
           /\ plan.conns \subseteq Conns /\ plan.requests \subseteq Requests
BY PlansAssumption DEF MaxEvents, MaxUpdates

LEMMA ServerInitTypes == Init => TypeOK /\ ListInv
<1>. SUFFICES ASSUME Init PROVE TypeOK /\ ListInv
  OBVIOUS
<1>1. NoConnection \in FitConnection
  BY QueueAssumption DEF NoConnection, FitConnection, Connection
<1>2. conn \in [Conns -> Connection] /\ \A c \in Conns : Len(conn[c].queue) <= QueueSize
  BY <1>1 DEF Init, FitConnection
<1>3. TypeOK
  BY <1>2, PlanTypes DEF Init, TypeOK
<1>4. ListInv
  BY DEF Init, ListInv, Listed, NoConnection
<1>. QED
  BY <1>3, <1>4

\* What every step needs of the types.
LEMMA TypesFrom ==
    ASSUME TypeOK, ConnsOK', UNCHANGED plan,
           subs' \subseteq conns', conns' \subseteq Conns, server' \in {"open", "done", "closed"},
           lastID' \in 0..MaxEvents, seq' \in 0..MaxUpdates, notifying' \in 0..seq'
    PROVE  TypeOK'
BY DEF TypeOK, ConnsOK, FitConnection, MaxEvents, MaxUpdates

\* The steps of a connection that neither take a line nor push a frame.
Idles(c) ==
    \/ Accept(c) \/ WriteLoop(c) \/ WriteFails(c) \/ WriteEnds(c)
    \/ ReadFails(c) \/ Unregister(c) \/ Finish(c)
    \/ HangUp(c) \/ \E q \in Requests : SendLine(c, q)
    \/ Handle(c) /\ Head(conn[c].todo) = "blank"

LEMMA IdlesMove ==
    ASSUME ConnsOK, NEW c \in Conns, Idles(c)
    PROVE  Moves(c)
<1>1. CASE WriteLoop(c)
  BY <1>1, WriteLoopDoes DEF Moves
<1>2. CASE Accept(c) \/ WriteFails(c) \/ WriteEnds(c) \/ ReadFails(c) \/ Unregister(c) \/ Finish(c)
  BY <1>2, GoroutinesDo DEF Turns
<1>3. CASE \/ HangUp(c) \/ \E q \in Requests : SendLine(c, q)
           \/ Handle(c) /\ Head(conn[c].todo) = "blank"
  BY <1>3, ClientDoes
<1>. QED
  BY <1>1, <1>2, <1>3 DEF Idles

LEMMA IdlesTypes ==
    ASSUME TypeOK, NEW c \in Conns, Idles(c), UNCHANGED plan
    PROVE  TypeOK'
<1>1. ConnsOK'
  BY ConnsFit, IdlesMove DEF Moves
<1>2. UNCHANGED <<server, lastID, seq, notifying>>
  BY DEF Idles, Accept, WriteLoop, WriteFails, WriteEnds, ReadFails, Unregister, Finish, HangUp,
         SendLine, Handle
<1>3. \/ subs' = subs /\ conns' = conns
      \/ subs' = subs /\ conns' = conns \cup {c}
      \/ subs' = subs \ {c} /\ conns' = conns \ {c}
  BY DEF Idles, Accept, WriteLoop, WriteFails, WriteEnds, ReadFails, Unregister, Finish, HangUp,
         SendLine, Handle
<1>4. subs' \subseteq conns' /\ conns' \subseteq Conns
  BY <1>3 DEF TypeOK
<1>5. /\ server' \in {"open", "done", "closed"}
      /\ lastID' \in 0..MaxEvents /\ seq' \in 0..MaxUpdates /\ notifying' \in 0..seq'
  BY <1>2 DEF TypeOK
<1>. QED
  BY <1>1, <1>4, <1>5, TypesFrom

LEMMA IdlesListed ==
    ASSUME TypeOK, ListInv, NEW c \in Conns, Idles(c), UNCHANGED plan
    PROVE  ListInv'
<1>1. ConnsOK /\ Listed(c)
  BY ConnsFit DEF ListInv
<1>2. UNCHANGED <<server, seq, notifying>>
  BY DEF Idles, Accept, WriteLoop, WriteFails, WriteEnds, ReadFails, Unregister, Finish, HangUp,
         SendLine, Handle
<1>3. ASSUME NEW e \in Conns, e # c PROVE Listed(e)'
  <2>1. conn'[e] = conn[e]
    BY <1>1, <1>3, IdlesMove DEF Moves
  <2>2. (e \in subs' <=> e \in subs) /\ (e \in conns' <=> e \in conns)
    BY <1>3 DEF Idles, Accept, WriteLoop, WriteFails, WriteEnds, ReadFails, Unregister, Finish,
         HangUp, SendLine, Handle
  <2>3. Listed(e)
    BY DEF ListInv
  <2>. QED
    BY <1>2, <2>1, <2>2, <2>3 DEF Listed
<1>4. Listed(c)'
  <2>1. CASE WriteLoop(c)
    <3>1. UNCHANGED <<subs, conns>>
      BY <2>1 DEF WriteLoop
    <3>2. /\ conn'[c].reader = conn[c].reader /\ conn'[c].finished = conn[c].finished
          /\ conn'[c].done = conn[c].done /\ conn[c].queue # <<>>
      BY <1>1, <2>1, WriteLoopDoes DEF SameReader
    <3>. QED
      BY <1>1, <1>2, <3>1, <3>2 DEF Listed
  <2>2. CASE WriteFails(c) \/ WriteEnds(c)
    <3>1. UNCHANGED <<subs, conns>>
      BY <2>2 DEF WriteFails, WriteEnds
    <3>2. /\ conn'[c].reader = conn[c].reader /\ conn'[c].finished = conn[c].finished
          /\ conn'[c].done /\ Flags(conn[c], conn'[c])
      BY <1>1, <2>2, GoroutinesDo DEF Turns
    <3>. QED
      BY <1>1, <1>2, <3>1, <3>2 DEF Listed, Flags
  <2>3. CASE Accept(c)
    <3>1. /\ subs' = subs /\ conns' = conns \cup {c}
          /\ server = "open" /\ conn[c].reader = "none"
      BY <2>3 DEF Accept
    <3>2. conn'[c].reader = "reading" /\ conn'[c].finished = conn[c].finished
      BY <1>1, <2>3, GoroutinesDo DEF Turns
    <3>. QED
      BY <1>1, <1>2, <3>1, <3>2 DEF Listed
  <2>4. CASE ReadFails(c)
    <3>1. UNCHANGED <<subs, conns>> /\ conn[c].reader = "reading"
      BY <2>4 DEF ReadFails
    <3>2. conn'[c].reader = "left" /\ conn'[c].finished = conn[c].finished
      BY <1>1, <2>4, GoroutinesDo DEF Turns
    <3>. QED
      BY <1>1, <1>2, <3>1, <3>2 DEF Listed
  <2>5. CASE Unregister(c)
    <3>1. subs' = subs \ {c} /\ conn[c].reader = "left"
      BY <2>5 DEF Unregister
    <3>2. conn'[c].reader = "unregistered" /\ conn'[c].finished = conn[c].finished
      BY <1>1, <2>5, GoroutinesDo DEF Turns
    <3>. QED
      BY <1>1, <1>2, <3>1, <3>2 DEF Listed
  <2>6. CASE Finish(c)
    <3>1. subs' = subs /\ conn[c].reader = "unregistered"
      BY <2>6 DEF Finish
    <3>2. conn'[c].reader = "gone"
      BY <1>1, <2>6, GoroutinesDo DEF Turns
    <3>. QED
      BY <1>1, <1>2, <3>1, <3>2 DEF Listed
  <2>7. CASE \/ HangUp(c) \/ \E q \in Requests : SendLine(c, q)
             \/ Handle(c) /\ Head(conn[c].todo) = "blank"
    <3>1. UNCHANGED <<subs, conns>>
      BY <2>7 DEF HangUp, SendLine, Handle
    <3>2. /\ Flags(conn[c], conn'[c]) /\ SameReader(conn[c], conn'[c])
          /\ conn'[c].done = conn[c].done
      BY <1>1, <2>7, ClientDoes
    <3>. QED
      BY <1>1, <1>2, <3>1, <3>2 DEF Listed, Flags, SameReader
  <2>. QED
    BY <2>1, <2>2, <2>3, <2>4, <2>5, <2>6, <2>7 DEF Idles
<1>. QED
  BY <1>2, <1>3, <1>4 DEF ListInv

\* A request is answered, and its sender perhaps subscribed.
Answers(c) == (Handle(c) /\ Head(conn[c].todo) # "blank") \/ Subscribe(c)

LEMMA AnswersDo ==
    ASSUME TypeOK, NEW c \in Conns, Answers(c)
    PROVE  /\ Moves(c) /\ conn[c].todo # <<>> /\ conn[c].reader = "reading"
           /\ conn'[c].finished = conn[c].finished
           /\ conn'[c].reader = IF conn'[c].done THEN "left" ELSE "reading"
           /\ conn[c].done => conn'[c].done
           /\ subs' \subseteq subs \cup {c} /\ subs \subseteq subs'
           /\ c \in subs' => c \in subs \/ ~conn'[c].done
           /\ UNCHANGED <<conns, server, lastID, seq, notifying>>
<1>1. ConnsOK /\ lastID \in Nat /\ seq \in Nat /\ conn[c] \in FitConnection
  BY ConnsFit DEF ConnsOK
<1>2. CASE Handle(c) /\ Head(conn[c].todo) # "blank"
  <2>1. /\ Moves(c) /\ conn'[c] = GoOn(Respond(conn[c]))
        /\ conn[c].todo # <<>> /\ conn[c].reader = "reading"
    BY <1>1, <1>2, HandleDoes
  <2>2. /\ Respond(conn[c]) \in FitConnection /\ Respond(conn[c]).reader = "reading"
        /\ Respond(conn[c]).finished = conn[c].finished
        /\ conn[c].done => Respond(conn[c]).done
    BY <1>1, <2>1, RespondDoes
  <2>3. UNCHANGED <<subs, conns, server, lastID, seq, notifying>>
    BY <1>2 DEF Handle
  <2>. QED
    BY <2>1, <2>2, <2>3, GoOnDoes
<1>3. CASE Subscribe(c)
  <2>. DEFINE k == Respond(conn[c])
              l == Send(k, HelloFrame)
  <2>1. /\ Moves(c) /\ conn'[c] = GoOn(l)
        /\ conn[c].todo # <<>> /\ conn[c].reader = "reading"
    BY <1>1, <1>3, SubscribeDoes
  <2>2. /\ k \in FitConnection /\ k.reader = "reading" /\ k.finished = conn[c].finished
        /\ conn[c].done => k.done
    BY <1>1, <2>1, RespondDoes
  <2>3. HelloFrame \in Frame
    BY <1>1, FrameTypes
  <2>. HIDE DEF k
  <2>4. /\ l \in FitConnection /\ l.reader = "reading" /\ l.finished = conn[c].finished
        /\ conn[c].done => l.done
    BY <2>2, <2>3, SendDoes DEF SameReader
  <2>5. UNCHANGED <<conns, server, lastID, seq, notifying>>
    BY <1>3 DEF Subscribe
  <2>6. subs' = IF conn'[c].done THEN subs ELSE subs \cup {c}
    BY <1>3 DEF Subscribe
  <2>. HIDE DEF l
  <2>. QED
    BY <2>1, <2>4, <2>5, <2>6, GoOnDoes
<1>. QED
  BY <1>2, <1>3 DEF Answers

LEMMA AnswersListed ==
    ASSUME TypeOK, ListInv, NEW c \in Conns, Answers(c), UNCHANGED plan
    PROVE  TypeOK' /\ ListInv'
<1>1. /\ Moves(c) /\ conn[c].todo # <<>> /\ conn[c].reader = "reading"
      /\ conn'[c].finished = conn[c].finished
      /\ conn'[c].reader = IF conn'[c].done THEN "left" ELSE "reading"
      /\ conn[c].done => conn'[c].done
      /\ subs' \subseteq subs \cup {c} /\ subs \subseteq subs'
      /\ c \in subs' => c \in subs \/ ~conn'[c].done
      /\ UNCHANGED <<conns, server, lastID, seq, notifying>>
  BY AnswersDo
<1>2. Listed(c)
  BY DEF ListInv
<1>3. Listed(c)'
  BY <1>1, <1>2 DEF Listed
<1>4. ASSUME NEW e \in Conns, e # c PROVE Listed(e)'
  <2>1. Listed(e) /\ conn'[e] = conn[e] /\ (e \in subs' <=> e \in subs)
    BY <1>1, <1>4 DEF ListInv, Moves
  <2>. QED
    BY <1>1, <2>1 DEF Listed
<1>5. ListInv'
  BY <1>1, <1>3, <1>4 DEF ListInv
<1>6. c \in subs' => c \in conns
  BY <1>1, <1>2 DEF Listed, TypeOK
<1>7. subs' \subseteq conns' /\ conns' \subseteq Conns
  BY <1>1, <1>6 DEF TypeOK
<1>8. /\ server' \in {"open", "done", "closed"}
      /\ lastID' \in 0..MaxEvents /\ seq' \in 0..MaxUpdates /\ notifying' \in 0..seq'
  BY <1>1 DEF TypeOK
<1>9. TypeOK'
  BY <1>1, <1>7, <1>8, TypesFrom DEF Moves
<1>. QED
  BY <1>5, <1>9

\* What a push does to a connection.
LEMMA PushesDo ==
    ASSUME TypeOK, NEW x \in Frame, Push(x)
    PROVE  /\ ConnsOK' /\ subs' = {e \in subs : ~conn'[e].done}
           /\ \A e \in Conns : e \notin subs => conn'[e] = conn[e]
           /\ \A e \in Conns :
                 /\ SameReader(conn[e], conn'[e]) /\ conn'[e].got = conn[e].got
                 /\ conn[e].done => conn'[e].done
                 /\ e \in subs' => e \in subs /\ Stream(conn'[e]) = Append(Stream(conn[e]), x)
                 /\ e \notin subs' => Stream(conn'[e]) = Stream(conn[e])
                 /\ e \in subs /\ e \notin subs' => conn'[e].done
<1>1. ConnsOK /\ subs \subseteq Conns
  BY ConnsFit DEF TypeOK
<1>2. /\ ConnsOK'
      /\ \A e \in Conns : conn'[e] = IF e \in subs THEN Send(conn[e], x) ELSE conn[e]
      /\ subs' = {e \in subs : ~conn'[e].done}
  BY <1>1, PushDoes
<1>3. ASSUME NEW e \in Conns
      PROVE  /\ SameReader(conn[e], conn'[e]) /\ conn'[e].got = conn[e].got
             /\ conn[e].done => conn'[e].done
             /\ e \in subs' => e \in subs /\ Stream(conn'[e]) = Append(Stream(conn[e]), x)
             /\ e \notin subs' => Stream(conn'[e]) = Stream(conn[e])
             /\ e \in subs /\ e \notin subs' => conn'[e].done
  <2>1. conn[e] \in FitConnection
    BY <1>1 DEF ConnsOK
  <2>2. CASE e \notin subs
    BY <1>2, <2>2 DEF SameReader
  <2>3. CASE e \in subs
    BY <1>2, <2>1, <2>3, SendDoes
  <2>. QED
    BY <2>2, <2>3
<1>. QED
  BY <1>2, <1>3

LEMMA PushesListed ==
    ASSUME TypeOK, ListInv, NEW x \in Frame, Push(x), UNCHANGED <<conns, server, plan>>
    PROVE  /\ ConnsOK' /\ subs' \subseteq conns'
           /\ \A e \in Conns : Listed(e)'
<1>1. /\ ConnsOK' /\ subs' = {e \in subs : ~conn'[e].done}
      /\ \A e \in Conns : e \notin subs => conn'[e] = conn[e]
      /\ \A e \in Conns : SameReader(conn[e], conn'[e]) /\ (conn[e].done => conn'[e].done)
  BY PushesDo
<1>2. ASSUME NEW e \in Conns PROVE Listed(e)'
  <2>1. Listed(e) /\ SameReader(conn[e], conn'[e]) /\ (conn[e].done => conn'[e].done)
    BY <1>1 DEF ListInv
  <2>2. e \in subs' => e \in subs
    BY <1>1
  <2>3. CASE e \in subs
    BY <2>1, <2>2, <2>3 DEF Listed, SameReader
  <2>4. CASE e \notin subs
    BY <1>1, <2>1, <2>2, <2>4 DEF Listed
  <2>. QED
    BY <2>3, <2>4
<1>. QED
  BY <1>1, <1>2 DEF TypeOK

LEMMA RestListed ==
    ASSUME TypeOK, ListInv, UNCHANGED plan,
           Emit \/ Update \/ BroadcastState \/ CloseDone \/ CloseConns
    PROVE  TypeOK' /\ ListInv'
<1>1. ConnsOK /\ lastID \in Nat /\ seq \in Nat /\ notifying \in Nat /\ subs \subseteq conns
  BY ConnsFit DEF TypeOK
<1>2. MaxEvents \in Nat /\ MaxUpdates \in Nat /\ plan \in Plans /\ notifying \in {0, seq}
  BY PlanTypes DEF ListInv
<1>3. CASE Emit
  <2>1. /\ EventFrame(lastID + 1) \in Frame /\ Push(EventFrame(lastID + 1))
        /\ UNCHANGED <<conns, server, seq, notifying>> /\ lastID' = lastID + 1
        /\ lastID < MaxEvents
    BY <1>1, <1>3, FrameTypes DEF Emit
  <2>2. ConnsOK' /\ subs' \subseteq conns' /\ \A e \in Conns : Listed(e)'
    BY <2>1, PushesListed
  <2>3. /\ conns' \subseteq Conns /\ server' \in {"open", "done", "closed"}
        /\ lastID' \in 0..MaxEvents /\ seq' \in 0..MaxUpdates /\ notifying' \in 0..seq'
    BY <1>1, <1>2, <2>1 DEF TypeOK
  <2>. QED
    BY <1>2, <2>1, <2>2, <2>3, TypesFrom DEF ListInv
<1>4. CASE BroadcastState
  <2>1. /\ StateFrame(notifying) \in Frame /\ Push(StateFrame(notifying))
        /\ UNCHANGED <<conns, server, lastID, seq>> /\ notifying' = 0
    BY <1>1, <1>4, FrameTypes DEF BroadcastState
  <2>2. ConnsOK' /\ subs' \subseteq conns' /\ \A e \in Conns : Listed(e)'
    BY <2>1, PushesListed
  <2>3. /\ conns' \subseteq Conns /\ server' \in {"open", "done", "closed"}
        /\ lastID' \in 0..MaxEvents /\ seq' \in 0..MaxUpdates /\ notifying' \in 0..seq'
    BY <1>1, <1>2, <2>1 DEF TypeOK
  <2>. QED
    BY <1>2, <2>1, <2>2, <2>3, TypesFrom DEF ListInv
<1>5. CASE Update
  <2>1. /\ UNCHANGED <<conn, conns, subs, server, lastID>> /\ seq < MaxUpdates
        /\ seq' = seq + 1 /\ notifying' = seq + 1
    BY <1>5 DEF Update
  <2>2. ConnsOK' /\ \A e \in Conns : Listed(e)'
    BY <1>1, <2>1 DEF ConnsOK, ListInv, Listed
  <2>3. /\ subs' \subseteq conns' /\ conns' \subseteq Conns
        /\ server' \in {"open", "done", "closed"}
        /\ lastID' \in 0..MaxEvents /\ seq' \in 0..MaxUpdates /\ notifying' \in 0..seq'
    BY <1>1, <1>2, <2>1 DEF TypeOK
  <2>. QED
    BY <1>2, <2>1, <2>2, <2>3, TypesFrom DEF ListInv
<1>6. CASE CloseDone
  <2>1. UNCHANGED <<conn, conns, subs, lastID, seq, notifying>> /\ server = "open" /\ server' = "done"
    BY <1>6 DEF CloseDone
  <2>2. ConnsOK' /\ \A e \in Conns : Listed(e)'
    BY <1>1, <2>1 DEF ConnsOK, ListInv, Listed
  <2>3. /\ subs' \subseteq conns' /\ conns' \subseteq Conns
        /\ server' \in {"open", "done", "closed"}
        /\ lastID' \in 0..MaxEvents /\ seq' \in 0..MaxUpdates /\ notifying' \in 0..seq'
    BY <1>1, <1>2, <2>1 DEF TypeOK
  <2>. QED
    BY <1>2, <2>1, <2>2, <2>3, TypesFrom DEF ListInv
<1>7. CASE CloseConns
  <2>1. UNCHANGED <<lastID, seq, notifying>> /\ server = "done" /\ server' = "closed"
        /\ conns' = {} /\ subs' = {}
    BY <1>7 DEF CloseConns
  <2>2. ConnsOK' /\ \A e \in Conns : /\ SameReader(conn[e], conn'[e]) /\ Flags(conn[e], conn'[e])
                                     /\ conn'[e].done = (conn[e].done \/ e \in conns)
    BY <1>1, <1>7, CloseConnsDoes
  <2>3. ASSUME NEW e \in Conns PROVE Listed(e)'
    <3>1. Listed(e) /\ SameReader(conn[e], conn'[e]) /\ Flags(conn[e], conn'[e])
      BY <2>2 DEF ListInv
    <3>2. conn[e].done \/ e \in conns => conn'[e].done
      BY <2>2
    <3>. QED
      BY <2>1, <3>1, <3>2 DEF Listed, SameReader, Flags
  <2>4. /\ subs' \subseteq conns' /\ conns' \subseteq Conns
        /\ server' \in {"open", "done", "closed"}
        /\ lastID' \in 0..MaxEvents /\ seq' \in 0..MaxUpdates /\ notifying' \in 0..seq'
    BY <1>1, <1>2, <2>1 DEF TypeOK
  <2>. QED
    BY <1>2, <2>1, <2>2, <2>3, <2>4, TypesFrom DEF ListInv
<1>. QED
  BY <1>3, <1>4, <1>5, <1>6, <1>7

-----------------------------------------------------------------------------
(* What a connection has been sent. *)

\* Numbered responses, states that rise up to s, news without a gap up to n.
Well(f, s, n) ==
    Numbered(f) /\ Rising(f) /\ StatesUpTo(f, s) /\ Gapless(f) /\ NewsUpTo(f, n)

HasState(f, s) == \E i : LastState(f, i) /\ f[i].seq = s
HasNews(f, n) == \E i : LastNews(f, i) /\ f[i].n = n

LEMMA ResponseFits ==
    ASSUME NEW f \in Seq(Frame), NEW x \in Frame, NEW s \in Nat, NEW n \in Nat, Well(f, s, n),
           x.kind = "response", x.n = Cardinality(Responses(f)) + 1
    PROVE  /\ Well(Append(f, x), s, n)
           /\ Cardinality(Responses(Append(f, x))) = x.n
           /\ Places(Append(f, x), News) = Places(f, News)
           /\ \A m : HasState(f, m) => HasState(Append(f, x), m)
           /\ \A m : HasNews(f, m) => HasNews(Append(f, x), m)
           /\ (\E i : LastState(f, i)) => \E i : LastState(Append(f, x), i)
<1>. DEFINE g == Append(f, x)
<1>1. x.kind \notin News /\ x.kind \notin StateKinds
  BY DEF News, StateKinds
<1>2. Numbered(g) /\ Cardinality(Responses(g)) = x.n
  BY NumberedAppend DEF Well
<1>3. /\ Rising(g) /\ StatesUpTo(g, s)
      /\ \A i : LastState(f, i) => LastState(g, i) /\ g[i].seq = f[i].seq
  BY <1>1, RisingAppend DEF Well
<1>4. /\ Gapless(g) /\ NewsUpTo(g, n)
      /\ \A i : LastNews(f, i) => LastNews(g, i) /\ g[i].n = f[i].n
  BY <1>1, GaplessAppend DEF Well
<1>5. Places(g, News) = Places(f, News)
  BY <1>1, PlacesAppend
<1>. HIDE DEF g
<1>6. Well(g, s, n)
  BY <1>2, <1>3, <1>4 DEF Well
<1>7. /\ \A m : HasState(f, m) => HasState(g, m)
      /\ \A m : HasNews(f, m) => HasNews(g, m)
  BY <1>3, <1>4 DEF HasState, HasNews
<1>. QED
  BY <1>2, <1>3, <1>5, <1>6, <1>7 DEF g

LEMMA StateFits ==
    ASSUME NEW f \in Seq(Frame), NEW x \in Frame, NEW s \in Nat, NEW n \in Nat, Well(f, s, n),
           x.kind = "state", x.seq = s
    PROVE  /\ Well(Append(f, x), s, n) /\ Responses(Append(f, x)) = Responses(f)
           /\ HasState(Append(f, x), s)
           /\ \A m : HasNews(f, m) => HasNews(Append(f, x), m)
<1>. DEFINE g == Append(f, x)
<1>1. x.kind \notin News /\ x.kind \in StateKinds /\ x.kind # "response"
  BY DEF News, StateKinds
<1>2. Numbered(g) /\ Responses(g) = Responses(f)
  BY <1>1, NumberedAppend DEF Well
<1>3. Rising(g) /\ StatesUpTo(g, s) /\ LastState(g, Len(f) + 1) /\ g[Len(f) + 1].seq = s
  BY <1>1, RisingAppend DEF Well
<1>4. /\ Gapless(g) /\ NewsUpTo(g, n)
      /\ \A i : LastNews(f, i) => LastNews(g, i) /\ g[i].n = f[i].n
  BY <1>1, GaplessAppend DEF Well
<1>. HIDE DEF g
<1>6. Well(g, s, n)
  BY <1>2, <1>3, <1>4 DEF Well
<1>7. HasState(g, s) /\ \A m : HasNews(f, m) => HasNews(g, m)
  BY <1>3, <1>4 DEF HasState, HasNews
<1>. QED
  BY <1>2, <1>6, <1>7 DEF g

LEMMA EventFits ==
    ASSUME NEW f \in Seq(Frame), NEW x \in Frame, NEW s \in Nat, NEW n \in Nat, Well(f, s, n),
           x.kind = "event", x.n = n + 1, HasNews(f, n)
    PROVE  /\ Well(Append(f, x), s, n + 1) /\ Responses(Append(f, x)) = Responses(f)
           /\ HasNews(Append(f, x), n + 1)
           /\ \A m : HasState(f, m) => HasState(Append(f, x), m)
           /\ (\E i : LastState(f, i)) => \E i : LastState(Append(f, x), i)
<1>. DEFINE g == Append(f, x)
<1>1. x.kind \in News /\ x.kind \notin StateKinds /\ x.kind # "response"
  BY DEF News, StateKinds
<1>2. Numbered(g) /\ Responses(g) = Responses(f)
  BY <1>1, NumberedAppend DEF Well
<1>3. /\ Rising(g) /\ StatesUpTo(g, s)
      /\ \A i : LastState(f, i) => LastState(g, i) /\ g[i].seq = f[i].seq
  BY <1>1, RisingAppend DEF Well
<1>4. n + 1 \in Nat /\ n + 1 \in {n, n + 1} /\ \E i : LastNews(f, i) /\ f[i].n = n
  BY DEF HasNews
<1>5. Gapless(g) /\ NewsUpTo(g, n + 1) /\ LastNews(g, Len(f) + 1) /\ g[Len(f) + 1].n = n + 1
  BY <1>1, <1>4, GaplessAppend DEF Well
<1>. HIDE DEF g
<1>6. Well(g, s, n + 1)
  BY <1>2, <1>3, <1>5 DEF Well
<1>7. HasNews(g, n + 1) /\ \A m : HasState(f, m) => HasState(g, m)
  BY <1>3, <1>5 DEF HasState, HasNews
<1>. QED
  BY <1>2, <1>3, <1>6, <1>7 DEF g

LEMMA HelloFits ==
    ASSUME NEW f \in Seq(Frame), NEW x \in Frame, NEW s \in Nat, NEW n \in Nat, Well(f, s, n),
           x.kind = "hello", x.seq = s, x.n = n, Places(f, News) # {} => HasNews(f, n)
    PROVE  /\ Well(Append(f, x), s, n) /\ Responses(Append(f, x)) = Responses(f)
           /\ HasState(Append(f, x), s) /\ HasNews(Append(f, x), n)
<1>. DEFINE g == Append(f, x)
<1>1. x.kind \in News /\ x.kind \in StateKinds /\ x.kind # "response"
  BY DEF News, StateKinds
<1>2. Numbered(g) /\ Responses(g) = Responses(f)
  BY <1>1, NumberedAppend DEF Well
<1>3. Rising(g) /\ StatesUpTo(g, s) /\ LastState(g, Len(f) + 1) /\ g[Len(f) + 1].seq = s
  BY <1>1, RisingAppend DEF Well
<1>4. n \in {n, n + 1} /\ (Places(f, News) # {} => \E i : LastNews(f, i) /\ f[i].n = n)
  BY DEF HasNews
<1>5. Gapless(g) /\ NewsUpTo(g, n) /\ LastNews(g, Len(f) + 1) /\ g[Len(f) + 1].n = n
  BY <1>1, <1>4, GaplessAppend DEF Well
<1>. HIDE DEF g
<1>6. Well(g, s, n)
  BY <1>2, <1>3, <1>5 DEF Well
<1>7. HasState(g, s) /\ HasNews(g, n)
  BY <1>3, <1>5 DEF HasState, HasNews
<1>. QED
  BY <1>2, <1>6, <1>7 DEF g

LEMMA WellLater ==
    ASSUME NEW f \in Seq(Frame), NEW s \in Nat, NEW n \in Nat, Well(f, s, n),
           NEW t \in Nat, NEW m \in Nat, s <= t, n <= m
    PROVE  Well(f, t, m)
<1>1. \A K : \A i \in Places(f, K) : f[i] \in Frame
  BY DEF Places
<1>2. \A x \in Frame : x.seq \in Nat /\ x.n \in Nat
  BY DEF Frame
<1>. HIDE DEF Frame
<1>3. StatesUpTo(f, t) /\ NewsUpTo(f, m)
  BY <1>1, <1>2 DEF Well, StatesUpTo, NewsUpTo
<1>. QED
  BY <1>3 DEF Well

\* A connection was sent what is well, and is closed when an answer could not be
\* sent.  A subscriber has the newest event, and the newest state unless that is
\* still to be broadcast; whoever has news and is still read from is a subscriber.
SentInv(c) ==
    /\ Well(Stream(conn[c]), seq, lastID)
    /\ ~conn[c].done => Cardinality(Responses(Stream(conn[c]))) = conn[c].asked
    /\ c \in subs => /\ HasNews(Stream(conn[c]), lastID)
                     /\ \E i : LastState(Stream(conn[c]), i)
    /\ c \in subs /\ notifying = 0 => HasState(Stream(conn[c]), seq)
    /\ Places(Stream(conn[c]), News) # {} /\ ~conn[c].done /\ conn[c].reader = "reading"
          => c \in subs

FrameInv == \A c \in Conns : SentInv(c)

LEMMA FrameInit == Init => FrameInv
<1>. SUFFICES ASSUME Init, NEW c \in Conns PROVE SentInv(c)
  BY DEF FrameInv
<1>1. Stream(conn[c]) = <<>> /\ c \notin subs /\ conn[c].asked = 0
  BY DEF Init, NoConnection, Stream
<1>2. \A K : Places(<<>>, K) = {}
  BY DEF Places
<1>3. Cardinality({}) = 0
  BY FS_EmptySet
<1>4. Well(<<>>, seq, lastID)
  BY <1>2 DEF Well, Numbered, Responses, Rising, StatesUpTo, Gapless, NewsUpTo
<1>. QED
  BY <1>1, <1>2, <1>3, <1>4 DEF SentInv, Responses

\* A step that sends connection c nothing, whatever it does to others.
Quiet(c) ==
    /\ Stream(conn'[c]) = Stream(conn[c])
    /\ ~conn'[c].done => ~conn[c].done /\ conn'[c].asked = conn[c].asked
    /\ ~conn'[c].done /\ conn'[c].reader = "reading" /\ Places(Stream(conn[c]), News) # {}
          => conn[c].reader = "reading" /\ (c \in subs => c \in subs')
    /\ c \in subs' => c \in subs /\ lastID' = lastID
    /\ c \in subs' /\ notifying' = 0 => notifying = 0 /\ seq' = seq
    /\ lastID <= lastID' /\ seq <= seq'

LEMMA QuietKeeps ==
    ASSUME TypeOK, TypeOK', NEW c \in Conns, SentInv(c), Quiet(c)
    PROVE  SentInv(c)'
<1>1. /\ Stream(conn[c]) \in Seq(Frame) /\ lastID \in Nat /\ seq \in Nat
      /\ lastID' \in Nat /\ seq' \in Nat
  <2>1. ConnsOK /\ lastID \in Nat /\ seq \in Nat
    BY ConnsFit
  <2>2. lastID' \in Nat /\ seq' \in Nat
    BY DEF TypeOK
  <2>3. Stream(conn[c]) \in Seq(Frame)
    BY <2>1, Fields DEF ConnsOK
  <2>. QED
    BY <2>1, <2>2, <2>3
<1>. DEFINE f == Stream(conn[c])
<1>2. Well(f, seq', lastID')
  BY <1>1, WellLater DEF SentInv, Quiet
<1>3. f' = f
  BY DEF Quiet
<1>. HIDE DEF f
<1>4. ~conn'[c].done => Cardinality(Responses(f)) = conn'[c].asked
  BY DEF SentInv, Quiet, f
<1>5. c \in subs' => HasNews(f, lastID') /\ \E i : LastState(f, i)
  BY DEF SentInv, Quiet, f
<1>6. c \in subs' /\ notifying' = 0 => HasState(f, seq')
  BY DEF SentInv, Quiet, f
<1>7. Places(f, News) # {} /\ ~conn'[c].done /\ conn'[c].reader = "reading" => c \in subs'
  BY DEF SentInv, Quiet, f
<1>. QED
  BY <1>2, <1>3, <1>4, <1>5, <1>6, <1>7 DEF SentInv, f

\* Every step is quiet for a connection it does not touch.
LEMMA OthersQuiet ==
    ASSUME TypeOK, NEW c \in Conns, NEW e \in Conns, e # c, Moves(c),
           e \in subs' <=> e \in subs, UNCHANGED <<lastID, seq, notifying>>
    PROVE  Quiet(e)
<1>1. conn'[e] = conn[e]
  BY DEF Moves
<1>2. lastID \in Nat /\ seq \in Nat
  BY ConnsFit
<1>. QED
  BY <1>1, <1>2 DEF Quiet

LEMMA IdlesQuiet ==
    ASSUME TypeOK, ListInv, NEW c \in Conns, Idles(c), NEW e \in Conns
    PROVE  Quiet(e)
<1>1. ConnsOK /\ lastID \in Nat /\ seq \in Nat /\ Listed(c)
  BY ConnsFit DEF ListInv
<1>2. UNCHANGED <<lastID, seq, notifying>>
  BY DEF Idles, Accept, WriteLoop, WriteFails, WriteEnds, ReadFails, Unregister, Finish, HangUp,
         SendLine, Handle
<1>3. CASE e # c
  <2>1. e \in subs' <=> e \in subs
    BY <1>3 DEF Idles, Accept, WriteLoop, WriteFails, WriteEnds, ReadFails, Unregister, Finish,
         HangUp, SendLine, Handle
  <2>. QED
    BY <1>1, <1>2, <1>3, <2>1, IdlesMove, OthersQuiet
<1>4. ASSUME Stream(conn'[c]) = Stream(conn[c]), conn[c].done => conn'[c].done,
             conn'[c].asked = conn[c].asked, c \in subs' => c \in subs,
             \/ conn'[c].reader # "reading"
             \/ Places(Stream(conn[c]), News) = {}
             \/ conn[c].reader = "reading" /\ subs' = subs
      PROVE  Quiet(c)
  BY <1>1, <1>2, <1>4 DEF Quiet
<1>5. CASE WriteLoop(c)
  <2>1. subs' = subs
    BY <1>5 DEF WriteLoop
  <2>2. /\ Stream(conn'[c]) = Stream(conn[c]) /\ conn'[c].done = conn[c].done
        /\ conn'[c].asked = conn[c].asked /\ conn'[c].reader = conn[c].reader
    BY <1>1, <1>5, WriteLoopDoes DEF SameReader
  <2>. QED
    BY <1>3, <1>4, <2>1, <2>2
<1>6. CASE WriteFails(c) \/ WriteEnds(c)
  <2>1. subs' = subs
    BY <1>6 DEF WriteFails, WriteEnds
  <2>2. Flags(conn[c], conn'[c]) /\ conn'[c].done /\ conn'[c].reader = conn[c].reader
    BY <1>1, <1>6, GoroutinesDo DEF Turns
  <2>. QED
    BY <1>3, <1>4, <2>1, <2>2 DEF Flags, Stream
<1>7. CASE Accept(c)
  <2>1. subs' = subs /\ conn[c].reader = "none"
    BY <1>7 DEF Accept
  <2>2. Flags(conn[c], conn'[c]) /\ conn'[c].done = conn[c].done
    BY <1>1, <1>7, GoroutinesDo DEF Turns
  <2>3. Stream(conn[c]) = <<>>
    BY <1>1, <2>1 DEF Listed, Stream
  <2>4. Places(<<>>, News) = {}
    BY DEF Places
  <2>. QED
    BY <1>3, <1>4, <2>1, <2>2, <2>3, <2>4 DEF Flags, Stream
<1>8. CASE ReadFails(c) \/ Unregister(c) \/ Finish(c)
  <2>1. c \in subs' => c \in subs
    BY <1>8 DEF ReadFails, Unregister, Finish
  <2>2. Flags(conn[c], conn'[c]) /\ conn'[c].done = conn[c].done /\ conn'[c].reader # "reading"
    BY <1>1, <1>8, GoroutinesDo DEF Turns
  <2>. QED
    BY <1>3, <1>4, <2>1, <2>2 DEF Flags, Stream
<1>9. CASE \/ HangUp(c) \/ \E q \in Requests : SendLine(c, q)
           \/ Handle(c) /\ Head(conn[c].todo) = "blank"
  <2>1. subs' = subs
    BY <1>9 DEF HangUp, SendLine, Handle
  <2>2. /\ Flags(conn[c], conn'[c]) /\ conn'[c].done = conn[c].done
        /\ conn'[c].reader = conn[c].reader
    BY <1>1, <1>9, ClientDoes DEF SameReader
  <2>. QED
    BY <1>3, <1>4, <2>1, <2>2 DEF Flags, Stream
<1>. QED
  BY <1>5, <1>6, <1>7, <1>8, <1>9 DEF Idles

LEMMA HandleSent ==
    ASSUME TypeOK, TypeOK', NEW c \in Conns, SentInv(c), Handle(c), Head(conn[c].todo) # "blank"
    PROVE  SentInv(c)'
<1>1. ConnsOK /\ lastID \in Nat /\ seq \in Nat /\ conn[c] \in FitConnection
  BY ConnsFit DEF ConnsOK
<1>2. UNCHANGED <<subs, lastID, seq, notifying>>
  BY DEF Handle
<1>. DEFINE k == conn[c]
            l == Respond(k)
            x == ResponseFrame(k.asked + 1)
<1>3. conn'[c] = GoOn(l) /\ k.todo # <<>> /\ k.reader = "reading"
  BY <1>1, HandleDoes
<1>4. Stream(k) \in Seq(Frame) /\ k.asked \in Nat /\ k.done \in BOOLEAN
  BY <1>1, Fields
<1>5. /\ l \in FitConnection /\ l.asked = k.asked + 1 /\ l.reader = "reading"
      /\ k.done => l.done
      /\ ~l.done => Stream(l) = Append(Stream(k), x)
      /\ l.done => Stream(l) = Stream(k)
  BY <1>1, <1>3, RespondDoes
<1>6. x \in Frame /\ x.kind = "response" /\ x.n = k.asked + 1
  BY <1>4, FrameTypes
<1>. HIDE DEF l, x
<1>7. /\ Stream(conn'[c]) = Stream(l) /\ conn'[c].done = l.done /\ conn'[c].asked = l.asked
  BY <1>3, <1>5, GoOnDoes
<1>8. CASE l.done
  <2>1. Quiet(c)
    BY <1>1, <1>2, <1>5, <1>7, <1>8 DEF Quiet
  <2>. QED
    BY <2>1, QuietKeeps
<1>9. CASE ~l.done
  <2>. DEFINE f == Stream(k)
              g == Append(f, x)
  <2>1. Stream(conn'[c]) = g
    BY <1>5, <1>7, <1>9
  <2>2. /\ Well(f, seq, lastID) /\ Cardinality(Responses(f)) = k.asked
        /\ c \in subs => HasNews(f, lastID) /\ \E i : LastState(f, i)
        /\ c \in subs /\ notifying = 0 => HasState(f, seq)
        /\ Places(f, News) # {} => c \in subs
    BY <1>3, <1>5, <1>9 DEF SentInv
  <2>. HIDE DEF f
  <2>3. /\ Well(g, seq, lastID) /\ Cardinality(Responses(g)) = x.n
        /\ Places(g, News) = Places(f, News)
        /\ \A m : HasState(f, m) => HasState(g, m)
        /\ \A m : HasNews(f, m) => HasNews(g, m)
        /\ (\E i : LastState(f, i)) => \E i : LastState(g, i)
    BY <1>1, <1>4, <1>6, <2>2, ResponseFits DEF f
  <2>. HIDE DEF g
  <2>. QED
    BY <1>2, <1>5, <1>6, <1>7, <2>1, <2>2, <2>3 DEF SentInv
<1>. QED
  BY <1>8, <1>9

LEMMA SubscribeSent ==
    ASSUME TypeOK, TypeOK', NEW c \in Conns, SentInv(c), Subscribe(c)
    PROVE  SentInv(c)'
<1>1. ConnsOK /\ lastID \in Nat /\ seq \in Nat /\ conn[c] \in FitConnection
  BY ConnsFit DEF ConnsOK
<1>2. UNCHANGED <<lastID, seq, notifying>> /\ subs' = IF conn'[c].done THEN subs ELSE subs \cup {c}
  BY DEF Subscribe
<1>. DEFINE k == conn[c]
            l == Respond(k)
            x == ResponseFrame(k.asked + 1)
            h == Send(l, HelloFrame)
<1>3. conn'[c] = GoOn(h) /\ k.todo # <<>> /\ k.reader = "reading"
  BY <1>1, SubscribeDoes
<1>4. Stream(k) \in Seq(Frame) /\ k.asked \in Nat /\ k.done \in BOOLEAN
  BY <1>1, Fields
<1>5. /\ l \in FitConnection /\ l.asked = k.asked + 1 /\ l.reader = "reading"
      /\ k.done => l.done
      /\ ~l.done => Stream(l) = Append(Stream(k), x)
      /\ l.done => Stream(l) = Stream(k)
  BY <1>1, <1>3, RespondDoes
<1>6. x \in Frame /\ x.kind = "response" /\ x.n = k.asked + 1
  BY <1>4, FrameTypes
<1>7. /\ HelloFrame \in Frame /\ HelloFrame.kind = "hello"
      /\ HelloFrame.n = lastID /\ HelloFrame.seq = seq
  BY <1>1, FrameTypes
<1>. HIDE DEF l, x
<1>8. /\ h \in FitConnection /\ h.asked = l.asked
      /\ l.done => h = l
      /\ ~h.done => Stream(h) = Append(Stream(l), HelloFrame)
      /\ h.done => Stream(h) = Stream(l)
  BY <1>5, <1>7, SendDoes DEF SameReader
<1>. HIDE DEF h
<1>9. /\ Stream(conn'[c]) = Stream(h) /\ conn'[c].done = h.done /\ conn'[c].asked = l.asked
  BY <1>3, <1>8, GoOnDoes
<1>10. CASE l.done
  <2>1. Quiet(c)
    BY <1>1, <1>2, <1>5, <1>8, <1>9, <1>10 DEF Quiet
  <2>. QED
    BY <2>1, QuietKeeps
<1>11. CASE ~l.done
  <2>. DEFINE f == Stream(k)
              g == Append(f, x)
  <2>1. Stream(l) = g
    BY <1>5, <1>11
  <2>2. /\ Well(f, seq, lastID) /\ Cardinality(Responses(f)) = k.asked
        /\ c \in subs => HasNews(f, lastID) /\ \E i : LastState(f, i)
        /\ c \in subs /\ notifying = 0 => HasState(f, seq)
        /\ Places(f, News) # {} => c \in subs
    BY <1>3, <1>5, <1>11 DEF SentInv
  <2>. HIDE DEF f
  <2>3. /\ Well(g, seq, lastID) /\ Cardinality(Responses(g)) = x.n
        /\ Places(g, News) = Places(f, News)
        /\ \A m : HasState(f, m) => HasState(g, m)
        /\ \A m : HasNews(f, m) => HasNews(g, m)
        /\ (\E i : LastState(f, i)) => \E i : LastState(g, i)
    BY <1>1, <1>4, <1>6, <2>2, ResponseFits DEF f
  <2>4. g \in Seq(Frame)
    BY <1>5, <2>1, Fields
  <2>. HIDE DEF g
  <2>5. CASE h.done
    BY <1>2, <1>8, <1>9, <2>1, <2>2, <2>3, <2>5 DEF SentInv
  <2>6. CASE ~h.done
    <3>. DEFINE z == Append(g, HelloFrame)
    <3>1. Stream(conn'[c]) = z
      BY <1>8, <1>9, <2>1, <2>6
    <3>2. /\ Well(z, seq, lastID) /\ Responses(z) = Responses(g)
          /\ HasState(z, seq) /\ HasNews(z, lastID)
      BY <1>1, <1>7, <2>2, <2>3, <2>4, HelloFits
    <3>. HIDE DEF z
    <3>3. \E i : LastState(z, i)
      BY <3>2 DEF HasState
    <3>. QED
      BY <1>2, <1>5, <1>6, <1>9, <2>3, <2>6, <3>1, <3>2, <3>3 DEF SentInv
  <2>. QED
    BY <2>5, <2>6
<1>. QED
  BY <1>10, <1>11

LEMMA AnswersSent ==
    ASSUME TypeOK, TypeOK', FrameInv, NEW c \in Conns, Answers(c)
    PROVE  FrameInv'
<1>1. SentInv(c)'
  BY HandleSent, SubscribeSent DEF Answers, FrameInv
<1>2. ASSUME NEW e \in Conns, e # c PROVE SentInv(e)'
  <2>1. /\ Moves(c) /\ subs' \subseteq subs \cup {c} /\ subs \subseteq subs'
        /\ UNCHANGED <<lastID, seq, notifying>>
    BY AnswersDo
  <2>2. Quiet(e)
    BY <1>2, <2>1, OthersQuiet
  <2>. QED
    BY <2>2, QuietKeeps DEF FrameInv
<1>. QED
  BY <1>1, <1>2 DEF FrameInv

LEMMA EmitSent ==
    ASSUME TypeOK, TypeOK', ListInv, FrameInv, Emit, NEW e \in Conns
    PROVE  SentInv(e)'
<1>1. ConnsOK /\ lastID \in Nat /\ seq \in Nat /\ SentInv(e)
  BY ConnsFit DEF FrameInv
<1>. DEFINE x == EventFrame(lastID + 1)
<1>2. /\ x \in Frame /\ x.kind = "event" /\ x.n = lastID + 1 /\ Push(x)
      /\ UNCHANGED <<conns, server, seq, notifying>> /\ lastID' = lastID + 1
  BY <1>1, FrameTypes DEF Emit
<1>. HIDE DEF x
<1>3. /\ subs' = {d \in subs : ~conn'[d].done}
      /\ SameReader(conn[e], conn'[e])
      /\ conn[e].done => conn'[e].done
      /\ e \in subs' => e \in subs /\ Stream(conn'[e]) = Append(Stream(conn[e]), x)
      /\ e \notin subs' => Stream(conn'[e]) = Stream(conn[e])
      /\ e \in subs /\ e \notin subs' => conn'[e].done
  BY <1>2, PushesDo
<1>4. CASE e \notin subs'
  <2>1. Quiet(e)
    BY <1>1, <1>2, <1>3, <1>4 DEF Quiet, SameReader
  <2>. QED
    BY <1>1, <2>1, QuietKeeps
<1>5. CASE e \in subs'
  <2>. DEFINE f == Stream(conn[e])
              g == Append(f, x)
  <2>1. f \in Seq(Frame)
    BY <1>1, Fields DEF ConnsOK
  <2>2. /\ Well(f, seq, lastID) /\ HasNews(f, lastID) /\ \E i : LastState(f, i)
        /\ ~conn[e].done => Cardinality(Responses(f)) = conn[e].asked
        /\ notifying = 0 => HasState(f, seq)
    BY <1>1, <1>3, <1>5 DEF SentInv
  <2>. HIDE DEF f
  <2>3. /\ Well(g, seq, lastID + 1) /\ Responses(g) = Responses(f)
        /\ HasNews(g, lastID + 1)
        /\ \A m : HasState(f, m) => HasState(g, m)
        /\ (\E i : LastState(f, i)) => \E i : LastState(g, i)
    BY <1>1, <1>2, <2>1, <2>2, EventFits
  <2>4. Stream(conn'[e]) = g /\ conn'[e].asked = conn[e].asked
    BY <1>3, <1>5 DEF f, SameReader
  <2>. HIDE DEF g
  <2>. QED
    BY <1>2, <1>3, <1>5, <2>2, <2>3, <2>4 DEF SentInv
<1>. QED
  BY <1>4, <1>5

LEMMA BroadcastSent ==
    ASSUME TypeOK, TypeOK', ListInv, FrameInv, BroadcastState, NEW e \in Conns
    PROVE  SentInv(e)'
<1>1. ConnsOK /\ lastID \in Nat /\ seq \in Nat /\ SentInv(e)
  BY ConnsFit DEF FrameInv
<1>. DEFINE x == StateFrame(seq)
<1>2. /\ x \in Frame /\ x.kind = "state" /\ x.seq = seq /\ Push(x)
      /\ UNCHANGED <<conns, server, seq, lastID>> /\ notifying' = 0
  BY <1>1, FrameTypes DEF BroadcastState, ListInv
<1>. HIDE DEF x
<1>3. /\ subs' = {d \in subs : ~conn'[d].done}
      /\ SameReader(conn[e], conn'[e])
      /\ conn[e].done => conn'[e].done
      /\ e \in subs' => e \in subs /\ Stream(conn'[e]) = Append(Stream(conn[e]), x)
      /\ e \notin subs' => Stream(conn'[e]) = Stream(conn[e])
      /\ e \in subs /\ e \notin subs' => conn'[e].done
  BY <1>2, PushesDo
<1>4. CASE e \notin subs'
  <2>1. Quiet(e)
    BY <1>1, <1>2, <1>3, <1>4 DEF Quiet, SameReader
  <2>. QED
    BY <1>1, <2>1, QuietKeeps
<1>5. CASE e \in subs'
  <2>. DEFINE f == Stream(conn[e])
              g == Append(f, x)
  <2>1. f \in Seq(Frame)
    BY <1>1, Fields DEF ConnsOK
  <2>2. /\ Well(f, seq, lastID) /\ HasNews(f, lastID)
        /\ ~conn[e].done => Cardinality(Responses(f)) = conn[e].asked
    BY <1>1, <1>3, <1>5 DEF SentInv
  <2>. HIDE DEF f
  <2>3. /\ Well(g, seq, lastID) /\ Responses(g) = Responses(f)
        /\ HasState(g, seq) /\ \A m : HasNews(f, m) => HasNews(g, m)
    BY <1>1, <1>2, <2>1, <2>2, StateFits
  <2>4. Stream(conn'[e]) = g /\ conn'[e].asked = conn[e].asked
    BY <1>3, <1>5 DEF f, SameReader
  <2>. HIDE DEF g
  <2>5. \E i : LastState(g, i)
    BY <2>3 DEF HasState
  <2>. QED
    BY <1>2, <1>3, <1>5, <2>2, <2>3, <2>4, <2>5 DEF SentInv
<1>. QED
  BY <1>4, <1>5

LEMMA RestQuiet ==
    ASSUME TypeOK, ListInv, Update \/ CloseDone \/ CloseConns, NEW e \in Conns
    PROVE  Quiet(e)
<1>1. ConnsOK /\ lastID \in Nat /\ seq \in Nat /\ subs \subseteq conns
  BY ConnsFit DEF TypeOK
<1>2. CASE Update
  BY <1>1, <1>2 DEF Update, Quiet
<1>3. CASE CloseDone
  BY <1>1, <1>3 DEF CloseDone, Quiet
<1>4. CASE CloseConns
  <2>1. UNCHANGED <<lastID, seq, notifying>> /\ subs' = {}
    BY <1>4 DEF CloseConns
  <2>2. /\ SameReader(conn[e], conn'[e]) /\ Flags(conn[e], conn'[e])
        /\ conn'[e].done = (conn[e].done \/ e \in conns)
    BY <1>1, <1>4, CloseConnsDoes
  <2>3. /\ Stream(conn'[e]) = Stream(conn[e]) /\ conn'[e].asked = conn[e].asked
        /\ conn'[e].reader = conn[e].reader
    BY <2>2 DEF SameReader, Flags, Stream
  <2>4. ~conn'[e].done => ~conn[e].done /\ e \notin conns
    BY <2>2
  <2>. QED
    BY <1>1, <2>1, <2>3, <2>4 DEF Quiet
<1>. QED
  BY <1>2, <1>3, <1>4

-----------------------------------------------------------------------------
(* The server. *)

SocketInv == TypeOK /\ ListInv /\ FrameInv

LEMMA Steps ==
    ASSUME plan \in Plans, Next
    PROVE  \/ \E c \in Conns : Idles(c) \/ Answers(c)
           \/ Emit \/ Update \/ BroadcastState \/ CloseDone \/ CloseConns
<1>1. plan.conns \subseteq Conns /\ plan.requests \subseteq Requests
  BY PlanTypes
<1>2. ASSUME NEW c \in plan.conns,
             \/ Accept(c) \/ Reader(c) \/ Writer(c) \/ HangUp(c)
             \/ \E request \in plan.requests : SendLine(c, request)
      PROVE  Idles(c) \/ Answers(c)
  <2>. HIDE DEF Requests
  <2>. QED
    BY <1>1, <1>2 DEF Reader, Writer, Idles, Answers
<1>. QED
  BY <1>1, <1>2 DEF Next

LEMMA SocketNext == SocketInv /\ [Next /\ UNCHANGED plan]_<<serverVars, plan>> => SocketInv'
<1>1. ASSUME SocketInv, Next, UNCHANGED plan PROVE SocketInv'
  <2>1. TypeOK /\ ListInv /\ FrameInv /\ plan \in Plans
    BY <1>1 DEF SocketInv, ListInv
  <2>2. ASSUME NEW c \in Conns, Idles(c) PROVE SocketInv'
    <3>1. TypeOK' /\ ListInv'
      BY <1>1, <2>1, <2>2, IdlesTypes, IdlesListed
    <3>2. ASSUME NEW e \in Conns PROVE SentInv(e)'
      BY <2>1, <2>2, <3>1, IdlesQuiet, QuietKeeps DEF FrameInv
    <3>. QED
      BY <3>1, <3>2 DEF SocketInv, FrameInv
  <2>3. ASSUME NEW c \in Conns, Answers(c) PROVE SocketInv'
    <3>1. TypeOK' /\ ListInv'
      BY <1>1, <2>1, <2>3, AnswersListed
    <3>. QED
      BY <2>1, <2>3, <3>1, AnswersSent DEF SocketInv
  <2>4. ASSUME Emit \/ Update \/ BroadcastState \/ CloseDone \/ CloseConns PROVE SocketInv'
    <3>1. TypeOK' /\ ListInv'
      BY <1>1, <2>1, <2>4, RestListed
    <3>2. ASSUME NEW e \in Conns PROVE SentInv(e)'
      <4>1. CASE Emit
        BY <2>1, <3>1, <4>1, EmitSent
      <4>2. CASE BroadcastState
        BY <2>1, <3>1, <4>2, BroadcastSent
      <4>3. CASE Update \/ CloseDone \/ CloseConns
        <5>1. Quiet(e)
          BY <2>1, <4>3, RestQuiet
        <5>. QED
          BY <2>1, <3>1, <5>1, QuietKeeps DEF FrameInv
      <4>. QED
        BY <2>4, <4>1, <4>2, <4>3
    <3>. QED
      BY <3>1, <3>2 DEF SocketInv, FrameInv
  <2>. QED
    BY <1>1, <2>1, <2>2, <2>3, <2>4, Steps
<1>2. ASSUME SocketInv, UNCHANGED <<serverVars, plan>> PROVE SocketInv'
  <2>1. UNCHANGED <<conn, conns, subs, server, lastID, seq, notifying, plan>>
    BY <1>2 DEF serverVars
  <2>2. TypeOK'
    BY <1>2, <2>1 DEF SocketInv, TypeOK, MaxEvents, MaxUpdates
  <2>3. ListInv'
    BY <1>2, <2>1 DEF SocketInv, ListInv, Listed
  <2>4. FrameInv'
    BY <1>2, <2>1 DEF SocketInv, FrameInv, SentInv
  <2>. QED
    BY <2>2, <2>3, <2>4 DEF SocketInv
<1>. QED
  BY <1>1, <1>2

LEMMA SocketServes == SocketInv => ServerInv
<1>. SUFFICES ASSUME SocketInv PROVE ServerInv
  OBVIOUS
<1>1. TypeOK /\ ListInv /\ FrameInv
  BY DEF SocketInv
<1>2. NoSendAfterFinish /\ ClosedIsClosed
  BY <1>1 DEF ListInv, Listed, NoSendAfterFinish, ClosedIsClosed
<1>3. NoDeafSubscriber
  <2>. SUFFICES ASSUME NEW c \in Conns, Places(Stream(conn[c]), {"hello"}) # {}, c \notin subs,
                       ~conn[c].done
                PROVE  conn[c].reader # "reading"
    BY DEF NoDeafSubscriber
  <2>1. Places(Stream(conn[c]), News) # {}
    BY DEF Places, News
  <2>. QED
    BY <1>1, <2>1 DEF FrameInv, SentInv
<1>4. OneResponsePerRequest
  <2>. SUFFICES ASSUME NEW c \in Conns
                PROVE  /\ \A i \in Responses(Stream(conn[c])) :
                            Stream(conn[c])[i].n = Cardinality(Until(Stream(conn[c]), i))
                       /\ ~conn[c].done => Cardinality(Responses(Stream(conn[c]))) = conn[c].asked
    BY DEF OneResponsePerRequest, Responses, Until
  <2>. QED
    BY <1>1 DEF FrameInv, SentInv, Well, Numbered
<1>5. StatesUpToDate
  <2>. SUFFICES ASSUME NEW c \in Conns
                PROVE  /\ \A i, j \in Places(Stream(conn[c]), StateKinds) :
                             i < j => Stream(conn[c])[i].seq <= Stream(conn[c])[j].seq
                       /\ c \in subs => \E i \in Places(Stream(conn[c]), StateKinds) :
                             /\ \A j \in Places(Stream(conn[c]), StateKinds) : j <= i
                             /\ notifying = 0 => Stream(conn[c])[i].seq = seq
    BY DEF StatesUpToDate, StateKinds
  <2>1. SentInv(c)
    BY <1>1 DEF FrameInv
  <2>. DEFINE f == Stream(conn[c])
  <2>2. Rising(f) /\ (c \in subs => \E i : LastState(f, i)) /\ (c \in subs /\ notifying = 0 => HasState(f, seq))
    BY <2>1 DEF SentInv, Well
  <2>. HIDE DEF f
  <2>3. \A i, j \in Places(f, StateKinds) : i < j => f[i].seq <= f[j].seq
    BY <2>2 DEF Rising
  <2>4. c \in subs => \E i \in Places(f, StateKinds) :
                             /\ \A j \in Places(f, StateKinds) : j <= i
                             /\ notifying = 0 => f[i].seq = seq
    BY <2>2 DEF HasState, LastState
  <2>. QED
    BY <2>3, <2>4 DEF f
<1>. QED
  BY <1>1, <1>2, <1>3, <1>4, <1>5 DEF ServerInv

LEMMA SocketAlways == Spec => []SocketInv
<1>1. Init => SocketInv
  BY ServerInitTypes, FrameInit DEF SocketInv
<1>. QED
  BY <1>1, SocketNext, PTL DEF Spec

\* However many clients ask, subscribe, hang up or fall behind, whatever is
\* emitted and updated meanwhile, and whenever the server is closed: no frame is
\* sent on a closed queue, no subscriber is left listening to silence, every
\* request is answered once and in order, a subscriber's states never go back
\* and are current, and nobody is served by a closed server
\* (src/common/socket.go, handleClient, subscribe, pushLocked, Close).
THEOREM ServerInvHolds == Spec => []ServerInv
BY SocketAlways, SocketServes, PTL

-----------------------------------------------------------------------------
(* The feed of each client: what was written of its stream. *)

\* There is a last among the news that were written, if there are any.
WrittenInv == \A c \in Conns : Places(conn[c].got, News) # {} => \E i : LastNews(conn[c].got, i)

FeedInv == SocketInv /\ WrittenInv

\* What the client of a connection that was written g knows.
Told(g) ==
    IF Places(g, News) = {} THEN [joined |-> FALSE, at |-> 0]
    ELSE [joined |-> TRUE, at |-> g[Max(Places(g, News))].n]

LEMMA ToldLast ==
    ASSUME NEW g \in Seq(Frame), NEW i, LastNews(g, i)
    PROVE  Told(g) = [joined |-> TRUE, at |-> g[i].n]
<1>1. i \in Places(g, News) /\ \A j \in Places(g, News) : j \in Int /\ i >= j
  BY DEF LastNews, Places
<1>2. Max(Places(g, News)) = i
  BY <1>1 DEF Max
<1>. QED
  BY <1>1, <1>2 DEF Told

\* The next frame of a stream is written: it is no news, or the first of them,
\* or says the same as the last or the next after it.
LEMMA Written ==
    ASSUME NEW g \in Seq(Frame), NEW q \in Seq(Frame), q # <<>>, NEW n \in Nat,
           Gapless(g \o q), NewsUpTo(g \o q, n),
           Places(g, News) # {} => \E i : LastNews(g, i)
    PROVE  /\ \/ Told(Append(g, Head(q))) = Told(g)
              \/ /\ ~Told(g).joined
                 /\ \E m \in 0..n : Told(Append(g, Head(q))) = [joined |-> TRUE, at |-> m]
              \/ /\ Told(g).joined /\ Told(g).at \in Nat /\ Told(g).at < n
                 /\ Told(Append(g, Head(q))) = [joined |-> TRUE, at |-> Told(g).at + 1]
           /\ Places(Append(g, Head(q)), News) # {} => \E i : LastNews(Append(g, Head(q)), i)
<1>. HIDE DEF Frame
<1>. DEFINE x == Head(q)
            z == g \o q
            l == Len(g) + 1
            h == Append(g, x)
<1>1. x \in Frame /\ Len(q) \in Nat /\ Len(q) >= 1 /\ x = q[1] /\ Len(g) \in Nat
  OBVIOUS
<1>2. /\ z \in Seq(Frame) /\ Len(z) = Len(g) + Len(q) /\ z[l] = x
      /\ \A i \in 1..Len(g) : z[i] = g[i]
  BY <1>1, ConcatProperties
<1>3. /\ h \in Seq(Frame) /\ \A i \in 1..Len(g) : h[i] = g[i] /\ g[i] \in Frame
      /\ h[l] = x /\ Places(g, News) \subseteq 1..Len(g)
      /\ x.kind \in News => Places(h, News) = Places(g, News) \cup {l}
      /\ x.kind \notin News => Places(h, News) = Places(g, News)
  BY <1>1, PlacesAppend
<1>. HIDE DEF x, z, h
<1>4. /\ \A i \in 1..Len(g) : i \in Places(z, News) <=> i \in Places(g, News)
      /\ x.kind \in News => l \in Places(z, News)
  BY <1>1, <1>2 DEF Places
<1>5. CASE x.kind \notin News
  <2>1. Places(h, News) = Places(g, News)
    BY <1>3, <1>5
  <2>2. CASE Places(g, News) = {}
    BY <2>1, <2>2 DEF Told, h, x
  <2>3. CASE Places(g, News) # {}
    <3>1. PICK i : LastNews(g, i)
      BY <2>3
    <3>2. LastNews(h, i) /\ h[i] = g[i]
      BY <1>3, <2>1, <3>1 DEF LastNews
    <3>3. Told(h) = Told(g)
      BY <1>3, <3>1, <3>2, ToldLast
    <3>. QED
      BY <3>2, <3>3 DEF h, x
  <2>. QED
    BY <2>2, <2>3
<1>6. CASE x.kind \in News
  <2>1. LastNews(h, l) /\ h[l] = x
    BY <1>1, <1>3, <1>6 DEF LastNews
  <2>2. Told(h) = [joined |-> TRUE, at |-> x.n]
    BY <1>3, <2>1, ToldLast
  <2>3. x.n \in 0..n
    <3>1. z[l].n <= n
      BY <1>4, <1>6 DEF NewsUpTo, z
    <3>2. x.n \in Nat
      BY <1>1 DEF Frame, x
    <3>. QED
      BY <1>2, <3>1, <3>2
  <2>4. CASE Places(g, News) = {}
    <3>1. ~Told(g).joined
      BY <2>4 DEF Told
    <3>. QED
      BY <2>1, <2>2, <2>3, <3>1 DEF h, x
  <2>5. CASE Places(g, News) # {}
    <3>1. PICK i : LastNews(g, i)
      BY <2>5
    <3>2. Told(g) = [joined |-> TRUE, at |-> g[i].n]
      BY <3>1, ToldLast
    <3>3. i \in 1..Len(g) /\ i < l
      BY <1>1, <1>3, <3>1 DEF LastNews
    <3>4. g[i].n \in Nat
      <4>1. g[i] \in Frame
        BY <1>3, <3>3
      <4>. QED
        BY <4>1 DEF Frame
    <3>5. Follows(z, i, l)
      <4>1. i \in Places(z, News) /\ l \in Places(z, News)
        BY <1>4, <1>6, <3>1, <3>3 DEF LastNews
      <4>2. ASSUME NEW m \in Places(z, News), i < m, m < l PROVE FALSE
        <5>1. m \in 1..Len(g)
          BY <1>1, <1>2, <4>2, <3>3 DEF Places
        <5>. QED
          BY <1>4, <3>1, <3>3, <4>2, <5>1 DEF LastNews
      <4>. QED
        BY <3>3, <4>1, <4>2 DEF Follows
    <3>6. z[l].n = z[i].n \/ z[l].n = z[i].n + 1
      BY <3>5 DEF Gapless, Follows, z
    <3>7. x.n = g[i].n \/ x.n = g[i].n + 1
      BY <1>2, <3>3, <3>6
    <3>8. CASE x.n = g[i].n
      BY <2>1, <2>2, <3>2, <3>8 DEF h, x
    <3>9. CASE x.n = g[i].n + 1
      <4>1. Told(g).joined /\ Told(g).at = g[i].n
        BY <3>2
      <4>2. Told(g).at < n /\ Told(h) = [joined |-> TRUE, at |-> Told(g).at + 1]
        BY <2>2, <2>3, <3>4, <3>9, <4>1
      <4>. QED
        BY <2>1, <3>4, <4>1, <4>2 DEF h, x
    <3>. QED
      BY <3>7, <3>8, <3>9
  <2>. QED
    BY <2>4, <2>5
<1>. QED
  BY <1>5, <1>6

LEMMA HeardIs == \A c \in Conns : Heard(c) = Told(conn[c].got)
BY DEF Heard, Told, News

\* Every other step writes nothing.
LEMMA NothingWritten ==
    ASSUME TypeOK, plan \in Plans, Next, \A c \in Conns : ~WriteLoop(c), NEW e \in Conns
    PROVE  conn'[e].got = conn[e].got
<1>1. ConnsOK /\ lastID \in Nat /\ seq \in Nat /\ notifying \in Nat
  BY ConnsFit
<1>2. ASSUME NEW c \in Conns, Idles(c) PROVE conn'[e].got = conn[e].got
  <2>1. CASE e # c
    BY <1>1, <1>2, <2>1, IdlesMove DEF Moves
  <2>2. Flags(conn[c], conn'[c])
    <3>1. CASE Accept(c) \/ WriteFails(c) \/ WriteEnds(c) \/ ReadFails(c) \/ Unregister(c) \/ Finish(c)
      BY <1>1, <3>1, GoroutinesDo DEF Turns
    <3>2. CASE \/ HangUp(c) \/ \E q \in Requests : SendLine(c, q)
               \/ Handle(c) /\ Head(conn[c].todo) = "blank"
      BY <1>1, <3>2, ClientDoes
    <3>. QED
      BY <1>2, <3>1, <3>2 DEF Idles
  <2>. QED
    BY <2>1, <2>2 DEF Flags
<1>3. ASSUME NEW c \in Conns, Answers(c) PROVE conn'[e].got = conn[e].got
  <2>1. Moves(c) /\ conn[c].todo # <<>>
    BY <1>3, AnswersDo
  <2>2. conn[c] \in FitConnection
    BY <1>1 DEF ConnsOK
  <2>3. Respond(conn[c]) \in FitConnection /\ Respond(conn[c]).got = conn[c].got
    BY <2>1, <2>2, RespondDoes
  <2>4. CASE Handle(c) /\ Head(conn[c].todo) # "blank"
    <3>1. conn'[c] = GoOn(Respond(conn[c]))
      BY <1>1, <2>4, HandleDoes
    <3>2. conn'[c].got = conn[c].got
      BY <2>3, <3>1, GoOnDoes
    <3>. QED
      BY <2>1, <3>2 DEF Moves
  <2>5. CASE Subscribe(c)
    <3>. DEFINE h == Send(Respond(conn[c]), HelloFrame)
    <3>1. conn'[c] = GoOn(h)
      BY <1>1, <2>5, SubscribeDoes
    <3>2. HelloFrame \in Frame
      BY <1>1, FrameTypes
    <3>3. h \in FitConnection /\ h.got = conn[c].got
      BY <2>3, <3>2, SendDoes
    <3>4. conn'[c].got = conn[c].got
      BY <3>1, <3>3, GoOnDoes
    <3>. QED
      BY <2>1, <3>4 DEF Moves
  <2>. QED
    BY <1>3, <2>4, <2>5 DEF Answers
<1>4. CASE Emit
  <2>1. EventFrame(lastID + 1) \in Frame /\ Push(EventFrame(lastID + 1))
    BY <1>1, <1>4, FrameTypes DEF Emit
  <2>. QED
    BY <2>1, PushesDo
<1>5. CASE BroadcastState
  <2>1. StateFrame(notifying) \in Frame /\ Push(StateFrame(notifying))
    BY <1>1, <1>5, FrameTypes DEF BroadcastState
  <2>. QED
    BY <2>1, PushesDo
<1>6. CASE Update \/ CloseDone
  BY <1>6 DEF Update, CloseDone
<1>7. CASE CloseConns
  BY <1>1, <1>7, CloseConnsDoes DEF Flags
<1>. QED
  BY <1>2, <1>3, <1>4, <1>5, <1>6, <1>7, Steps

LEMMA WrittenStep ==
    ASSUME SocketInv, WrittenInv, NEW c \in Conns, WriteLoop(c)
    PROVE  /\ \A e \in Conns : e # c => conn'[e].got = conn[e].got
           /\ \/ Heard(c)' = Heard(c)
              \/ ~Heard(c).joined /\ \E m \in 0..lastID : Heard(c)' = [joined |-> TRUE, at |-> m]
              \/ /\ Heard(c).joined /\ Heard(c).at \in Nat /\ Heard(c).at < lastID
                 /\ Heard(c)' = [joined |-> TRUE, at |-> Heard(c).at + 1]
           /\ Places(conn'[c].got, News) # {} => \E i : LastNews(conn'[c].got, i)
<1>1. ConnsOK /\ lastID \in Nat /\ conn[c] \in FitConnection /\ SentInv(c)
  BY ConnsFit DEF SocketInv, ConnsOK, FrameInv
<1>. DEFINE g == conn[c].got
            q == conn[c].queue
<1>2. g \in Seq(Frame) /\ q \in Seq(Frame)
  BY <1>1, Fields
<1>3. /\ q # <<>> /\ conn'[c].got = Append(g, Head(q))
      /\ \A e \in Conns : e # c => conn'[e] = conn[e]
  BY <1>1, WriteLoopDoes
<1>4. /\ Gapless(g \o q) /\ NewsUpTo(g \o q, lastID)
      /\ Places(g, News) # {} => \E i : LastNews(g, i)
  BY <1>1 DEF SentInv, Well, Stream, WrittenInv
<1>5. Heard(c) = Told(g) /\ Heard(c)' = Told(Append(g, Head(q)))
  BY <1>3 DEF Heard, Told, News
<1>. HIDE DEF g, q
<1>6. /\ \/ Told(Append(g, Head(q))) = Told(g)
         \/ /\ ~Told(g).joined
            /\ \E m \in 0..lastID : Told(Append(g, Head(q))) = [joined |-> TRUE, at |-> m]
         \/ /\ Told(g).joined /\ Told(g).at \in Nat /\ Told(g).at < lastID
            /\ Told(Append(g, Head(q))) = [joined |-> TRUE, at |-> Told(g).at + 1]
      /\ Places(Append(g, Head(q)), News) # {} => \E i : LastNews(Append(g, Head(q)), i)
  BY <1>1, <1>2, <1>3, <1>4, Written
<1>. QED
  BY <1>3, <1>5, <1>6

LEMMA WrittenNext == FeedInv /\ [Next /\ UNCHANGED plan]_<<serverVars, plan>> => FeedInv'
<1>1. ASSUME FeedInv, Next, UNCHANGED plan PROVE WrittenInv'
  <2>. SUFFICES ASSUME NEW e \in Conns
                PROVE  Places(conn'[e].got, News) # {} => \E i : LastNews(conn'[e].got, i)
    BY DEF WrittenInv
  <2>1. SocketInv /\ WrittenInv /\ TypeOK /\ plan \in Plans
    BY <1>1 DEF FeedInv, SocketInv, ListInv
  <2>2. CASE conn'[e].got = conn[e].got
    BY <2>1, <2>2 DEF WrittenInv
  <2>3. ASSUME NEW c \in Conns, WriteLoop(c)
        PROVE  Places(conn'[e].got, News) # {} => \E i : LastNews(conn'[e].got, i)
    <3>1. CASE e = c
      BY <2>1, <2>3, <3>1, WrittenStep
    <3>2. CASE e # c
      BY <2>1, <2>2, <2>3, <3>2, WrittenStep
    <3>. QED
      BY <3>1, <3>2
  <2>. QED
    BY <1>1, <2>1, <2>2, <2>3, NothingWritten
<1>2. ASSUME FeedInv, UNCHANGED <<serverVars, plan>> PROVE WrittenInv'
  BY <1>2 DEF FeedInv, WrittenInv, serverVars
<1>. QED
  BY <1>1, <1>2, SocketNext DEF FeedInv

LEMMA FeedInit == Init => FeedInv /\ Feed!Init
<1>. SUFFICES ASSUME Init PROVE FeedInv /\ Feed!Init
  OBVIOUS
<1>1. \A c \in Conns : Places(conn[c].got, News) = {}
  BY DEF Init, NoConnection, Places
<1>2. FeedInv
  BY <1>1, ServerInitTypes, FrameInit DEF FeedInv, WrittenInv, SocketInv
<1>3. \A c \in Conns : Heard(c) = [joined |-> FALSE, at |-> 0]
  BY <1>1, HeardIs DEF Told
<1>4. Feed!Init
  BY <1>3 DEF Init, Feed!Init, Feed!None
<1>. QED
  BY <1>2, <1>4

LEMMA FeedStep ==
    ASSUME FeedInv, [Next /\ UNCHANGED plan]_<<serverVars, plan>>
    PROVE  [Feed!Next]_<<lastID, [c \in Conns |-> Heard(c)]>>
<1>. DEFINE H == [c \in Conns |-> Heard(c)]
<1>1. SocketInv /\ WrittenInv /\ TypeOK /\ plan \in Plans
  BY DEF FeedInv, SocketInv, ListInv
<1>2. ASSUME \A e \in Conns : conn'[e].got = conn[e].got PROVE H' = H
  BY <1>2 DEF Heard
<1>3. CASE UNCHANGED <<serverVars, plan>>
  <2>1. lastID' = lastID /\ H' = H
    BY <1>2, <1>3 DEF serverVars
  <2>. QED
    BY <2>1
<1>4. CASE Next /\ \A c \in Conns : ~WriteLoop(c)
  <2>1. H' = H
    BY <1>1, <1>2, <1>4, NothingWritten
  <2>2. lastID' = lastID \/ lastID' = lastID + 1
    BY <1>4 DEF Next, Accept, Reader, Handle, Subscribe, ReadFails, Unregister, Finish, Writer,
         WriteLoop, WriteFails, WriteEnds, HangUp, SendLine, Emit, Update, BroadcastState,
         CloseDone, CloseConns
  <2>3. CASE lastID' = lastID
    BY <2>1, <2>3
  <2>4. CASE lastID' = lastID + 1
    <3>1. Feed!Publish
      BY <2>1, <2>4 DEF Feed!Publish
    <3>. QED
      BY <3>1 DEF Feed!Next
  <2>. QED
    BY <2>2, <2>3, <2>4
<1>5. ASSUME NEW c \in Conns, WriteLoop(c)
      PROVE  Feed!Next \/ UNCHANGED <<lastID, H>>
  <2>1. lastID' = lastID
    BY <1>5 DEF WriteLoop
  <2>2. /\ \A e \in Conns : e # c => Heard(e)' = Heard(e)
        /\ \/ Heard(c)' = Heard(c)
           \/ ~Heard(c).joined /\ \E m \in 0..lastID : Heard(c)' = [joined |-> TRUE, at |-> m]
           \/ /\ Heard(c).joined /\ Heard(c).at \in Nat /\ Heard(c).at < lastID
              /\ Heard(c)' = [joined |-> TRUE, at |-> Heard(c).at + 1]
    <3>1. /\ \A e \in Conns : e # c => conn'[e].got = conn[e].got
          /\ \/ Heard(c)' = Heard(c)
             \/ ~Heard(c).joined /\ \E m \in 0..lastID : Heard(c)' = [joined |-> TRUE, at |-> m]
             \/ /\ Heard(c).joined /\ Heard(c).at \in Nat /\ Heard(c).at < lastID
                /\ Heard(c)' = [joined |-> TRUE, at |-> Heard(c).at + 1]
      BY <1>1, <1>5, WrittenStep
    <3>2. \A e \in Conns : e # c => Heard(e)' = Heard(e)
      BY <3>1 DEF Heard
    <3>. QED
      BY <3>1, <3>2
  <2>3. \A v : Heard(c)' = v => H' = [H EXCEPT ![c] = v]
    BY <2>2
  <2>4. H[c] = Heard(c)
    OBVIOUS
  <2>5. CASE Heard(c)' = Heard(c)
    <3>1. H' = H
      BY <2>2, <2>5
    <3>. QED
      BY <2>1, <3>1
  <2>6. CASE ~Heard(c).joined /\ \E m \in 0..lastID : Heard(c)' = [joined |-> TRUE, at |-> m]
    <3>1. Feed!Join(c)
      BY <2>1, <2>3, <2>4, <2>6 DEF Feed!Join, Feed!At
    <3>. QED
      BY <3>1 DEF Feed!Next
  <2>7. CASE /\ Heard(c).joined /\ Heard(c).at \in Nat /\ Heard(c).at < lastID
             /\ Heard(c)' = [joined |-> TRUE, at |-> Heard(c).at + 1]
    <3>1. Feed!Hear(c)
      BY <2>1, <2>3, <2>4, <2>7 DEF Feed!Hear, Feed!At
    <3>. QED
      BY <3>1 DEF Feed!Next
  <2>. QED
    BY <2>2, <2>5, <2>6, <2>7
<1>. QED
  BY <1>3, <1>4, <1>5

\* The socket server implements the event feed: a client that subscribes joins
\* at some event and is then told of every later one, in order and once, for as
\* long as it is told of anything (src/common/socket.go, subscribe, pushLocked,
\* writeLoop; src/common/eventlog.go, Emit).
THEOREM ServerFeeds == Spec => ImplementsFeed
BY FeedInit, WrittenNext, FeedStep, PTL DEF Spec, ImplementsFeed, Feed!Spec
=============================================================================
