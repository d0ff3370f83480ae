---------------------------- MODULE TurnsProofs ----------------------------
(***************************************************************************)
(* Threads, locks and pages, proved for every set of threads, processes    *)
(* and calls: a block held on the log stands together on it, the report    *)
(* pairs each escalation with the outcome its own call wrote, and what it  *)
(* says of a page is what the page came to.  A call is a list of steps, so *)
(* the argument is about lists: a Segment is a list that takes a call from *)
(* one standing to another.  Every call is a segment from nothing held to  *)
(* nothing held, a suffix of a segment is one, and segments compose as     *)
(* calls nest.  CallInv says that what a thread has still to do is a       *)
(* segment from where the locks and the log show it to stand.              *)
(***************************************************************************)
EXTENDS Turns, Positions

AllQueues == Queues \cup {SystemError}
Transports == {"sent", "not reported", "none"}

Lines ==
  [kind : {"envelope.persisted", "ack", "dead.letter", "record"}]
    \cup [kind : {"escalation.raised"}, queue : AllQueues]
    \cup [kind : {"human.notified", "human.notify_failed"}, queue : AllQueues, raised : Nat,
          transport : Transports]
    \cup [kind : {"state"}, block : Threads \X Int]

Items ==
  [do : {"hub", "handle", "handled", "unhub", "log", "unlog", "open", "open to read"}]
    \cup [do : {"page"}, queue : AllQueues]
    \cup [do : {"write"}, line : Lines]

\* How a thread stands: how often it holds the log's lock of its process, how it
\* holds the file, and how far its call has come with its block and with
\* its escalation.
Standings ==
  {a \in [depth : Nat, mode : {"none", "shared", "exclusive"},
          block : {"fresh", "half", "done"},
          page : {"before", "raised", "paged", "over"}] :
     /\ (a.depth = 0) => (a.mode = "none")
     /\ (a.block = "half") => (a.mode = "exclusive")}

\* An append may begin: nothing is held, or the file is held for writing; and
\* a block is not broken off.
Calm(a) == ((a.depth = 0) \/ (a.mode = "exclusive")) /\ (a.block # "half")

\* What a call knows of itself: its name, the entry of the escalation it pages
\* about, whether that page reached a person, and whether that was lost.
Tags == [call : Threads \X Int, raised : Nat, told : BOOLEAN, lost : BOOLEAN]

\* A line that the call n may write where it stands.
May(n, e, a) ==
  /\ (a.block = "half") => (e.kind = "state")
  /\ (e.kind = "state") => (e.block = n.call) /\ (a.block # "done")
  /\ (e.kind = "escalation.raised") => (a.page = "before")
  /\ (e.kind \in K!NotifyOutcomes) =>
       /\ (a.page = "paged") /\ (e.raised = n.raised)
       /\ (e.kind = "human.notified") /\ (e.transport # "not reported") => n.told
       /\ (e.kind = "human.notify_failed") => (~n.told \/ n.lost)

\* Where the line leaves it.
After(e, a) ==
  [depth |-> a.depth, mode |-> a.mode,
   block |-> IF e.kind # "state" THEN a.block ELSE IF a.block = "fresh" THEN "half" ELSE "done",
   page  |-> IF e.kind = "escalation.raised" THEN "raised"
             ELSE IF e.kind \in K!NotifyOutcomes THEN "over" ELSE a.page]

\* What the step x, of the call n, makes of the standing a.
Moves(n, x, a, b) ==
  CASE x.do \in {"hub", "handle", "handled", "unhub"} -> b = a
    [] x.do = "page"  -> Calm(a) /\ (a.page = "raised") /\ b = [a EXCEPT !.page = "over"]
    [] x.do = "log"   -> b = [a EXCEPT !.depth = @ + 1]
    [] x.do = "unlog" -> /\ a.depth > 0
                         /\ b = [depth |-> a.depth - 1,
                                 mode  |-> IF a.depth = 1 THEN "none" ELSE a.mode,
                                 block |-> a.block, page |-> a.page]
    [] x.do = "open"  -> /\ a.depth > 0 /\ (a.mode # "shared")
                         /\ b = [a EXCEPT !.mode = "exclusive"]
    [] x.do = "open to read" -> /\ a.depth > 0
                                /\ b = [a EXCEPT !.mode = IF @ = "none" THEN "shared" ELSE @]
    [] x.do = "write" -> /\ a.depth > 0 /\ (a.mode = "exclusive")
                         /\ May(n, x.line, a) /\ b = After(x.line, a)

\* w takes the call n from the standing a to the standing b.
Segment(n, w, a, b) ==
  /\ w \in Seq(Items) /\ a \in Standings /\ b \in Standings
  /\ \E g \in [0 .. Len(w) -> Standings] :
       /\ g[0] = a /\ g[Len(w)] = b
       /\ \A i \in 1 .. Len(w) : Moves(n, w[i], g[i - 1], g[i])

----------------------------------------------------------------------------
(* Segments *)

\* The empty list moves nothing, and only stays.
LEMMA EmptySegment ==
  ASSUME NEW n, NEW a \in Standings
  PROVE  Segment(n, <<>>, a, a)
<1> DEFINE g == [i \in 0 .. 0 |-> a]
<1>1. g \in [0 .. Len(<<>>) -> Standings] /\ g[0] = a /\ g[Len(<<>>)] = a
  OBVIOUS
<1>2. \A i \in 1 .. Len(<<>>) : Moves(n, <<>>[i], g[i - 1], g[i])
  OBVIOUS
<1>3. <<>> \in Seq(Items)
  OBVIOUS
<1> HIDE DEF g
<1> QED
  BY <1>1, <1>2, <1>3 DEF Segment

\* One step is a segment.
LEMMA StepSegment ==
  ASSUME NEW n, NEW x \in Items, NEW a \in Standings, NEW b \in Standings, Moves(n, x, a, b)
  PROVE  Segment(n, <<x>>, a, b)
<1> DEFINE g == [i \in 0 .. 1 |-> IF i = 0 THEN a ELSE b]
<1>0. <<x>> \in Seq(Items) /\ Len(<<x>>) = 1 /\ <<x>>[1] = x
  OBVIOUS
<1>1. g \in [0 .. 1 -> Standings] /\ g[0] = a /\ g[1] = b
  OBVIOUS
<1> HIDE DEF g
<1>2. \A i \in 1 .. 1 : Moves(n, <<x>>[i], g[i - 1], g[i])
  <2> TAKE i \in 1 .. 1
  <2>1. i = 1 /\ i - 1 = 0
    OBVIOUS
  <2> QED
    BY <1>0, <1>1, <2>1
<1> QED
  BY <1>0, <1>1, <1>2 DEF Segment

\* Segments compose.
LEMMA JoinSegments ==
  ASSUME NEW n, NEW v, NEW w, NEW a, NEW b, NEW c,
         Segment(n, v, a, b), Segment(n, w, b, c)
  PROVE  Segment(n, v \o w, a, c)
<1>1. /\ v \in Seq(Items) /\ w \in Seq(Items)
      /\ a \in Standings /\ b \in Standings /\ c \in Standings
  BY DEF Segment
<1>2. PICK g \in [0 .. Len(v) -> Standings] :
        /\ g[0] = a /\ g[Len(v)] = b
        /\ \A i \in 1 .. Len(v) : Moves(n, v[i], g[i - 1], g[i])
  BY DEF Segment
<1>3. PICK h \in [0 .. Len(w) -> Standings] :
        /\ h[0] = b /\ h[Len(w)] = c
        /\ \A i \in 1 .. Len(w) : Moves(n, w[i], h[i - 1], h[i])
  BY DEF Segment
<1>4. /\ Len(v) \in Nat /\ Len(w) \in Nat
      /\ v \o w \in Seq(Items) /\ Len(v \o w) = Len(v) + Len(w)
      /\ \A i \in 1 .. Len(v) + Len(w) :
           (v \o w)[i] = IF i <= Len(v) THEN v[i] ELSE w[i - Len(v)]
  BY <1>1
<1> DEFINE k == [i \in 0 .. Len(v) + Len(w) |-> IF i <= Len(v) THEN g[i] ELSE h[i - Len(v)]]
<1>5. \A i \in 0 .. Len(v) : k[i] = g[i]
  BY <1>4
<1>6. \A i \in Len(v) .. Len(v) + Len(w) : k[i] = h[i - Len(v)]
  BY <1>2, <1>3, <1>4
<1>7. k \in [0 .. Len(v) + Len(w) -> Standings]
  BY <1>2, <1>3, <1>4
<1>8. k[0] = a /\ k[Len(v) + Len(w)] = c
  <2>1. 0 \in 0 .. Len(v) /\ Len(v) + Len(w) \in Len(v) .. Len(v) + Len(w)
        /\ Len(v) + Len(w) - Len(v) = Len(w)
    BY <1>4
  <2> QED
    BY <2>1, <1>2, <1>3, <1>5, <1>6
<1> HIDE DEF k
<1>9. ASSUME NEW i \in 1 .. Len(v \o w) PROVE Moves(n, (v \o w)[i], k[i - 1], k[i])
  <2>1. CASE i <= Len(v)
    <3>1. i \in 1 .. Len(v) /\ i - 1 \in 0 .. Len(v) /\ i \in 0 .. Len(v) /\ (v \o w)[i] = v[i]
      BY <2>1, <1>4
    <3> QED
      BY <3>1, <1>2, <1>5
  <2>2. CASE ~(i <= Len(v))
    <3>1. /\ i - Len(v) \in 1 .. Len(w) /\ (v \o w)[i] = w[i - Len(v)]
          /\ i - 1 \in Len(v) .. Len(v) + Len(w) /\ i \in Len(v) .. Len(v) + Len(w)
          /\ (i - Len(v)) - 1 = (i - 1) - Len(v)
      BY <2>2, <1>4
    <3>2. Moves(n, w[i - Len(v)], h[(i - Len(v)) - 1], h[i - Len(v)])
      BY <3>1, <1>3
    <3> QED
      BY <3>1, <3>2, <1>6
  <2> QED
    BY <2>1, <2>2
<1> QED
  BY <1>1, <1>4, <1>7, <1>8, <1>9 DEF Segment

\* A segment begins with a step and goes on as a segment.
LEMMA SplitSegment ==
  ASSUME NEW n, NEW w, NEW a, NEW c, Segment(n, w, a, c), w # <<>>
  PROVE  \E b \in Standings : Moves(n, Head(w), a, b) /\ Segment(n, Tail(w), b, c)
<1>1. w \in Seq(Items) /\ a \in Standings /\ c \in Standings
  BY DEF Segment
<1>2. PICK g \in [0 .. Len(w) -> Standings] :
        /\ g[0] = a /\ g[Len(w)] = c
        /\ \A i \in 1 .. Len(w) : Moves(n, w[i], g[i - 1], g[i])
  BY DEF Segment
<1>3. /\ Len(w) \in Nat /\ Len(w) > 0 /\ Head(w) = w[1]
      /\ Tail(w) \in Seq(Items) /\ Len(Tail(w)) = Len(w) - 1
      /\ \A i \in 1 .. Len(w) - 1 : Tail(w)[i] = w[i + 1]
  BY <1>1
<1> DEFINE h == [i \in 0 .. Len(w) - 1 |-> g[i + 1]]
<1>4. h \in [0 .. Len(Tail(w)) -> Standings] /\ h[0] = g[1] /\ h[Len(Tail(w))] = c
  BY <1>2, <1>3
<1>5. \A i \in 0 .. Len(w) - 1 : h[i] = g[i + 1]
  OBVIOUS
<1> HIDE DEF h
<1>6. ASSUME NEW i \in 1 .. Len(Tail(w)) PROVE Moves(n, Tail(w)[i], h[i - 1], h[i])
  <2>1. /\ i + 1 \in 1 .. Len(w) /\ Tail(w)[i] = w[i + 1] /\ (i + 1) - 1 = i
        /\ i - 1 \in 0 .. Len(w) - 1 /\ i \in 0 .. Len(w) - 1 /\ (i - 1) + 1 = i
    BY <1>3
  <2>2. Moves(n, w[i + 1], g[(i + 1) - 1], g[i + 1])
    BY <2>1, <1>2
  <2> QED
    BY <2>1, <2>2, <1>5
<1>7. 1 \in 1 .. Len(w) /\ 1 \in 0 .. Len(w) /\ 1 - 1 = 0
  BY <1>3
<1>8. Moves(n, Head(w), a, g[1]) /\ g[1] \in Standings
  BY <1>2, <1>3, <1>7
<1>9. Segment(n, Tail(w), g[1], c)
  BY <1>1, <1>3, <1>4, <1>6, <1>8 DEF Segment
<1> QED
  BY <1>8, <1>9

\* An empty segment stays where it is.
LEMMA EmptyStays ==
  ASSUME NEW n, NEW a, NEW c, Segment(n, <<>>, a, c)
  PROVE  a = c
<1>1. Len(<<>>) = 0
  OBVIOUS
<1> QED
  BY <1>1 DEF Segment

\* No step of a call leads to where an outcome is recorded: only a page that is
\* answered does.
LEMMA NoneBecomesPaged ==
  ASSUME NEW n, NEW x \in Items, NEW a \in Standings, NEW b \in Standings,
         Moves(n, x, a, b), a.page # "paged"
  PROVE  b.page # "paged"
<1>1. x.do \in {"hub", "handle", "handled", "unhub", "log", "unlog", "open", "open to read", "page", "write"}
  BY DEF Items
<1>2. a.page \in {"before", "raised", "paged", "over"}
  BY DEF Standings
<1>3. CASE x.do = "write"
  BY <1>3 DEF Moves, After
<1>4. CASE x.do \in {"hub", "handle", "handled", "unhub", "unlog"}
  <2>1. b = a \/ (b.page = a.page)
    <3>1. CASE x.do = "unlog"
      BY <3>1 DEF Moves
    <3>2. CASE x.do # "unlog"
      BY <1>4, <3>2 DEF Moves
    <3> QED
      BY <3>1, <3>2
  <2> QED
    BY <2>1
<1>5. CASE x.do \in {"log", "open", "open to read"}
  <2>1. \E d, v : b = [a EXCEPT !.depth = d] \/ b = [a EXCEPT !.mode = v]
    BY <1>5 DEF Moves
  <2> QED
    BY <2>1 DEF Standings
<1>6. CASE x.do = "page"
  <2>1. b = [a EXCEPT !.page = "over"]
    BY <1>6 DEF Moves
  <2> QED
    BY <2>1 DEF Standings
<1> QED
  BY <1>1, <1>3, <1>4, <1>5, <1>6

\* What a step makes of a standing depends on the escalation only where an outcome
\* is recorded.
LEMMA SameMoves ==
  ASSUME NEW n, NEW m, m.call = n.call, NEW x \in Items, NEW a, NEW b,
         Moves(n, x, a, b), a.page # "paged"
  PROVE  Moves(m, x, a, b)
<1>1. CASE x.do = "write"
  BY <1>1 DEF Moves, May
<1>2. CASE x.do # "write"
  <2>1. x.do \in {"hub", "handle", "handled", "unhub", "log", "unlog", "open", "open to read", "page", "write"}
    BY DEF Items
  <2> QED
    BY <1>2, <2>1 DEF Moves
<1> QED
  BY <1>1, <1>2

\* A call that is not yet about to record an outcome writes none but through a
\* page, so a segment of it holds for another escalation too.
LEMMA OtherTag ==
  ASSUME NEW n \in Tags, NEW m \in Tags, m.call = n.call, NEW w, NEW a, NEW c,
         Segment(n, w, a, c), a.page # "paged"
  PROVE  Segment(m, w, a, c)
<1>1. w \in Seq(Items) /\ a \in Standings /\ c \in Standings /\ Len(w) \in Nat
  BY DEF Segment
<1>2. PICK g \in [0 .. Len(w) -> Standings] :
        /\ g[0] = a /\ g[Len(w)] = c
        /\ \A i \in 1 .. Len(w) : Moves(n, w[i], g[i - 1], g[i])
  BY DEF Segment
<1> DEFINE S == {i \in 1 .. Len(w) : g[i].page = "paged"}
<1>3. S = {}
  <2> SUFFICES ASSUME S # {} PROVE FALSE
    OBVIOUS
  <2>1. PICK i \in S : \A k \in S : i <= k
    BY <1>1, LeastOf
  <2>2. /\ i \in 1 .. Len(w) /\ i - 1 \in 0 .. Len(w) /\ w[i] \in Items
        /\ g[i - 1] \in Standings /\ g[i] \in Standings
        /\ Moves(n, w[i], g[i - 1], g[i]) /\ g[i].page = "paged"
    BY <1>1, <1>2
  <2>3. g[i - 1].page # "paged"
    <3>1. CASE i = 1
      BY <1>2, <3>1
    <3>2. CASE i # 1
      BY <1>1, <2>1, <2>2, <3>2
    <3> QED
      BY <3>1, <3>2
  <2> QED
    BY <2>2, <2>3, NoneBecomesPaged
<1>4. \A i \in 0 .. Len(w) : g[i].page # "paged"
  BY <1>2, <1>3
<1>5. ASSUME NEW i \in 1 .. Len(w) PROVE Moves(m, w[i], g[i - 1], g[i])
  <2>1. i - 1 \in 0 .. Len(w) /\ Moves(n, w[i], g[i - 1], g[i]) /\ g[i - 1].page # "paged"
    BY <1>2, <1>4
  <2>2. w[i] \in Items
    BY <1>1
  <2> QED
    BY <2>1, <2>2, SameMoves
<1> QED
  BY <1>1, <1>2, <1>5 DEF Segment

----------------------------------------------------------------------------
(* The calls are segments *)

\* A step that carries nothing.
LEMMA DoSegment ==
  ASSUME NEW n, NEW what \in {"hub", "handle", "handled", "unhub", "log", "unlog", "open", "open to read"},
         NEW a \in Standings, NEW b \in Standings, Moves(n, [do |-> what], a, b)
  PROVE  Segment(n, Do(what), a, b)
<1>1. [do |-> what] \in Items
  BY DEF Items
<1> QED
  BY <1>1, StepSegment DEF Do

\* What a line leaves as it was.
LEMMA AfterStands ==
  ASSUME NEW n, NEW e, NEW a \in Standings, May(n, e, a), (e.kind = "state") => (a.mode = "exclusive")
  PROVE  /\ After(e, a) \in Standings
         /\ After(e, a).depth = a.depth /\ After(e, a).mode = a.mode
BY DEF After, May, Standings

\* One append of a line that may be written.
LEMMA AppendSegment ==
  ASSUME NEW n, NEW e \in Lines, NEW a \in Standings, May(n, e, a),
         (a.depth = 0) \/ (a.mode = "exclusive"), (e.kind = "state") => (a.mode = "exclusive")
  PROVE  Segment(n, Append1(e), a, After(e, a))
<1> DEFINE m == [a EXCEPT !.depth = @ + 1]
           b == [m EXCEPT !.mode = "exclusive"]
           c == After(e, b)
           d == After(e, a)
           x == [do |-> "write", line |-> e]
<1>1. /\ m \in Standings /\ m.depth = a.depth + 1 /\ m.mode = a.mode
      /\ m.block = a.block /\ m.page = a.page
  BY DEF Standings
<1>2. /\ b \in Standings /\ b.depth = a.depth + 1 /\ b.mode = "exclusive"
      /\ b.block = a.block /\ b.page = a.page
  <2> HIDE DEF m
  <2> QED
    BY <1>1 DEF Standings
<1>3. x \in Items /\ x.do = "write" /\ x.line = e
  BY DEF Items
<1> HIDE DEF x
<1>4. Segment(n, Do("log"), a, m)
  <2>1. Moves(n, [do |-> "log"], a, m)
    BY DEF Moves
  <2> QED
    BY <1>1, <2>1, DoSegment
<1>5. Segment(n, Do("open"), m, b)
  <2>1. m.depth > 0 /\ m.mode # "shared"
    BY <1>1 DEF Standings
  <2>2. Moves(n, [do |-> "open"], m, b)
    BY <2>1 DEF Moves
  <2> HIDE DEF m, b
  <2> QED
    BY <1>1, <1>2, <2>2, DoSegment
<1> HIDE DEF m, b
<1>6. May(n, e, b) /\ c \in Standings /\ c.depth = b.depth /\ c.mode = b.mode
  <2>1. May(n, e, b)
    BY <1>2 DEF May
  <2> QED
    BY <1>2, <2>1, AfterStands
<1>7. Segment(n, <<x>>, b, c)
  <2>1. b.depth > 0
    BY <1>2 DEF Standings
  <2>2. Moves(n, x, b, c)
    BY <1>2, <1>3, <1>6, <2>1 DEF Moves
  <2> QED
    BY <1>2, <1>3, <1>6, <2>2, StepSegment
<1>8. Segment(n, Do("unlog"), c, d)
  <2>1. d \in Standings
    BY AfterStands
  <2>2. d = [depth |-> c.depth - 1, mode |-> IF c.depth = 1 THEN "none" ELSE c.mode,
             block |-> c.block, page |-> c.page]
    <3>1. /\ c.depth = a.depth + 1 /\ a.depth \in Nat
          /\ a.mode = IF c.depth = 1 THEN "none" ELSE c.mode
      BY <1>2, <1>6 DEF Standings
    <3>2. c.block = d.block /\ c.page = d.page
      BY <1>2 DEF After
    <3>3. d = [depth |-> a.depth, mode |-> a.mode, block |-> d.block, page |-> d.page]
      BY DEF After
    <3>4. c.depth - 1 = a.depth
      BY <3>1
    <3> HIDE DEF c, d
    <3>6. (IF c.depth = 1 THEN "none" ELSE c.mode) = a.mode
      BY <3>1
    <3> QED
      BY <3>2, <3>3, <3>4, <3>6
  <2>3. c.depth > 0
    BY <1>2, <1>6 DEF Standings
  <2> HIDE DEF c, d
  <2>4. Moves(n, [do |-> "unlog"], c, d)
    BY <2>2, <2>3 DEF Moves
  <2> QED
    BY <1>6, <2>1, <2>4, DoSegment
<1> HIDE DEF c, d
<1>9. Segment(n, Do("log") \o Do("open"), a, b)
  BY <1>4, <1>5, JoinSegments
<1>10. Segment(n, Do("log") \o Do("open") \o <<x>>, a, c)
  BY <1>7, <1>9, JoinSegments
<1>11. Segment(n, Do("log") \o Do("open") \o <<x>> \o Do("unlog"), a, d)
  BY <1>8, <1>10, JoinSegments
<1> QED
  BY <1>11 DEF Append1, x, d

\* An append that is of no block and no escalation leaves a calm standing as it was.
LEMMA RecordSegment ==
  ASSUME NEW n, NEW kind \in {"envelope.persisted", "ack", "dead.letter", "record"},
         NEW a \in Standings, Calm(a)
  PROVE  Segment(n, Append1([kind |-> kind]), a, a)
<1> DEFINE e == [kind |-> kind]
<1>1. e \in Lines /\ e.kind = kind
  BY DEF Lines
<1>2. May(n, e, a)
  BY <1>1 DEF May, Calm, K!NotifyOutcomes
<1>3. After(e, a) = a
  BY <1>1 DEF After, Standings, K!NotifyOutcomes
<1> HIDE DEF e
<1>4. (a.depth = 0) \/ (a.mode = "exclusive")
  BY DEF Calm
<1>5. Segment(n, Append1(e), a, After(e, a))
  BY <1>1, <1>2, <1>4, AppendSegment
<1> QED
  BY <1>3, <1>5 DEF e

\* The hub's lock says nothing of the log.
LEMMA GuardedSegment ==
  ASSUME NEW n, NEW w, NEW a \in Standings, NEW b \in Standings, Segment(n, w, a, b)
  PROVE  Segment(n, Guarded(w), a, b)
<1>1. Moves(n, [do |-> "hub"], a, a) /\ Moves(n, [do |-> "unhub"], b, b)
  BY DEF Moves
<1>2. Segment(n, Do("hub"), a, a) /\ Segment(n, Do("unhub"), b, b)
  BY <1>1, DoSegment
<1>3. Segment(n, Do("hub") \o w, a, b)
  BY <1>2, JoinSegments
<1> QED
  BY <1>2, <1>3, JoinSegments DEF Guarded

\* An escalation goes, for a call that has not escalated, from a calm standing to
\* the same one with the page behind it; and so does a send.
LEMMA EscalateSegment ==
  ASSUME NEW n, NEW q \in AllQueues, NEW a \in Standings, Calm(a), a.page = "before"
  PROVE  /\ [a EXCEPT !.page = "over"] \in Standings
         /\ Segment(n, Escalate(q), a, [a EXCEPT !.page = "over"])
<1> DEFINE e == [kind |-> "escalation.raised", queue |-> q]
           x == [do |-> "page", queue |-> q]
           b == After(e, a)
           c == [a EXCEPT !.page = "over"]
<1>1. e \in Lines /\ e.kind = "escalation.raised"
  BY DEF Lines
<1>2. x \in Items /\ x.do = "page"
  BY DEF Items
<1>3. b = [a EXCEPT !.page = "raised"]
  BY DEF After, Standings, K!NotifyOutcomes
<1> HIDE DEF e, x
<1>4. b \in Standings /\ Calm(b) /\ b.page = "raised" /\ c \in Standings
      /\ c = [b EXCEPT !.page = "over"]
  <2> HIDE DEF b
  <2> QED
    BY <1>3 DEF Standings, Calm
<1>5. Segment(n, Append1(e), a, b)
  <2>1. May(n, e, a)
    BY <1>1 DEF May, Calm, K!NotifyOutcomes
  <2>2. (a.depth = 0) \/ (a.mode = "exclusive")
    BY DEF Calm
  <2> QED
    BY <1>1, <2>1, <2>2, AppendSegment
<1> HIDE DEF b, c
<1>6. Moves(n, x, b, c)
  BY <1>2, <1>4 DEF Moves
<1>7. Segment(n, <<x>>, b, c)
  BY <1>2, <1>4, <1>6, StepSegment
<1>8. Segment(n, Append1(e) \o <<x>>, a, c)
  BY <1>5, <1>7, JoinSegments
<1> QED
  BY <1>4, <1>8, GuardedSegment DEF Escalate, e, x, c

LEMMA SendSegment ==
  ASSUME NEW n, NEW q \in AllQueues, NEW a \in Standings, Calm(a), a.page = "before"
  PROVE  /\ [a EXCEPT !.page = "over"] \in Standings
         /\ Segment(n, Send(q), a, [a EXCEPT !.page = "over"])
<1> DEFINE e == [kind |-> "envelope.persisted"]
           f == [kind |-> "ack"]
           c == [a EXCEPT !.page = "over"]
<1>1. c \in Standings /\ Calm(c) /\ Segment(n, Escalate(q), a, c)
  BY EscalateSegment DEF Calm, Standings
<1>2. Segment(n, Append1(e), a, a) /\ Segment(n, Append1(f), c, c)
  <2> HIDE DEF c
  <2> QED
    BY <1>1, RecordSegment
<1> HIDE DEF e, f, c
<1>3. Segment(n, Do("handle"), a, a) /\ Segment(n, Do("handled"), c, c)
  <2>1. Moves(n, [do |-> "handle"], a, a) /\ Moves(n, [do |-> "handled"], c, c)
    BY DEF Moves
  <2> QED
    BY <1>1, <2>1, DoSegment
<1>4. Segment(n, Append1(e) \o Do("handle"), a, a)
  BY <1>2, <1>3, JoinSegments
<1>5. Segment(n, Append1(e) \o Do("handle") \o Escalate(q), a, c)
  BY <1>1, <1>4, JoinSegments
<1>6. Segment(n, Append1(e) \o Do("handle") \o Escalate(q) \o Do("handled"), a, c)
  BY <1>3, <1>5, JoinSegments
<1>7. Segment(n, Append1(e) \o Do("handle") \o Escalate(q) \o Do("handled")
                   \o Append1(f), a, c)
  BY <1>2, <1>6, JoinSegments
<1> QED
  BY <1>1, <1>7, GuardedSegment DEF Send, e, f, c

\* So does what a send whose handler raised has still to do.
LEMMA RecoverySegment ==
  ASSUME NEW n, NEW a \in Standings, Calm(a), a.page = "before"
  PROVE  /\ [a EXCEPT !.page = "over"] \in Standings
         /\ Segment(n, Recovery, a, [a EXCEPT !.page = "over"])
<1> DEFINE e == [kind |-> "dead.letter"]
           c == [a EXCEPT !.page = "over"]
<1>1. c \in Standings /\ Segment(n, Escalate(SystemError), a, c)
  BY EscalateSegment DEF AllQueues
<1>2. Segment(n, Append1(e), a, a)
  BY RecordSegment
<1> HIDE DEF e, c
<1>3. Segment(n, Do("unhub"), c, c)
  <2>1. Moves(n, [do |-> "unhub"], c, c)
    BY DEF Moves
  <2> QED
    BY <1>1, <2>1, DoSegment
<1>4. Segment(n, Append1(e) \o Escalate(SystemError), a, c)
  BY <1>1, <1>2, JoinSegments
<1> QED
  BY <1>1, <1>3, <1>4, JoinSegments DEF Recovery, e, c

\* Where a call begins, and what a caller of holding() holds while its body runs.
Fresh == [depth |-> 0, mode |-> "none", block |-> "fresh", page |-> "before"]
Held  == [depth |-> 1, mode |-> "exclusive", block |-> "fresh", page |-> "before"]

\* A call is over when it holds nothing.
Over == {b \in Standings : b.depth = 0}

LEMMA BeginsCalm ==
  /\ Fresh \in Standings /\ Fresh.depth = 0 /\ Fresh.mode = "none" /\ Fresh.block = "fresh"
  /\ Fresh.page = "before" /\ Calm(Fresh)
  /\ Held \in Standings /\ Held.depth = 1 /\ Held.mode = "exclusive" /\ Held.block = "fresh"
  /\ Held.page = "before" /\ Calm(Held)
BY DEF Fresh, Held, Standings, Calm

\* A read from nothing held.
LEMMA ReadSegment ==
  ASSUME NEW n
  PROVE  Segment(n, Read, Fresh, Fresh)
<1> DEFINE m == [depth |-> 1, mode |-> "none", block |-> "fresh", page |-> "before"]
           b == [depth |-> 1, mode |-> "shared", block |-> "fresh", page |-> "before"]
<1>1. m \in Standings /\ b \in Standings /\ Fresh \in Standings
  BY DEF Standings, Fresh
<1>2. Moves(n, [do |-> "log"], Fresh, m) /\ Moves(n, [do |-> "open to read"], m, b)
      /\ Moves(n, [do |-> "unlog"], b, Fresh)
  <2>1. [Fresh EXCEPT !.depth = @ + 1] = m /\ [m EXCEPT !.mode = "shared"] = b
    BY DEF Fresh
  <2>2. Fresh = [depth |-> b.depth - 1, mode |-> "none", block |-> b.block,
                 page |-> b.page]
    BY DEF Fresh
  <2>3. m.depth > 0 /\ (m.mode = "none") /\ b.depth > 0 /\ (b.depth = 1)
    OBVIOUS
  <2> HIDE DEF m, b
  <2> QED
    BY <2>1, <2>2, <2>3 DEF Moves
<1>3. /\ Segment(n, Do("log"), Fresh, m) /\ Segment(n, Do("open to read"), m, b)
      /\ Segment(n, Do("unlog"), b, Fresh)
  BY <1>1, <1>2, DoSegment
<1> HIDE DEF m, b
<1>4. Segment(n, Do("log") \o Do("open to read"), Fresh, b)
  BY <1>3, JoinSegments
<1> QED
  BY <1>3, <1>4, JoinSegments DEF Read

\* A block leaves nothing held.
LEMMA HoldingSegment ==
  ASSUME NEW n, NEW w, NEW c, Segment(n, w, Held, c), c.depth = 1, c.block # "half"
  PROVE  \E b \in Over : Segment(n, Holding(w), Fresh, b)
<1> DEFINE m == [depth |-> 1, mode |-> "none", block |-> "fresh", page |-> "before"]
           d == [depth |-> 0, mode |-> "none", block |-> c.block, page |-> c.page]
<1>1. c \in Standings
  BY DEF Segment
<1>2. m \in Standings /\ d \in Standings /\ Fresh \in Standings /\ Held \in Standings
  BY <1>1, BeginsCalm DEF Standings
<1>3. d.depth = 0
  BY <1>1 DEF Standings
<1>4. Moves(n, [do |-> "log"], Fresh, m) /\ Moves(n, [do |-> "open"], m, Held)
  BY DEF Moves, Fresh, Held
<1>5. Moves(n, [do |-> "unlog"], c, d)
  BY <1>1 DEF Moves, Standings
<1>6. /\ Segment(n, Do("log"), Fresh, m) /\ Segment(n, Do("open"), m, Held)
      /\ Segment(n, Do("unlog"), c, d)
  BY <1>1, <1>2, <1>4, <1>5, DoSegment
<1> HIDE DEF m, d
<1>7. Segment(n, Do("log") \o Do("open"), Fresh, Held)
  BY <1>6, JoinSegments
<1>8. Segment(n, Do("log") \o Do("open") \o w, Fresh, c)
  BY <1>7, JoinSegments
<1>9. Segment(n, Holding(w), Fresh, d)
  BY <1>6, <1>8, JoinSegments DEF Holding
<1> QED
  BY <1>2, <1>3, <1>9 DEF Over

\* The two records of a block, under holding().
LEMMA PairSegment ==
  ASSUME NEW n \in Tags
  PROVE  Segment(n, Pair(n.call), Held, [Held EXCEPT !.block = "done"])
<1> DEFINE e == [kind |-> "state", block |-> n.call]
           b == [Held EXCEPT !.block = "half"]
           c == [Held EXCEPT !.block = "done"]
<1>1. e \in Lines /\ e.kind = "state" /\ e.block = n.call
  BY DEF Lines, Tags
<1>2. /\ b \in Standings /\ b.block = "half" /\ b.mode = "exclusive"
      /\ After(e, Held) = b /\ After(e, b) = c
  BY DEF Held, Standings, After, K!NotifyOutcomes
<1> HIDE DEF e, b, c
<1>3. May(n, e, Held) /\ May(n, e, b)
  BY <1>1, <1>2, BeginsCalm DEF May, K!NotifyOutcomes
<1>4. Segment(n, Append1(e), Held, b) /\ Segment(n, Append1(e), b, c)
  BY <1>1, <1>2, <1>3, BeginsCalm, AppendSegment
<1> QED
  BY <1>4, JoinSegments DEF Pair, e, c

\* Every call goes from nothing held to nothing held.
LEMMA CallSegment ==
  ASSUME NEW kind \in {"send", "escalate", "read", "holding", "record", "send while holding"},
         NEW q \in Queues, NEW n \in Tags
  PROVE  \E b \in Over : Segment(n, Steps(kind, q, n.call), Fresh, b)
<1>1. Fresh \in Over /\ [Fresh EXCEPT !.page = "over"] \in Over /\ q \in AllQueues
  BY DEF Fresh, Standings, Over, AllQueues
<1>2. /\ [Held EXCEPT !.page = "over"].depth = 1 /\ [Held EXCEPT !.page = "over"].block # "half"
      /\ [Held EXCEPT !.block = "done"].depth = 1 /\ [Held EXCEPT !.block = "done"].block # "half"
  BY DEF Held
<1>3. CASE kind = "send"
  BY <1>1, <1>3, BeginsCalm, SendSegment DEF Steps
<1>4. CASE kind = "escalate"
  BY <1>1, <1>4, BeginsCalm, EscalateSegment DEF Steps
<1>5. CASE kind = "read"
  BY <1>1, <1>5, ReadSegment DEF Steps
<1>6. CASE kind = "holding"
  <2>1. \E b \in Over : Segment(n, Holding(Pair(n.call)), Fresh, b)
    BY <1>2, PairSegment, HoldingSegment
  <2> QED
    BY <1>6, <2>1 DEF Steps
<1>7. CASE kind = "record"
  <2>1. Segment(n, Record, Fresh, Fresh)
    BY BeginsCalm, RecordSegment DEF Record
  <2> QED
    BY <1>1, <1>7, <2>1 DEF Steps
<1>8. CASE kind = "send while holding"
  <2>1. Segment(n, Send(q), Held, [Held EXCEPT !.page = "over"])
    BY <1>1, BeginsCalm, SendSegment
  <2>2. \E b \in Over : Segment(n, Holding(Send(q)), Fresh, b)
    BY <1>2, <2>1, HoldingSegment
  <2> QED
    BY <1>8, <2>2 DEF Steps
<1> QED
  BY <1>3, <1>4, <1>5, <1>6, <1>7, <1>8

----------------------------------------------------------------------------
(* What each thread holds and has still to do *)

\* The call of t that runs, or that ran last.
Number(t) == <<t, calls[t] - 1>>
Tag(t)    == [call |-> Number(t), raised |-> raised[t], told |-> raised[t] \in reached,
              lost |-> raised[t] \in lost]

Typed ==
  /\ work \in [Threads -> Seq(Items)]
  /\ logLock \in [Procs -> [by : Threads \cup {"nobody"}, depth : Nat]]
  /\ file \in [Procs -> {"none", "shared", "exclusive"}]
  /\ log \in Seq(Lines)
  /\ raised \in [Threads -> Nat]
  /\ calls \in [Threads -> Nat]

\* The standing a is what the locks say of t.
Locked(t, a) ==
  /\ (a.depth > 0) => /\ logLock[Home[t]] = [by |-> t, depth |-> a.depth]
                      /\ file[Home[t]] = a.mode
  /\ (a.depth = 0) => logLock[Home[t]].by # t

\* It is what the log says of t's block: none of it, or its first record as the
\* last line.
Written(t, a) ==
  /\ (a.block = "fresh") => \A i \in DOMAIN log : log[i].kind = "state" => log[i].block # Number(t)
  /\ (a.block = "half") => /\ Len(log) > 0
                           /\ log[Len(log)].kind = "state" /\ log[Len(log)].block = Number(t)

\* It is what is known of t's escalation: before its outcome nothing answers it,
\* and before its page nobody was told.
Asked(t, a) ==
  /\ (a.page \in {"raised", "paged"}) => raised[t] # 0 /\ raised[t] \notin DOMAIN answered
  /\ (a.page = "raised") => raised[t] \notin reached

Knows(t, a) == Written(t, a) /\ Asked(t, a)

\* What t has still to do leads from where it stands to nothing held.
OnCourse(t) ==
  \E a \in Standings, b \in Over :
    Segment(Tag(t), work[t], a, b) /\ Locked(t, a) /\ Knows(t, a)

\* A free lock holds no file, and a file held for writing is held once.
LocksInv ==
  /\ \A p \in Procs : logLock[p].by = "nobody" => logLock[p] = Nobody /\ file[p] = "none"
  /\ \A p, q \in Procs : p # q /\ file[p] = "exclusive" => file[q] = "none"

\* A block on the log belongs to a call that has begun.
Begun(n) == n[1] \in Threads /\ n[2] < calls[n[1]]
BegunInv == \A i \in DOMAIN log : log[i].kind = "state" => Begun(log[i].block)

\* No two threads page about one escalation, an outcome on the log is the one its
\* escalation was answered with, and a failed one reached a person only if that was
\* lost.
Raised == {i \in DOMAIN log : log[i].kind = "escalation.raised"}
PagesInv ==
  /\ \A t \in Threads : raised[t] # 0 => raised[t] \in Raised
  /\ \A t, u \in Threads : t # u /\ raised[t] # 0 => raised[t] # raised[u]
  /\ \A i \in DOMAIN log : log[i].kind \in K!NotifyOutcomes =>
       /\ log[i].raised \in DOMAIN answered /\ answered[log[i].raised] = i
       /\ log[i].kind = "human.notified" /\ log[i].transport # "not reported" =>
            log[i].raised \in reached
       /\ log[i].kind = "human.notify_failed" /\ log[i].raised \in reached => log[i].raised \in lost
  /\ \A r \in DOMAIN answered :
       /\ r \in Raised /\ answered[r] \in DOMAIN log /\ r < answered[r]
       /\ log[answered[r]].kind \in K!NotifyOutcomes /\ log[answered[r]].raised = r
  /\ reached \subseteq Raised

CallInv ==
  /\ Typed /\ LocksInv /\ BegunInv /\ HoldingApart /\ PagesInv
  /\ \A t \in Threads : OnCourse(t)

----------------------------------------------------------------------------
(* One step of one thread *)

\* The step at the head of a call takes its thread from its standing to the
\* next, and the rest of the call leads on from there.
LEMMA StepOn ==
  ASSUME CallInv, NEW t \in Threads, work[t] # <<>>
  PROVE  \E a, b \in Standings, c \in Over :
           /\ Locked(t, a) /\ Knows(t, a)
           /\ Moves(Tag(t), Head(work[t]), a, b)
           /\ Segment(Tag(t), Tail(work[t]), b, c)
<1>1. PICK a \in Standings, c \in Over :
        Segment(Tag(t), work[t], a, c) /\ Locked(t, a) /\ Knows(t, a)
  BY DEF CallInv, OnCourse
<1>2. PICK b \in Standings :
        Moves(Tag(t), Head(work[t]), a, b) /\ Segment(Tag(t), Tail(work[t]), b, c)
  BY <1>1, SplitSegment
<1> QED
  BY <1>1, <1>2

\* What a step of t leaves of the locks of the other threads.
Frame(t) ==
  \/ logLock' = logLock /\ file' = file
  \/ /\ logLock[Home[t]].by \in {"nobody", t} /\ logLock'[Home[t]].by \in {"nobody", t}
     /\ \A p \in Procs : p # Home[t] => logLock'[p] = logLock[p] /\ file'[p] = file[p]

LEMMA OthersLocked ==
  ASSUME Typed, NEW t \in Threads, NEW u \in Threads, u # t, Frame(t),
         NEW a \in Standings, Locked(u, a)
  PROVE  Locked(u, a)'
<1>1. Home[t] \in Procs /\ Home[u] \in Procs /\ u # "nobody"
  BY TurnsAssumption
<1>2. CASE logLock' = logLock /\ file' = file
  BY <1>2 DEF Locked
<1>3. CASE Home[u] # Home[t] /\ ~(logLock' = logLock /\ file' = file)
  BY <1>1, <1>3 DEF Locked, Frame
<1>4. CASE Home[u] = Home[t] /\ ~(logLock' = logLock /\ file' = file)
  <2>1. logLock[Home[u]].by # u /\ logLock'[Home[u]].by # u
    BY <1>1, <1>4 DEF Frame
  <2>2. ~(a.depth > 0)
    BY <2>1 DEF Locked
  <2> QED
    BY <2>1, <2>2 DEF Locked
<1> QED
  BY <1>2, <1>3, <1>4

\* Every thread has a tag.
LEMMA TagTyped ==
  ASSUME Typed, NEW t \in Threads
  PROVE  Tag(t) \in Tags
<1>1. Number(t) \in Threads \X Int
  <2>1. calls[t] - 1 \in Int
    BY DEF Typed
  <2> QED
    BY <2>1 DEF Number
<1>2. raised[t] \in Nat
  BY DEF Typed
<1> QED
  BY <1>1, <1>2 DEF Tag, Tags

\* A step of t that writes no line keeps the invariant, if its call goes on as
\* a segment from where the locks then say it stands.
LEMMA QuietStep ==
  ASSUME CallInv, NEW t \in Threads, NEW w, work' = [work EXCEPT ![t] = w],
         NEW b \in Standings, NEW c \in Over,
         Segment(Tag(t)', w, b, c), Locked(t, b)', Knows(t, b)',
         Frame(t), LocksInv',
         logLock' \in [Procs -> [by : Threads \cup {"nobody"}, depth : Nat]],
         file' \in [Procs -> {"none", "shared", "exclusive"}],
         log' = log, raised' = raised, calls' = calls, answered' = answered,
         \/ reached' = reached /\ lost' = lost
         \/ /\ raised[t] # 0 /\ raised[t] \notin DOMAIN answered
            /\ reached' \in {reached, reached \cup {raised[t]}}
            /\ lost' \in {lost, lost \cup {raised[t]}}
  PROVE  CallInv'
<1>1. Typed'
  <2>1. w \in Seq(Items)
    BY DEF Segment
  <2> QED
    BY <2>1 DEF CallInv, Typed
<1>2. BegunInv' /\ HoldingApart' /\ Raised' = Raised
  BY DEF CallInv, BegunInv, Begun, HoldingApart, Raised
<1>3. \A r : r # raised[t] \/ r \in DOMAIN answered =>
        (r \in reached' <=> r \in reached) /\ (r \in lost' <=> r \in lost)
  OBVIOUS
<1>4. PagesInv'
  <2>1. \A u \in Threads : raised[u] # 0 => raised[u] \in Raised
    BY DEF CallInv, PagesInv
  <2>2. \A u, v \in Threads : u # v /\ raised[u] # 0 => raised[u] # raised[v]
    BY DEF CallInv, PagesInv
  <2>3. ASSUME NEW i \in DOMAIN log, log[i].kind \in K!NotifyOutcomes
        PROVE  /\ log[i].raised \in DOMAIN answered /\ answered[log[i].raised] = i
               /\ log[i].kind = "human.notified" /\ log[i].transport # "not reported" =>
                    log[i].raised \in reached'
               /\ log[i].kind = "human.notify_failed" /\ log[i].raised \in reached' => log[i].raised \in lost'
    <3>1. /\ log[i].raised \in DOMAIN answered /\ answered[log[i].raised] = i
          /\ log[i].kind = "human.notified" /\ log[i].transport # "not reported" =>
               log[i].raised \in reached
          /\ log[i].kind = "human.notify_failed" /\ log[i].raised \in reached => log[i].raised \in lost
      BY <2>3 DEF CallInv, PagesInv
    <3>2. /\ log[i].raised \in reached' <=> log[i].raised \in reached
          /\ log[i].raised \in lost' <=> log[i].raised \in lost
      BY <1>3, <3>1
    <3> QED
      BY <3>1, <3>2
  <2>4. \A r \in DOMAIN answered :
          /\ r \in Raised /\ answered[r] \in DOMAIN log /\ r < answered[r]
          /\ log[answered[r]].kind \in K!NotifyOutcomes /\ log[answered[r]].raised = r
    BY DEF CallInv, PagesInv
  <2>5. reached' \subseteq Raised
    <3>1. reached \subseteq Raised
      BY DEF CallInv, PagesInv
    <3>2. reached' = reached \/ (raised[t] # 0 /\ reached' = reached \cup {raised[t]})
      OBVIOUS
    <3> QED
      BY <2>1, <3>1, <3>2
  <2> QED
    BY <1>2, <2>1, <2>2, <2>3, <2>4, <2>5 DEF PagesInv
<1>5. ASSUME NEW u \in Threads PROVE OnCourse(u)'
  <2>1. CASE u = t
    <3>1. work'[u] = w
      BY <2>1 DEF CallInv, Typed
    <3> QED
      BY <2>1, <3>1 DEF OnCourse
  <2>2. CASE u # t
    <3>1. work'[u] = work[u] /\ Number(u)' = Number(u)
      BY <2>2 DEF CallInv, Typed, Number
    <3>2. PICK a \in Standings, d \in Over :
            Segment(Tag(u), work[u], a, d) /\ Locked(u, a) /\ Knows(u, a)
      BY DEF CallInv, OnCourse
    <3>3. Locked(u, a)'
      BY <2>2, <3>2, OthersLocked DEF CallInv
    <3>4. (raised[u] \in reached' <=> raised[u] \in reached) /\ (raised[u] \in lost' <=> raised[u] \in lost)
      <4>1. raised[t] # 0 => raised[t] # raised[u]
        BY <2>2 DEF CallInv, PagesInv
      <4> QED
        BY <1>3, <4>1
    <3>5. Tag(u)' = Tag(u)
      BY <3>1, <3>4 DEF Tag
    <3>6. Knows(u, a)'
      <4>1. Written(u, a) /\ Asked(u, a)
        BY <3>2 DEF Knows
      <4>2. Written(u, a)'
        BY <3>1, <4>1 DEF Written
      <4>3. Asked(u, a)'
        BY <3>4, <4>1 DEF Asked
      <4> QED
        BY <4>2, <4>3 DEF Knows
    <3> QED
      BY <3>1, <3>2, <3>3, <3>5, <3>6 DEF OnCourse
  <2> QED
    BY <2>1, <2>2
<1> QED
  BY <1>1, <1>2, <1>4, <1>5 DEF CallInv

\* A step of t that writes no line and pages nobody keeps what is known of t.
LEMMA KnowsOn ==
  ASSUME NEW t, NEW a, NEW b, Knows(t, a),
         b.block = a.block, b.page = a.page \/ b.page = "before",
         log' = log, raised' = raised, calls' = calls, answered' = answered, reached' = reached,
         lost' = lost
  PROVE  Knows(t, b)' /\ Tag(t)' = Tag(t)
<1>1. Number(t)' = Number(t)
  BY DEF Number
<1>2. Tag(t)' = Tag(t)
  BY <1>1 DEF Tag
<1>3. Written(t, b)'
  BY <1>1 DEF Knows, Written
<1>4. Asked(t, b)'
  BY DEF Knows, Asked
<1> QED
  BY <1>2, <1>3, <1>4 DEF Knows

\* The types a step needs of what it reads.
LEMMA Reads ==
  ASSUME CallInv, NEW t \in Threads
  PROVE  /\ Home[t] \in Procs /\ t # "nobody"
         /\ work[t] \in Seq(Items)
         /\ logLock[Home[t]].by \in Threads \cup {"nobody"} /\ logLock[Home[t]].depth \in Nat
         /\ file[Home[t]] \in {"none", "shared", "exclusive"}
<1>1. Home[t] \in Procs /\ t # "nobody"
  BY TurnsAssumption
<1>2. logLock[Home[t]] \in [by : Threads \cup {"nobody"}, depth : Nat]
  BY <1>1 DEF CallInv, Typed
<1> QED
  BY <1>1, <1>2 DEF CallInv, Typed

LEMMA FirstItem ==
  ASSUME CallInv, NEW t \in Threads, work[t] # <<>>
  PROVE  Head(work[t]) \in Items
<1>1. \A w \in Seq(Items) : w # <<>> => Head(w) \in Items
  OBVIOUS
<1> QED
  BY <1>1, Reads

\* A call begins.
LEMMA BeginHolds ==
  ASSUME CallInv, NEW t \in Threads, Begin(t)
  PROVE  CallInv'
<1>1. PICK kind \in Calls[t], q \in Queues :
        work' = [work EXCEPT ![t] = Steps(kind, q, <<t, calls[t]>>)]
  BY DEF Begin
<1> DEFINE n == <<t, calls[t]>>
           w == Steps(kind, q, n)
<1>2. /\ work[t] = <<>> /\ calls' = [calls EXCEPT ![t] = @ + 1]
      /\ raised' = [raised EXCEPT ![t] = 0]
      /\ answered' = answered /\ reached' = reached /\ lost' = lost
      /\ logLock' = logLock /\ file' = file /\ log' = log
  BY DEF Begin, locks, history
<1>3. kind \in {"send", "escalate", "read", "holding", "record", "send while holding"}
  <2>1. Calls[t] \subseteq {"send", "escalate", "read", "holding", "record", "send while holding"}
    BY TurnsAssumption
  <2> QED
    BY <2>1
<1>4. /\ \A u \in Threads : calls'[u] = IF u = t THEN calls[t] + 1 ELSE calls[u]
      /\ \A u \in Threads : raised'[u] = IF u = t THEN 0 ELSE raised[u]
      /\ \A u \in Threads : calls[u] \in Nat /\ calls'[u] \in Nat /\ calls'[u] >= calls[u]
  <2>1. \A u \in Threads : calls'[u] = IF u = t THEN calls[t] + 1 ELSE calls[u]
    BY <1>2 DEF CallInv, Typed
  <2>2. \A u \in Threads : raised'[u] = IF u = t THEN 0 ELSE raised[u]
    BY <1>2 DEF CallInv, Typed
  <2>3. \A u \in Threads : calls[u] \in Nat
    BY DEF CallInv, Typed
  <2> QED
    BY <2>1, <2>2, <2>3
<1>5. Number(t)' = n /\ Tag(t)' \in Tags /\ Tag(t)'.call = n
  <2>1. Number(t)' = n
    BY <1>4 DEF Number
  <2>2. n \in Threads \X Int
    BY <1>4
  <2>3. raised'[t] \in Nat
    BY <1>4
  <2> HIDE DEF n
  <2> QED
    BY <2>1, <2>2, <2>3 DEF Tag, Tags
<1>6. PICK b \in Over : Segment(Tag(t)', w, Fresh, b)
  BY <1>3, <1>5, CallSegment
<1> HIDE DEF w
<1>7. Typed'
  <2>1. w \in Seq(Items)
    BY <1>6 DEF Segment
  <2> QED
    BY <1>1, <1>2, <2>1 DEF CallInv, Typed, w
<1>8. LocksInv' /\ HoldingApart' /\ Raised' = Raised
  BY <1>2 DEF CallInv, LocksInv, HoldingApart, Raised
<1>9. BegunInv'
  <2>1. ASSUME NEW m \in Threads \X Int, Begun(m) PROVE Begun(m)'
    <3>1. m[1] \in Threads /\ m[2] \in Int /\ m[2] < calls[m[1]]
      BY <2>1 DEF Begun
    <3> QED
      BY <1>4, <3>1 DEF Begun
  <2>2. ASSUME NEW i \in DOMAIN log PROVE log[i] \in Lines
    BY DEF CallInv, Typed
  <2>3. ASSUME NEW i \in DOMAIN log
        PROVE  log[i].kind = "state" => log[i].block \in Threads \X Int
    BY <2>2 DEF Lines
  <2> QED
    BY <1>2, <2>1, <2>3 DEF CallInv, BegunInv
<1>10. PagesInv'
  <2>1. /\ \A u \in Threads : raised[u] # 0 => raised[u] \in Raised
        /\ \A u, v \in Threads : u # v /\ raised[u] # 0 => raised[u] # raised[v]
    BY DEF CallInv, PagesInv
  <2>2. /\ \A u \in Threads : raised'[u] # 0 => raised'[u] \in Raised
        /\ \A u, v \in Threads : u # v /\ raised'[u] # 0 => raised'[u] # raised'[v]
    BY <1>4, <2>1
  <2> QED
    BY <1>2, <1>8, <2>2 DEF CallInv, PagesInv
<1>11. ASSUME NEW u \in Threads PROVE OnCourse(u)'
  <2>1. CASE u = t
    <3>1. work'[t] = w
      BY <1>1 DEF CallInv, Typed, w
    <3>2. Locked(t, Fresh)'
      <4>1. PICK a \in Standings, d \in Over :
              Segment(Tag(t), work[t], a, d) /\ Locked(t, a)
        BY DEF CallInv, OnCourse
      <4>2. a = d
        BY <1>2, <4>1, EmptyStays
      <4>3. logLock[Home[t]].by # t
        BY <4>1, <4>2 DEF Locked, Over
      <4> QED
        BY <1>2, <4>3, BeginsCalm DEF Locked
    <3>3. \A m : Begun(m) => m # n
      <4>1. n[1] = t /\ n[2] = calls[t]
        OBVIOUS
      <4> HIDE DEF n
      <4> QED
        BY <1>4, <4>1 DEF Begun
    <3> HIDE DEF n
    <3>4. Written(t, Fresh)'
      BY <1>2, <1>5, <3>3, BeginsCalm DEF Written, CallInv, BegunInv
    <3>5. Asked(t, Fresh)'
      BY BeginsCalm DEF Asked
    <3> QED
      BY <1>6, <2>1, <3>1, <3>2, <3>4, <3>5, BeginsCalm DEF OnCourse, Knows
  <2>2. CASE u # t
    <3>1. work'[u] = work[u] /\ calls'[u] = calls[u] /\ raised'[u] = raised[u]
      BY <1>1, <1>4, <2>2 DEF CallInv, Typed
    <3>2. Number(u)' = Number(u) /\ Tag(u)' = Tag(u)
      BY <1>2, <3>1 DEF Number, Tag
    <3>3. PICK a \in Standings, d \in Over :
            Segment(Tag(u), work[u], a, d) /\ Locked(u, a) /\ Knows(u, a)
      BY DEF CallInv, OnCourse
    <3>4. Locked(u, a)' /\ Written(u, a)'
      BY <1>2, <3>2, <3>3 DEF Locked, Written, Knows
    <3>5. Asked(u, a)'
      BY <1>2, <3>1, <3>2, <3>3 DEF Asked, Knows
    <3> QED
      BY <3>1, <3>2, <3>3, <3>4, <3>5 DEF OnCourse, Knows
  <2> QED
    BY <2>1, <2>2
<1> QED
  BY <1>7, <1>8, <1>9, <1>10, <1>11 DEF CallInv

\* The hub's lock is taken and given back, a handler returns: the log is not
\* touched.
LEMMA HubStepHolds ==
  ASSUME CallInv, NEW t \in Threads, TakeHub(t) \/ Handler(t) \/ LeaveHub(t)
  PROVE  CallInv'
<1>1. /\ work[t] # <<>> /\ Head(work[t]).do \in {"hub", "handle", "handled", "unhub"}
      /\ work' = [work EXCEPT ![t] = Tail(work[t])]
      /\ logLock' = logLock /\ file' = file /\ log' = log /\ raised' = raised /\ calls' = calls
      /\ answered' = answered /\ reached' = reached /\ lost' = lost
  BY DEF TakeHub, Handler, LeaveHub, At, Goes, locks, history
<1>2. PICK a, b \in Standings, c \in Over :
        /\ Locked(t, a) /\ Knows(t, a)
        /\ Moves(Tag(t), Head(work[t]), a, b)
        /\ Segment(Tag(t), Tail(work[t]), b, c)
  BY <1>1, StepOn
<1>3. b = a
  BY <1>1, <1>2 DEF Moves
<1>4. Locked(t, b)' /\ Frame(t)
  BY <1>1, <1>2, <1>3 DEF Locked, Frame
<1>5. LocksInv'
  BY <1>1 DEF CallInv, LocksInv
<1>6. /\ logLock' \in [Procs -> [by : Threads \cup {"nobody"}, depth : Nat]]
      /\ file' \in [Procs -> {"none", "shared", "exclusive"}]
  BY <1>1 DEF CallInv, Typed
<1>7. Knows(t, b)' /\ Tag(t)' = Tag(t)
  BY <1>1, <1>2, <1>3, KnowsOn
<1> QED
  BY <1>1, <1>2, <1>4, <1>5, <1>6, <1>7, QuietStep

\* The log's lock of a process is taken, once more or for the first time.
LEMMA TakeLogHolds ==
  ASSUME CallInv, NEW t \in Threads, TakeLog(t)
  PROVE  CallInv'
<1>1. /\ work[t] # <<>> /\ Head(work[t]).do = "log" /\ logLock[Home[t]].by \in {"nobody", t}
      /\ work' = [work EXCEPT ![t] = Tail(work[t])]
      /\ file' = file /\ log' = log /\ raised' = raised /\ calls' = calls
      /\ answered' = answered /\ reached' = reached /\ lost' = lost
  BY DEF TakeLog, At, Goes, Free, history
<1>2. PICK a, b \in Standings, c \in Over :
        /\ Locked(t, a) /\ Knows(t, a)
        /\ Moves(Tag(t), Head(work[t]), a, b)
        /\ Segment(Tag(t), Tail(work[t]), b, c)
  BY <1>1, StepOn
<1>3. /\ b = [a EXCEPT !.depth = @ + 1]
      /\ b.depth = a.depth + 1 /\ b.mode = a.mode
      /\ b.block = a.block /\ b.page = a.page
      /\ a.depth \in Nat /\ ((a.depth = 0) => (a.mode = "none"))
  BY <1>1, <1>2 DEF Moves, Standings
<1>4. /\ logLock' = [logLock EXCEPT ![Home[t]] = [by |-> t, depth |-> logLock[Home[t]].depth + 1]]
      /\ logLock' \in [Procs -> [by : Threads \cup {"nobody"}, depth : Nat]]
      /\ \A p \in Procs : logLock'[p] = IF p = Home[t]
                            THEN [by |-> t, depth |-> logLock[Home[t]].depth + 1] ELSE logLock[p]
  <2> DEFINE l == [by |-> t, depth |-> logLock[Home[t]].depth + 1]
  <2>1. l \in [by : Threads \cup {"nobody"}, depth : Nat]
    <3>1. logLock[Home[t]].depth + 1 \in Nat
      BY Reads
    <3> QED
      BY <3>1
  <2>2. logLock' = [logLock EXCEPT ![Home[t]] = l]
    BY DEF TakeLog, Takes
  <2>3. logLock \in [Procs -> [by : Threads \cup {"nobody"}, depth : Nat]] /\ Home[t] \in Procs
    BY Reads DEF CallInv, Typed
  <2> HIDE DEF l
  <2> QED
    BY <2>1, <2>2, <2>3 DEF l
<1>5. a.depth = logLock[Home[t]].depth /\ file[Home[t]] = a.mode
  <2>1. CASE a.depth = 0
    <3>1. logLock[Home[t]].by = "nobody"
      BY <1>1, <1>2, <2>1 DEF Locked
    <3>2. logLock[Home[t]] = Nobody /\ file[Home[t]] = "none"
      BY <3>1, Reads DEF CallInv, LocksInv
    <3> QED
      BY <1>3, <2>1, <3>2 DEF Nobody
  <2>2. CASE a.depth > 0
    BY <1>2, <2>2 DEF Locked
  <2> QED
    BY <1>3, <2>1, <2>2
<1>6. Locked(t, b)'
  <2>1. logLock'[Home[t]] = [by |-> t, depth |-> b.depth] /\ file'[Home[t]] = b.mode
    BY <1>1, <1>3, <1>4, <1>5, Reads
  <2>2. b.depth > 0
    BY <1>3
  <2> QED
    BY <2>1, <2>2 DEF Locked
<1>7. Knows(t, b)' /\ Tag(t)' = Tag(t)
  BY <1>1, <1>2, <1>3, KnowsOn
<1>8. Frame(t)
  BY <1>1, <1>4, Reads DEF Frame
<1>9. LocksInv'
  <2>1. \A p \in Procs : logLock'[p].by = "nobody" => logLock'[p] = logLock[p]
    BY <1>4, Reads
  <2> QED
    BY <1>1, <2>1 DEF CallInv, LocksInv
<1>10. file' \in [Procs -> {"none", "shared", "exclusive"}]
  BY <1>1 DEF CallInv, Typed
<1>11. Segment(Tag(t)', Tail(work[t]), b, c)
  BY <1>2, <1>7
<1> QED
  BY <1>1, <1>4, <1>6, <1>7, <1>8, <1>9, <1>10, <1>11, QuietStep

\* The file is opened, for writing by nobody else, or is open already.
LEMMA OpenFileHolds ==
  ASSUME CallInv, NEW t \in Threads, OpenFile(t)
  PROVE  CallInv'
<1>1. /\ work[t] # <<>> /\ Head(work[t]).do \in {"open", "open to read"}
      /\ work' = [work EXCEPT ![t] = Tail(work[t])]
      /\ logLock' = logLock /\ log' = log /\ raised' = raised /\ calls' = calls
      /\ answered' = answered /\ reached' = reached /\ lost' = lost
  BY DEF OpenFile, At, Goes, history
<1>2. PICK a, b \in Standings, c \in Over :
        /\ Locked(t, a) /\ Knows(t, a)
        /\ Moves(Tag(t), Head(work[t]), a, b)
        /\ Segment(Tag(t), Tail(work[t]), b, c)
  BY <1>1, StepOn
<1>3. /\ a.depth > 0 /\ b.depth = a.depth
      /\ b.block = a.block /\ b.page = a.page
      /\ b.mode = IF Head(work[t]).do = "open" THEN "exclusive"
                  ELSE IF a.mode = "none" THEN "shared" ELSE a.mode
      /\ (Head(work[t]).do = "open") => (a.mode # "shared")
  BY <1>1, <1>2 DEF Moves, Standings
<1>4. /\ logLock[Home[t]] = [by |-> t, depth |-> a.depth] /\ logLock[Home[t]].by = t
      /\ file[Home[t]] = a.mode
  BY <1>2, <1>3 DEF Locked
<1>5. ModeOf(t) = IF Head(work[t]).do = "open" THEN "exclusive" ELSE "shared"
  BY <1>1 DEF ModeOf, At
<1>6. \/ file[Home[t]] # "none" /\ file' = file
      \/ /\ file[Home[t]] = "none" /\ ~Barred(t, ModeOf(t))
         /\ file' = [file EXCEPT ![Home[t]] = ModeOf(t)]
  BY DEF OpenFile
<1>7. /\ file' \in [Procs -> {"none", "shared", "exclusive"}]
      /\ file'[Home[t]] = b.mode
      /\ \A p \in Procs : p # Home[t] => file'[p] = file[p]
  <2>1. a.mode \in {"none", "shared", "exclusive"}
    BY DEF Standings
  <2>2. CASE file[Home[t]] # "none" /\ file' = file
    BY <1>3, <1>4, <2>1, <2>2, Reads DEF CallInv, Typed
  <2>3. CASE file[Home[t]] = "none" /\ file' = [file EXCEPT ![Home[t]] = ModeOf(t)]
    BY <1>3, <1>4, <1>5, <2>3, Reads DEF CallInv, Typed
  <2> QED
    BY <1>6, <2>2, <2>3
<1>8. Locked(t, b)'
  <2>1. logLock'[Home[t]] = [by |-> t, depth |-> b.depth] /\ file'[Home[t]] = b.mode
    BY <1>1, <1>3, <1>4, <1>7
  <2>2. b.depth > 0
    BY <1>3
  <2> QED
    BY <2>1, <2>2 DEF Locked
<1>9. Knows(t, b)' /\ Tag(t)' = Tag(t)
  BY <1>1, <1>2, <1>3, KnowsOn
<1>10. Frame(t)
  BY <1>1, <1>4, <1>7 DEF Frame
<1>11. LocksInv'
  <2>1. ASSUME NEW p \in Procs, logLock'[p].by = "nobody"
        PROVE  logLock'[p] = Nobody /\ file'[p] = "none"
    <3>1. p # Home[t]
      BY <1>1, <1>4, <2>1, Reads
    <3> QED
      BY <1>1, <1>7, <2>1, <3>1 DEF CallInv, LocksInv
  <2>2. ASSUME NEW p \in Procs, NEW q \in Procs, p # q, file'[p] = "exclusive"
        PROVE  file'[q] = "none"
    <3>1. CASE file' = file
      BY <2>2, <3>1 DEF CallInv, LocksInv
    <3>2. CASE /\ file[Home[t]] = "none" /\ ~Barred(t, ModeOf(t))
               /\ file' = [file EXCEPT ![Home[t]] = ModeOf(t)]
      <4>1. file'[Home[t]] = ModeOf(t)
        BY <3>2, Reads DEF CallInv, Typed
      <4>2. CASE p = Home[t]
        <5>1. ModeOf(t) = "exclusive"
          BY <2>2, <4>1, <4>2
        <5>2. file[q] = "none"
          BY <2>2, <3>2, <4>2, <5>1 DEF Barred
        <5> QED
          BY <1>7, <2>2, <4>2, <5>2
      <4>3. CASE p # Home[t]
        <5>1. file[p] = "exclusive"
          BY <1>7, <2>2, <4>3
        <5>2. FALSE
          BY <3>2, <4>3, <5>1 DEF Barred
        <5> QED
          BY <5>2
      <4> QED
        BY <4>2, <4>3
    <3> QED
      BY <1>6, <3>1, <3>2
  <2> QED
    BY <2>1, <2>2 DEF LocksInv
<1>12. logLock' \in [Procs -> [by : Threads \cup {"nobody"}, depth : Nat]]
  BY <1>1 DEF CallInv, Typed
<1>13. Segment(Tag(t)', Tail(work[t]), b, c)
  BY <1>2, <1>9
<1> QED
  BY <1>1, <1>7, <1>8, <1>9, <1>10, <1>11, <1>12, <1>13, QuietStep

\* A refused call holds nothing of the log: it was refused before it held the file,
\* so its block cannot be half written.  It is over, or its send raises the alarm.
LEMMA BusyHolds ==
  ASSUME CallInv, NEW t \in Threads, Busy(t) \/ BusyInHandler(t)
  PROVE  CallInv'
<1>1. /\ work[t] # <<>> /\ Head(work[t]).do \in {"open", "open to read"}
      /\ file[Home[t]] = "none"
      /\ logLock' = [logLock EXCEPT ![Home[t]] = Nobody]
      /\ file' = file /\ log' = log /\ raised' = raised /\ calls' = calls
      /\ answered' = answered /\ reached' = reached /\ lost' = lost
  BY DEF Busy, BusyInHandler, Refused, At, history
<1>2. PICK a, b \in Standings, c \in Over :
        /\ Locked(t, a) /\ Knows(t, a)
        /\ Moves(Tag(t), Head(work[t]), a, b)
        /\ Segment(Tag(t), Tail(work[t]), b, c)
  BY <1>1, StepOn
<1>3. a.depth > 0
  BY <1>1, <1>2 DEF Moves
<1>4. logLock[Home[t]].by = t /\ a.mode = "none"
  <2>1. logLock[Home[t]] = [by |-> t, depth |-> a.depth]
    BY <1>2, <1>3 DEF Locked
  <2>2. file[Home[t]] = a.mode
    BY <1>2, <1>3 DEF Locked
  <2>3. logLock[Home[t]].by = t
    BY <2>1
  <2> QED
    BY <1>1, <2>2, <2>3
<1> DEFINE d == [depth |-> 0, mode |-> "none", block |-> a.block, page |-> "before"]
<1>5. d.depth = 0 /\ d.block = a.block /\ d.page = "before"
  OBVIOUS
<1>6. d \in Standings /\ d \in Over /\ Calm(d)
  <2>1. a.block # "half"
    BY <1>4 DEF Standings
  <2>2. d \in Standings
    BY <2>1 DEF Standings
  <2> QED
    BY <1>5, <2>1, <2>2 DEF Over, Calm
<1> HIDE DEF d
<1>7. PICK w \in {<<>>, Recovery}, e \in Over :
        work' = [work EXCEPT ![t] = w] /\ Segment(Tag(t), w, d, e)
  <2>1. CASE Busy(t)
    BY <1>6, <2>1, EmptySegment DEF Busy
  <2>2. CASE BusyInHandler(t)
    <3> DEFINE f == [d EXCEPT !.page = "over"]
    <3>1. f \in Standings /\ Segment(Tag(t), Recovery, d, f)
      <4> HIDE DEF f
      <4> QED
        BY <1>5, <1>6, RecoverySegment DEF f
    <3>2. f.depth = 0
      BY <1>5, <1>6 DEF Standings
    <3>3. work' = [work EXCEPT ![t] = Recovery]
      BY <2>2 DEF BusyInHandler
    <3> HIDE DEF f
    <3> QED
      BY <3>1, <3>2, <3>3 DEF Over
  <2> QED
    BY <2>1, <2>2
<1>8. /\ \A p \in Procs : logLock'[p] = IF p = Home[t] THEN Nobody ELSE logLock[p]
      /\ logLock' \in [Procs -> [by : Threads \cup {"nobody"}, depth : Nat]]
  <2>1. Nobody \in [by : Threads \cup {"nobody"}, depth : Nat]
    BY DEF Nobody
  <2>2. logLock \in [Procs -> [by : Threads \cup {"nobody"}, depth : Nat]] /\ Home[t] \in Procs
    BY Reads DEF CallInv, Typed
  <2> HIDE DEF Nobody
  <2> QED
    BY <1>1, <2>1, <2>2
<1>9. logLock'[Home[t]].by = "nobody"
  BY <1>8, Reads DEF Nobody
<1>10. Locked(t, d)'
  BY <1>5, <1>9, Reads DEF Locked
<1>11. Knows(t, d)' /\ Tag(t)' = Tag(t)
  BY <1>1, <1>2, <1>5, KnowsOn
<1>12. Frame(t)
  BY <1>1, <1>4, <1>8, <1>9 DEF Frame
<1>13. LocksInv'
  <2>1. ASSUME NEW p \in Procs, logLock'[p].by = "nobody"
        PROVE  logLock'[p] = Nobody /\ file'[p] = "none"
    <3>1. CASE p = Home[t]
      BY <1>1, <1>8, <3>1
    <3>2. CASE p # Home[t]
      BY <1>1, <1>8, <2>1, <3>2 DEF CallInv, LocksInv
    <3> QED
      BY <3>1, <3>2
  <2> QED
    BY <1>1, <2>1 DEF CallInv, LocksInv
<1>14. file' \in [Procs -> {"none", "shared", "exclusive"}]
  BY <1>1 DEF CallInv, Typed
<1>15. Segment(Tag(t)', w, d, e)
  BY <1>7, <1>11
<1> QED
  BY <1>1, <1>6, <1>7, <1>8, <1>10, <1>11, <1>12, <1>13, <1>14, <1>15, QuietStep

\* Only the outermost block gives the file back.
LEMMA LeaveLogHolds ==
  ASSUME CallInv, NEW t \in Threads, LeaveLog(t)
  PROVE  CallInv'
<1>1. /\ work[t] # <<>> /\ Head(work[t]).do = "unlog"
      /\ work' = [work EXCEPT ![t] = Tail(work[t])]
      /\ log' = log /\ raised' = raised /\ calls' = calls
      /\ answered' = answered /\ reached' = reached /\ lost' = lost
  BY DEF LeaveLog, At, Goes, history
<1>2. PICK a, b \in Standings, c \in Over :
        /\ Locked(t, a) /\ Knows(t, a)
        /\ Moves(Tag(t), Head(work[t]), a, b)
        /\ Segment(Tag(t), Tail(work[t]), b, c)
  BY <1>1, StepOn
<1>3. /\ a.depth > 0 /\ a.depth \in Nat
      /\ b.depth = a.depth - 1
      /\ b.block = a.block /\ b.page = a.page
      /\ b.mode = IF a.depth = 1 THEN "none" ELSE a.mode
  <2>1. /\ a.depth > 0
        /\ b = [depth |-> a.depth - 1, mode |-> IF a.depth = 1 THEN "none" ELSE a.mode,
                block |-> a.block, page |-> a.page]
    BY <1>1, <1>2 DEF Moves
  <2>2. a.depth \in Nat
    BY DEF Standings
  <2> QED
    BY <2>1, <2>2
<1>4. /\ logLock[Home[t]] = [by |-> t, depth |-> a.depth]
      /\ logLock[Home[t]].by = t /\ logLock[Home[t]].depth = a.depth
      /\ file[Home[t]] = a.mode
  BY <1>2, <1>3 DEF Locked
<1> DEFINE l == IF a.depth = 1 THEN Nobody ELSE [by |-> t, depth |-> a.depth - 1]
           f == IF a.depth = 1 THEN "none" ELSE file[Home[t]]
<1>5. /\ logLock' = [logLock EXCEPT ![Home[t]] = l]
      /\ file' = IF a.depth = 1 THEN [file EXCEPT ![Home[t]] = "none"] ELSE file
  <2>1. (IF logLock[Home[t]].depth = 1 THEN Nobody
         ELSE [by |-> t, depth |-> logLock[Home[t]].depth - 1]) = l
    BY <1>4
  <2>2. logLock' = [logLock EXCEPT ![Home[t]] =
                      IF logLock[Home[t]].depth = 1 THEN Nobody
                      ELSE [by |-> t, depth |-> logLock[Home[t]].depth - 1]]
    BY DEF LeaveLog, Drops
  <2>3. file' = IF a.depth = 1 THEN [file EXCEPT ![Home[t]] = "none"] ELSE file
    BY <1>4 DEF LeaveLog
  <2> HIDE DEF l
  <2> QED
    BY <2>1, <2>2, <2>3
<1>6. l \in [by : Threads \cup {"nobody"}, depth : Nat] /\ l.by \in {"nobody", t}
  BY <1>3 DEF Nobody
<1>7. /\ \A p \in Procs : logLock'[p] = IF p = Home[t] THEN l ELSE logLock[p]
      /\ logLock' \in [Procs -> [by : Threads \cup {"nobody"}, depth : Nat]]
  <2>1. logLock \in [Procs -> [by : Threads \cup {"nobody"}, depth : Nat]] /\ Home[t] \in Procs
    BY Reads DEF CallInv, Typed
  <2> HIDE DEF l
  <2> QED
    BY <1>5, <1>6, <2>1
<1>8. /\ \A p \in Procs : file'[p] = IF p = Home[t] THEN f ELSE file[p]
      /\ file' \in [Procs -> {"none", "shared", "exclusive"}]
  BY <1>5, Reads DEF CallInv, Typed
<1>9. f = b.mode
  BY <1>3, <1>4
<1>10. Locked(t, b)'
  <2>1. CASE a.depth = 1
    <3>1. logLock'[Home[t]].by # t
      BY <1>7, <2>1, Reads DEF Nobody
    <3>2. b.depth = 0
      BY <1>3, <2>1
    <3> QED
      BY <3>1, <3>2 DEF Locked
  <2>2. CASE a.depth # 1
    <3>1. b.depth > 0 /\ l = [by |-> t, depth |-> b.depth]
      BY <1>3, <2>2
    <3>2. logLock'[Home[t]] = [by |-> t, depth |-> b.depth] /\ file'[Home[t]] = b.mode
      BY <1>7, <1>8, <1>9, <3>1, Reads
    <3> QED
      BY <3>1, <3>2 DEF Locked
  <2> QED
    BY <2>1, <2>2
<1>11. Knows(t, b)' /\ Tag(t)' = Tag(t)
  BY <1>1, <1>2, <1>3, KnowsOn
<1>12. Frame(t)
  <2> HIDE DEF l, f
  <2> QED
    BY <1>4, <1>6, <1>7, <1>8, Reads DEF Frame
<1>13. LocksInv'
  <2>1. ASSUME NEW p \in Procs, logLock'[p].by = "nobody"
        PROVE  logLock'[p] = Nobody /\ file'[p] = "none"
    <3>1. CASE p = Home[t]
      <4>1. l.by = "nobody"
        BY <1>7, <2>1, <3>1
      <4>2. a.depth = 1
        BY <4>1, Reads
      <4> QED
        BY <1>7, <1>8, <3>1, <4>2
    <3>2. CASE p # Home[t]
      BY <1>7, <1>8, <2>1, <3>2 DEF CallInv, LocksInv
    <3> QED
      BY <3>1, <3>2
  <2>2. ASSUME NEW p \in Procs, NEW q \in Procs, p # q, file'[p] = "exclusive"
        PROVE  file'[q] = "none"
    <3>1. file[p] = "exclusive"
      BY <1>8, <2>2
    <3>2. file[q] = "none"
      BY <2>2, <3>1 DEF CallInv, LocksInv
    <3> QED
      BY <1>8, <2>2, <3>2
  <2> QED
    BY <2>1, <2>2 DEF LocksInv
<1>14. Segment(Tag(t)', Tail(work[t]), b, c)
  BY <1>2, <1>11
<1> QED
  BY <1>1, <1>7, <1>8, <1>10, <1>11, <1>12, <1>13, <1>14, QuietStep

\* What a page may end with: nothing, or an outcome that says whether a person
\* was reached, if that was not lost.
Outcomes == [kind : K!NotifyOutcomes, transport : Transports]

Honest(t, o) ==
  /\ reached' \in {reached, reached \cup {raised[t]}}
  /\ lost' \in {lost, lost \cup {raised[t]}}
  /\ (o.kind = "human.notified") /\ (o.transport # "not reported") => raised[t] \in reached'
  /\ (o.kind = "human.notify_failed") => reached' = reached \/ raised[t] \in lost'

LEMMA PageEnds ==
  ASSUME NEW t \in Threads, Page(t)
  PROVE  \/ Goes(t) /\ reached' = reached /\ lost' = lost
         \/ \E o \in Outcomes : Paged(t, o) /\ Honest(t, o)
<1>1. CASE Goes(t) /\ UNCHANGED <<reached, lost>>
  BY <1>1
<1>2. CASE Paged(t, N!Outcome("nothing")) /\ UNCHANGED <<reached, lost>>
  <2> DEFINE o == N!Outcome("nothing")
  <2>1. o \in Outcomes /\ o.kind = "human.notified" /\ o.transport = "not reported"
    BY DEF N!Outcome, Outcomes, K!NotifyOutcomes, Transports
  <2>2. Paged(t, o) /\ reached' = reached /\ lost' = lost
    BY <1>2
  <2> HIDE DEF o
  <2> QED
    BY <2>1, <2>2 DEF Honest
<1>3. ASSUME NEW told \in BOOLEAN, Paged(t, N!Outcome("raises")), Tells(t, told, told)
      PROVE  \E o \in Outcomes : Paged(t, o) /\ Honest(t, o)
  <2> DEFINE o == N!Outcome("raises")
  <2>1. o \in Outcomes /\ o.kind = "human.notify_failed"
    BY DEF N!Outcome, N!Delivered, Outcomes, K!NotifyOutcomes, Transports
  <2>2. Paged(t, o)
    BY <1>3
  <2> HIDE DEF o
  <2> QED
    BY <1>3, <2>1, <2>2 DEF Honest, Tells
<1>4. ASSUME NEW s \in N!Setups, Paged(t, N!Outcome(N!Status(s))),
             Tells(t, N!Reached(s), N!Lost(s))
      PROVE  \E o \in Outcomes : Paged(t, o) /\ Honest(t, o)
  <2> DEFINE o == N!Outcome(N!Status(s))
  <2>1. /\ o \in Outcomes
        /\ (o.kind = "human.notified") => N!Reached(s)
        /\ (o.kind = "human.notify_failed") /\ N!Reached(s) => N!Lost(s)
    <3>1. N!Status(s) \in {"sent", "failed"}
      BY DEF N!Status
    <3>2. CASE N!Status(s) = "sent"
      <4>1. N!Reached(s)
        BY <3>2 DEF N!Status, N!Postable, N!Reached
      <4>2. o = [kind |-> "human.notified", transport |-> "sent"]
        BY <3>2 DEF N!Outcome, N!Delivered
      <4> QED
        BY <4>1, <4>2 DEF Outcomes, K!NotifyOutcomes, Transports
    <3>3. CASE N!Status(s) = "failed"
      <4>1. N!Reached(s) => N!Lost(s)
        BY <3>3 DEF N!Status, N!Postable, N!Reached, N!Lost
      <4>2. o = [kind |-> "human.notify_failed", transport |-> "none"]
        BY <3>3 DEF N!Outcome, N!Delivered
      <4> QED
        BY <4>1, <4>2 DEF Outcomes, K!NotifyOutcomes, Transports
    <3> QED
      BY <3>1, <3>2, <3>3
  <2>2. Paged(t, o)
    BY <1>4
  <2>3. N!Reached(s) \in BOOLEAN
    BY DEF N!Reached
  <2> HIDE DEF o
  <2> QED
    BY <1>4, <2>1, <2>2, <2>3 DEF Honest, Tells
<1>5. \/ Goes(t) /\ UNCHANGED <<reached, lost>>
      \/ Paged(t, N!Outcome("nothing")) /\ UNCHANGED <<reached, lost>>
      \/ \E told \in BOOLEAN : Paged(t, N!Outcome("raises")) /\ Tells(t, told, told)
      \/ \E s \in N!Setups :
           Paged(t, N!Outcome(N!Status(s))) /\ Tells(t, N!Reached(s), N!Lost(s))
  BY DEF Page
<1> QED
  BY <1>1, <1>2, <1>3, <1>4, <1>5

\* A page is over, or its outcome is to be recorded.
LEMMA PageHolds ==
  ASSUME CallInv, NEW t \in Threads, Page(t)
  PROVE  CallInv'
<1>1. /\ work[t] # <<>> /\ Head(work[t]).do = "page"
      /\ logLock' = logLock /\ file' = file /\ log' = log /\ raised' = raised /\ calls' = calls
      /\ answered' = answered
  BY DEF Page, At, locks
<1>2. PICK a, b \in Standings, c \in Over :
        /\ Locked(t, a) /\ Knows(t, a)
        /\ Moves(Tag(t), Head(work[t]), a, b)
        /\ Segment(Tag(t), Tail(work[t]), b, c)
  BY <1>1, StepOn
<1>3. a.page = "raised" /\ Calm(a) /\ b = [a EXCEPT !.page = "over"]
  BY <1>1, <1>2 DEF Moves
<1>4. /\ b.depth = a.depth /\ b.mode = a.mode /\ b.block = a.block
      /\ b.page = "over"
  BY <1>3 DEF Standings
<1>5. raised[t] # 0 /\ raised[t] \notin DOMAIN answered /\ raised[t] \notin reached
  BY <1>2, <1>3 DEF Knows, Asked
<1>6. raised[t] \in Nat /\ Tag(t) \in Tags
  BY TagTyped DEF CallInv, Typed
<1>7. /\ Tag(t)' \in Tags /\ Tag(t)'.call = Tag(t).call /\ Tag(t)'.raised = raised[t]
      /\ Tag(t)'.told <=> raised[t] \in reached'
      /\ Tag(t)'.lost <=> raised[t] \in lost'
  <2>1. Number(t)' = Number(t) /\ raised'[t] = raised[t]
    BY <1>1 DEF Number
  <2>2. Number(t) \in Threads \X Int
    BY <1>6 DEF Tag, Tags
  <2>3. Tag(t)' \in Tags
    BY <1>6, <2>1, <2>2 DEF Tag, Tags
  <2>4. Tag(t)'.call = Number(t) /\ Tag(t)'.raised = raised[t] /\ Tag(t).call = Number(t)
    BY <2>1 DEF Tag
  <2>5. (Tag(t)'.told <=> raised[t] \in reached') /\ (Tag(t)'.lost <=> raised[t] \in lost')
    BY <2>1 DEF Tag
  <2> QED
    BY <2>3, <2>4, <2>5
<1>8. Segment(Tag(t)', Tail(work[t]), b, c)
  BY <1>2, <1>4, <1>6, <1>7, OtherTag
<1>9. \E w : \E p \in Standings :
        /\ work' = [work EXCEPT ![t] = w] /\ Segment(Tag(t)', w, p, c)
        /\ p.depth = a.depth /\ p.mode = a.mode /\ p.block = a.block
        /\ p.page \in {"paged", "over"}
  <2>1. CASE Goes(t)
    BY <1>4, <1>8, <2>1 DEF Goes
  <2>2. ASSUME NEW o \in Outcomes, Paged(t, o), Honest(t, o)
        PROVE  \E w : \E p \in Standings :
                 /\ work' = [work EXCEPT ![t] = w] /\ Segment(Tag(t)', w, p, c)
                 /\ p.depth = a.depth /\ p.mode = a.mode /\ p.block = a.block
                 /\ p.page \in {"paged", "over"}
    <3> DEFINE e == [kind |-> o.kind, queue |-> Head(work[t]).queue, raised |-> raised[t],
                     transport |-> o.transport]
               p == [a EXCEPT !.page = "paged"]
    <3>1. Head(work[t]).queue \in AllQueues
      <4>1. Head(work[t]) \in Items
        BY <1>1, FirstItem
      <4> QED
        BY <1>1, <4>1 DEF Items
    <3>2. /\ e \in Lines /\ e.kind = o.kind /\ e.raised = raised[t] /\ e.transport = o.transport
          /\ e.kind \in K!NotifyOutcomes
      BY <1>6, <3>1 DEF Lines, Outcomes, K!NotifyOutcomes
    <3>3. /\ p \in Standings /\ p.depth = a.depth /\ p.mode = a.mode /\ p.block = a.block
          /\ p.page = "paged"
      BY DEF Standings
    <3>4. work' = [work EXCEPT ![t] = Append1(e) \o Tail(work[t])]
      BY <2>2 DEF Paged
    <3> HIDE DEF e, p
    <3>5. May(Tag(t)', e, p)
      <4>1. p.block # "half"
        BY <1>3, <3>3 DEF Calm
      <4>2. e.kind = "human.notify_failed" => (~Tag(t)'.told \/ Tag(t)'.lost)
        BY <1>5, <1>7, <2>2, <3>2 DEF Honest
      <4>3. e.kind = "human.notified" /\ e.transport # "not reported" => Tag(t)'.told
        BY <1>7, <2>2, <3>2 DEF Honest
      <4> QED
        BY <1>7, <3>2, <3>3, <4>1, <4>2, <4>3 DEF May, K!NotifyOutcomes
    <3>6. After(e, p) = b
      <4>1. After(e, p) = [depth |-> p.depth, mode |-> p.mode, block |-> p.block,
                           page |-> "over"]
        BY <3>2 DEF After, K!NotifyOutcomes
      <4>2. b = [depth |-> b.depth, mode |-> b.mode, block |-> b.block,
                 page |-> b.page]
        BY DEF Standings
      <4> QED
        BY <1>4, <3>3, <4>1, <4>2
    <3>7. Segment(Tag(t)', Append1(e), p, b)
      <4>1. (p.depth = 0) \/ (p.mode = "exclusive")
        BY <1>3, <3>3 DEF Calm
      <4>2. e.kind # "state"
        BY <3>2 DEF K!NotifyOutcomes
      <4> QED
        BY <3>2, <3>3, <3>5, <3>6, <4>1, <4>2, AppendSegment
    <3>8. Segment(Tag(t)', Append1(e) \o Tail(work[t]), p, c)
      BY <1>8, <3>7, JoinSegments
    <3> QED
      BY <3>3, <3>4, <3>8
  <2> QED
    BY <2>1, <2>2, PageEnds
<1>10. PICK w : \E p \in Standings :
        /\ work' = [work EXCEPT ![t] = w] /\ Segment(Tag(t)', w, p, c)
        /\ p.depth = a.depth /\ p.mode = a.mode /\ p.block = a.block
        /\ p.page \in {"paged", "over"}
  BY <1>9
<1>11. PICK p \in Standings :
        /\ work' = [work EXCEPT ![t] = w] /\ Segment(Tag(t)', w, p, c)
        /\ p.depth = a.depth /\ p.mode = a.mode /\ p.block = a.block
        /\ p.page \in {"paged", "over"}
  BY <1>10
<1>12. Locked(t, p)' /\ Frame(t)
  BY <1>1, <1>2, <1>11 DEF Locked, Frame
<1>13. LocksInv'
  BY <1>1 DEF CallInv, LocksInv
<1>14. /\ logLock' \in [Procs -> [by : Threads \cup {"nobody"}, depth : Nat]]
       /\ file' \in [Procs -> {"none", "shared", "exclusive"}]
  BY <1>1 DEF CallInv, Typed
<1>15. Knows(t, p)'
  <2>1. Number(t)' = Number(t)
    BY <1>1 DEF Number
  <2>2. Written(t, p)'
    BY <1>1, <1>2, <1>11, <2>1 DEF Knows, Written
  <2>3. Asked(t, p)'
    BY <1>1, <1>5, <1>11 DEF Asked
  <2> QED
    BY <2>2, <2>3 DEF Knows
<1>16. \/ reached' = reached /\ lost' = lost
       \/ /\ raised[t] # 0 /\ raised[t] \notin DOMAIN answered
          /\ reached' \in {reached, reached \cup {raised[t]}}
          /\ lost' \in {lost, lost \cup {raised[t]}}
  BY <1>5, PageEnds DEF Honest
<1> QED
  BY <1>1, <1>11, <1>12, <1>13, <1>14, <1>15, <1>16, QuietStep

----------------------------------------------------------------------------
(* A line is written *)

\* Two threads never hold files for writing at once.
LEMMA OneWriter ==
  ASSUME CallInv, NEW t \in Threads, NEW u \in Threads, NEW a \in Standings, NEW c \in Standings,
         Locked(t, a), Locked(u, c), a.depth > 0, c.depth > 0,
         a.mode = "exclusive", c.mode = "exclusive"
  PROVE  t = u
<1>1. logLock[Home[t]].by = t /\ logLock[Home[u]].by = u
  BY DEF Locked
<1>2. file[Home[t]] = "exclusive" /\ file[Home[u]] = "exclusive"
  BY DEF Locked
<1>3. Home[t] = Home[u]
  BY <1>2, Reads DEF CallInv, LocksInv
<1> QED
  BY <1>1, <1>3

\* The thread t, which stands at a, writes the line e.
Adds(t, e, a) ==
  /\ e \in Lines /\ a \in Standings
  /\ Locked(t, a) /\ Knows(t, a) /\ a.depth > 0 /\ a.mode = "exclusive" /\ May(Tag(t), e, a)
  /\ log' = Append(log, e)
  /\ raised' = IF e.kind = "escalation.raised" THEN [raised EXCEPT ![t] = Len(log) + 1] ELSE raised
  /\ answered' = IF e.kind \in K!NotifyOutcomes /\ e.raised # 0
                 THEN [r \in DOMAIN answered \cup {e.raised} |->
                         IF r = e.raised THEN Len(log) + 1 ELSE answered[r]]
                 ELSE answered
  /\ logLock' = logLock /\ file' = file /\ calls' = calls
  /\ reached' = reached /\ lost' = lost

LEMMA WriteAdds ==
  ASSUME CallInv, NEW t \in Threads, Write(t)
  PROVE  \E e, a : \E b \in Standings, c \in Over :
           /\ Adds(t, e, a) /\ b = After(e, a)
           /\ work' = [work EXCEPT ![t] = Tail(work[t])] /\ Segment(Tag(t), Tail(work[t]), b, c)
<1> DEFINE e == Head(work[t]).line
<1>1. /\ work[t] # <<>> /\ Head(work[t]).do = "write"
      /\ log' = Append(log, e)
      /\ raised' = IF e.kind = "escalation.raised" THEN [raised EXCEPT ![t] = Len(log) + 1] ELSE raised
      /\ answered' = IF e.kind \in K!NotifyOutcomes /\ e.raised # 0
                     THEN [r \in DOMAIN answered \cup {e.raised} |->
                             IF r = e.raised THEN Len(log) + 1 ELSE answered[r]]
                     ELSE answered
      /\ work' = [work EXCEPT ![t] = Tail(work[t])]
      /\ logLock' = logLock /\ file' = file /\ calls' = calls
      /\ reached' = reached /\ lost' = lost
  BY DEF Write, At, Goes, locks
<1>2. PICK a, b \in Standings, c \in Over :
        /\ Locked(t, a) /\ Knows(t, a)
        /\ Moves(Tag(t), Head(work[t]), a, b)
        /\ Segment(Tag(t), Tail(work[t]), b, c)
  BY <1>1, StepOn
<1>3. a.depth > 0 /\ a.mode = "exclusive" /\ May(Tag(t), e, a) /\ b = After(e, a)
  BY <1>1, <1>2 DEF Moves
<1>4. e \in Lines
  <2>1. Head(work[t]) \in Items
    BY <1>1, FirstItem
  <2> QED
    BY <1>1, <2>1 DEF Items
<1> HIDE DEF e
<1>5. Adds(t, e, a)
  BY <1>1, <1>2, <1>3, <1>4 DEF Adds
<1> QED
  BY <1>1, <1>2, <1>3, <1>5

\* What a line adds to the log.
LEMMA Added ==
  ASSUME CallInv, NEW t, NEW e, NEW a, Adds(t, e, a)
  PROVE  /\ log \in Seq(Lines) /\ log' \in Seq(Lines) /\ Len(log) \in Nat
         /\ Len(log') = Len(log) + 1
         /\ DOMAIN log = 1 .. Len(log) /\ DOMAIN log' = 1 .. Len(log) + 1
         /\ log'[Len(log) + 1] = e /\ \A i \in 1 .. Len(log) : log'[i] = log[i]
<1>1. log \in Seq(Lines) /\ e \in Lines /\ log' = Append(log, e)
  BY DEF CallInv, Typed, Adds
<1> QED
  BY <1>1

\* A line of a block is of the call that writes it, which has begun.
LEMMA AddsBegun ==
  ASSUME CallInv, NEW t \in Threads, NEW e, NEW a, Adds(t, e, a)
  PROVE  BegunInv'
<1>1. Number(t)[1] = t /\ Number(t)[2] = calls[t] - 1 /\ calls[t] \in Nat
  BY DEF Number, CallInv, Typed
<1>2. Begun(Number(t))
  BY <1>1 DEF Begun
<1>3. e.kind = "state" => e.block = Number(t)
  BY DEF Adds, May, Tag
<1>4. \A n : Begun(n)' <=> Begun(n)
  BY DEF Adds, Begun
<1> SUFFICES ASSUME NEW i \in 1 .. Len(log) + 1
             PROVE  log'[i].kind = "state" => Begun(log'[i].block)
  BY <1>4, Added DEF BegunInv
<1>5. CASE i = Len(log) + 1
  BY <1>2, <1>3, <1>5, Added
<1>6. CASE i \in 1 .. Len(log)
  BY <1>6, Added DEF CallInv, BegunInv
<1> QED
  BY <1>5, <1>6, Added

\* A line of a block comes right after the block's first, or begins it.
LEMMA AddsApart ==
  ASSUME CallInv, NEW t \in Threads, NEW e, NEW a, Adds(t, e, a)
  PROVE  HoldingApart'
<1> DEFINE m == Len(log) + 1
<1>1. /\ Len(log) \in Nat /\ m = Len(log) + 1
      /\ DOMAIN log = 1 .. Len(log) /\ DOMAIN log' = 1 .. m
      /\ log'[m] = e /\ \A i \in 1 .. Len(log) : log'[i] = log[i]
  BY Added
<1> HIDE DEF m
<1> SUFFICES ASSUME NEW i \in 1 .. m, NEW k \in 1 .. m,
                    log'[i].kind = "state", log'[k].kind = "state",
                    log'[i].block = log'[k].block, NEW j \in i .. k
             PROVE  log'[j].kind = "state" /\ log'[j].block = log'[i].block
  BY <1>1 DEF HoldingApart
<1>2. CASE k \in 1 .. Len(log)
  <2>1. i \in 1 .. Len(log) /\ j \in 1 .. Len(log)
    BY <1>1, <1>2
  <2> QED
    BY <1>1, <1>2, <2>1 DEF CallInv, HoldingApart
<1>3. CASE k = m /\ i = m
  <2>1. j = m
    BY <1>1, <1>3
  <2> QED
    BY <1>3, <2>1
<1>4. CASE k = m /\ i \in 1 .. Len(log)
  <2>1. e.kind = "state" /\ e.block = Number(t) /\ log[i].kind = "state" /\ log[i].block = Number(t)
    BY <1>1, <1>4 DEF Adds, May, Tag
  <2>2. a.block \in {"fresh", "half"} /\ Written(t, a)
    BY <2>1 DEF Adds, May, Knows, Standings
  <2>3. a.block = "half"
    BY <1>1, <1>4, <2>1, <2>2 DEF Written
  <2>4. Len(log) > 0 /\ log[Len(log)].kind = "state" /\ log[Len(log)].block = Number(t)
    BY <2>2, <2>3 DEF Written
  <2>5. CASE j = m
    BY <1>1, <1>4, <2>1, <2>5
  <2>6. CASE j # m
    <3>1. j \in i .. Len(log) /\ j \in 1 .. Len(log) /\ Len(log) \in 1 .. Len(log)
      BY <1>1, <1>4, <2>4, <2>6
    <3>2. log[j].kind = "state" /\ log[j].block = log[i].block
      BY <1>1, <1>4, <2>1, <2>4, <3>1 DEF CallInv, HoldingApart
    <3> QED
      BY <1>1, <1>4, <3>1, <3>2
  <2> QED
    BY <2>5, <2>6
<1> QED
  BY <1>1, <1>2, <1>3, <1>4

\* What a line says of escalations: a new one is nobody's yet, an outcome is of
\* its writer's, and says what its page came to.
LEMMA AddsSays ==
  ASSUME CallInv, NEW t \in Threads, NEW e, NEW a, Adds(t, e, a)
  PROVE  /\ Raised' = IF e.kind = "escalation.raised" THEN Raised \cup {Len(log) + 1} ELSE Raised
         /\ Raised \subseteq 1 .. Len(log)
         /\ \A u \in Threads : raised[u] \in Nat
         /\ \A u \in Threads : raised'[u] = IF u = t /\ e.kind = "escalation.raised"
                                            THEN Len(log) + 1 ELSE raised[u]
         /\ e.kind \in K!NotifyOutcomes =>
              /\ e.raised = raised[t] /\ e.raised # 0 /\ e.raised \notin DOMAIN answered
              /\ e.raised \in Raised
              /\ DOMAIN answered' = DOMAIN answered \cup {e.raised}
              /\ answered'[e.raised] = Len(log) + 1
              /\ \A r \in DOMAIN answered : answered'[r] = answered[r]
              /\ e.kind = "human.notified" /\ e.transport # "not reported" => e.raised \in reached
              /\ e.kind = "human.notify_failed" /\ e.raised \in reached => e.raised \in lost
         /\ e.kind \notin K!NotifyOutcomes => answered' = answered
<1>1. Raised' = IF e.kind = "escalation.raised" THEN Raised \cup {Len(log) + 1} ELSE Raised
  BY Added DEF Raised
<1>2. Raised \subseteq 1 .. Len(log)
  BY Added DEF Raised
<1>3. raised \in [Threads -> Nat]
  BY DEF CallInv, Typed
<1>4. \A u \in Threads : raised'[u] = IF u = t /\ e.kind = "escalation.raised"
                                      THEN Len(log) + 1 ELSE raised[u]
  BY <1>3 DEF Adds
<1>5. ASSUME e.kind \in K!NotifyOutcomes
      PROVE  /\ e.raised = raised[t] /\ e.raised # 0 /\ e.raised \notin DOMAIN answered
             /\ e.raised \in Raised
             /\ DOMAIN answered' = DOMAIN answered \cup {e.raised}
             /\ answered'[e.raised] = Len(log) + 1
             /\ \A r \in DOMAIN answered : answered'[r] = answered[r]
             /\ e.kind = "human.notified" /\ e.transport # "not reported" => e.raised \in reached
             /\ e.kind = "human.notify_failed" /\ e.raised \in reached => e.raised \in lost
  <2>1. a.page = "paged" /\ e.raised = Tag(t).raised
    BY <1>5 DEF Adds, May
  <2>2. e.raised = raised[t]
    BY <2>1 DEF Tag
  <2>3. e.raised # 0 /\ e.raised \notin DOMAIN answered
    BY <2>1, <2>2 DEF Adds, Knows, Asked
  <2>4. e.raised \in Raised
    BY <2>2, <2>3 DEF CallInv, PagesInv
  <2>5. answered' = [r \in DOMAIN answered \cup {e.raised} |->
                       IF r = e.raised THEN Len(log) + 1 ELSE answered[r]]
    BY <1>5, <2>3 DEF Adds
  <2>6. /\ e.kind = "human.notified" /\ e.transport # "not reported" => Tag(t).told
        /\ e.kind = "human.notify_failed" => (~Tag(t).told \/ Tag(t).lost)
    BY <1>5 DEF Adds, May
  <2>7. (Tag(t).told <=> e.raised \in reached) /\ (Tag(t).lost <=> e.raised \in lost)
    BY <2>2 DEF Tag
  <2> QED
    BY <2>2, <2>3, <2>4, <2>5, <2>6, <2>7
<1>6. e.kind \notin K!NotifyOutcomes => answered' = answered
  BY DEF Adds
<1> QED
  BY <1>1, <1>2, <1>3, <1>4, <1>5, <1>6

\* Escalations keep to their own pages and outcomes.
LEMMA AddsPages ==
  ASSUME CallInv, NEW t \in Threads, NEW e, NEW a, Adds(t, e, a)
  PROVE  PagesInv'
<1> DEFINE m == Len(log) + 1
<1>0. /\ Len(log) \in Nat /\ m = Len(log) + 1
      /\ DOMAIN log = 1 .. Len(log) /\ DOMAIN log' = 1 .. m
      /\ log'[m] = e /\ \A i \in 1 .. Len(log) : log'[i] = log[i]
  BY Added
<1>1. /\ Raised \subseteq Raised' /\ Raised \subseteq 1 .. Len(log)
      /\ (e.kind = "escalation.raised") => m \in Raised'
      /\ reached' = reached /\ lost' = lost
  BY AddsSays DEF Adds
<1>2. \A u \in Threads : raised'[u] = IF u = t /\ e.kind = "escalation.raised" THEN m ELSE raised[u]
  BY AddsSays
<1> HIDE DEF m
<1>3. /\ \A u \in Threads : raised[u] # 0 => raised[u] \in Raised
      /\ \A u, v \in Threads : u # v /\ raised[u] # 0 => raised[u] # raised[v]
  BY DEF CallInv, PagesInv
<1>4. \A u \in Threads : raised'[u] # 0 => raised'[u] \in Raised'
  BY <1>1, <1>2, <1>3
<1>5. \A u, v \in Threads : u # v /\ raised'[u] # 0 => raised'[u] # raised'[v]
  <2>1. \A u \in Threads : raised[u] # m
    BY <1>0, <1>1, <1>3
  <2> QED
    BY <1>2, <1>3, <2>1
<1>6. /\ DOMAIN answered \subseteq DOMAIN answered'
      /\ \A r \in DOMAIN answered : answered'[r] = answered[r]
  BY AddsSays
<1>7. ASSUME NEW i \in DOMAIN log', log'[i].kind \in K!NotifyOutcomes
      PROVE  /\ log'[i].raised \in DOMAIN answered' /\ answered'[log'[i].raised] = i
             /\ log'[i].kind = "human.notified" /\ log'[i].transport # "not reported" =>
                  log'[i].raised \in reached'
             /\ log'[i].kind = "human.notify_failed" /\ log'[i].raised \in reached' => log'[i].raised \in lost'
  <2>1. CASE i = m
    <3>1. log'[i] = e /\ e.kind \in K!NotifyOutcomes
      BY <1>0, <1>7, <2>1
    <3>2. /\ e.raised \in DOMAIN answered' /\ answered'[e.raised] = m
          /\ e.kind = "human.notified" /\ e.transport # "not reported" => e.raised \in reached
          /\ e.kind = "human.notify_failed" /\ e.raised \in reached => e.raised \in lost
      BY <3>1, AddsSays DEF m
    <3> QED
      BY <1>1, <2>1, <3>1, <3>2
  <2>2. CASE i \in 1 .. Len(log)
    <3>1. log'[i] = log[i] /\ i \in DOMAIN log /\ log[i].kind \in K!NotifyOutcomes
      BY <1>0, <1>7, <2>2
    <3>2. /\ log[i].raised \in DOMAIN answered /\ answered[log[i].raised] = i
          /\ log[i].kind = "human.notified" /\ log[i].transport # "not reported" =>
               log[i].raised \in reached
          /\ log[i].kind = "human.notify_failed" /\ log[i].raised \in reached => log[i].raised \in lost
      BY <3>1 DEF CallInv, PagesInv
    <3> QED
      BY <1>1, <1>6, <3>1, <3>2
  <2>3. i = m \/ i \in 1 .. Len(log)
    BY <1>0
  <2> QED
    BY <2>1, <2>2, <2>3
<1>8. ASSUME NEW r \in DOMAIN answered'
      PROVE  /\ r \in Raised' /\ answered'[r] \in DOMAIN log' /\ r < answered'[r]
             /\ log'[answered'[r]].kind \in K!NotifyOutcomes /\ log'[answered'[r]].raised = r
  <2>1. CASE r \in DOMAIN answered
    <3>1. /\ r \in Raised /\ answered[r] \in DOMAIN log /\ r < answered[r]
          /\ log[answered[r]].kind \in K!NotifyOutcomes /\ log[answered[r]].raised = r
      BY <2>1 DEF CallInv, PagesInv
    <3>2. answered'[r] = answered[r] /\ log'[answered[r]] = log[answered[r]]
      BY <1>0, <1>6, <2>1, <3>1
    <3> QED
      BY <1>0, <1>1, <3>1, <3>2
  <2>2. CASE r \notin DOMAIN answered
    <3>1. /\ e.kind \in K!NotifyOutcomes /\ r = e.raised /\ r \in Raised /\ answered'[r] = m
      BY <2>2, <1>8, AddsSays DEF m
    <3>2. r < m /\ m \in DOMAIN log'
      BY <1>0, <1>1, <3>1
    <3> QED
      BY <1>0, <1>1, <3>1, <3>2
  <2> QED
    BY <2>1, <2>2
<1>9. reached' \subseteq Raised'
  BY <1>1 DEF CallInv, PagesInv
<1> QED
  BY <1>4, <1>5, <1>7, <1>8, <1>9 DEF PagesInv

\* The line leaves its writer where the rest of its call leads on.
LEMMA AddsKnown ==
  ASSUME CallInv, NEW t \in Threads, NEW e, NEW a, Adds(t, e, a), NEW b, b = After(e, a)
  PROVE  Knows(t, b)'
<1> DEFINE m == Len(log) + 1
<1>0. /\ Len(log) \in Nat /\ m = Len(log) + 1
      /\ DOMAIN log = 1 .. Len(log) /\ DOMAIN log' = 1 .. m /\ Len(log') = m
      /\ log'[m] = e /\ \A i \in 1 .. Len(log) : log'[i] = log[i]
  BY Added
<1>1. Number(t)' = Number(t)
  BY DEF Adds, Number
<1>2. Written(t, a) /\ Asked(t, a)
  BY DEF Adds, Knows
<1>3. Written(t, b)'
  <2>1. /\ b.block = "fresh" => e.kind # "state" /\ a.block = "fresh"
        /\ b.block = "half" => e.kind = "state" /\ e.block = Number(t)
    BY DEF After, Adds, May, Tag, Standings
  <2> HIDE DEF m
  <2>2. b.block = "fresh" => \A i \in DOMAIN log' : log'[i].kind = "state" => log'[i].block # Number(t)
    BY <1>0, <1>2, <2>1 DEF Written
  <2>3. b.block = "half" => Len(log') > 0 /\ log'[Len(log')].kind = "state"
                              /\ log'[Len(log')].block = Number(t)
    BY <1>0, <2>1
  <2> QED
    BY <1>1, <2>2, <2>3 DEF Written
<1>4. Asked(t, b)'
  <2>1. \/ e.kind = "escalation.raised" /\ b.page = "raised"
        \/ e.kind \in K!NotifyOutcomes /\ b.page = "over"
        \/ e.kind \notin K!NotifyOutcomes \cup {"escalation.raised"} /\ b.page = a.page
    BY DEF After, K!NotifyOutcomes
  <2>2. CASE e.kind = "escalation.raised" /\ b.page = "raised"
    <3>1. raised'[t] = m /\ m # 0 /\ answered' = answered
      <4>1. e.kind \notin K!NotifyOutcomes
        BY <2>2 DEF K!NotifyOutcomes
      <4>2. answered' = answered /\ raised'[t] = Len(log) + 1
        BY <2>2, <4>1, AddsSays
      <4> QED
        BY <1>0, <4>2
    <3>2. Raised \subseteq 1 .. Len(log) /\ DOMAIN answered \subseteq Raised /\ reached \subseteq Raised
      BY AddsSays DEF CallInv, PagesInv
    <3>3. reached' = reached
      BY DEF Adds
    <3>4. m \notin DOMAIN answered /\ m \notin reached
      BY <1>0, <3>2
    <3> HIDE DEF m
    <3> QED
      BY <2>2, <3>1, <3>3, <3>4 DEF Asked
  <2>3. CASE e.kind \notin K!NotifyOutcomes \cup {"escalation.raised"} /\ b.page = a.page
    <3>1. raised'[t] = raised[t] /\ answered' = answered
      BY <2>3, AddsSays
    <3>2. reached' = reached
      BY DEF Adds
    <3> QED
      BY <1>2, <2>3, <3>1, <3>2 DEF Asked
  <2> QED
    BY <2>1, <2>2, <2>3 DEF Asked
<1> QED
  BY <1>3, <1>4 DEF Knows

\* Nothing that another thread knows is changed: it holds no half-written block,
\* and the line is of another call.
LEMMA AddsOther ==
  ASSUME CallInv, NEW t \in Threads, NEW e, NEW a, Adds(t, e, a),
         NEW u \in Threads, u # t, NEW c \in Standings, Locked(u, c), Knows(u, c)
  PROVE  Knows(u, c)' /\ Tag(u)' = Tag(u) /\ Locked(u, c)'
<1> DEFINE m == Len(log) + 1
<1>0. /\ Len(log) \in Nat /\ m = Len(log) + 1
      /\ DOMAIN log = 1 .. Len(log) /\ DOMAIN log' = 1 .. m
      /\ log'[m] = e /\ \A i \in 1 .. Len(log) : log'[i] = log[i]
  BY Added
<1> HIDE DEF m
<1>1. Number(u)' = Number(u) /\ Number(u) # Number(t)
  <2>1. calls' = calls
    BY DEF Adds
  <2> QED
    BY <2>1 DEF Number
<1>2. raised'[u] = raised[u] /\ reached' = reached /\ lost' = lost
  <2>1. raised'[u] = raised[u]
    BY AddsSays
  <2>2. reached' = reached /\ lost' = lost
    BY DEF Adds
  <2> QED
    BY <2>1, <2>2
<1>3. Tag(u)' = Tag(u)
  BY <1>1, <1>2 DEF Tag
<1>4. Locked(u, c)'
  BY DEF Adds, Locked
<1>5. Written(u, c) /\ Asked(u, c)
  BY DEF Knows
<1>6. Written(u, c)'
  <2>1. c.block # "half"
    <3> SUFFICES ASSUME c.block = "half" PROVE FALSE
      OBVIOUS
    <3>1. c.mode = "exclusive" /\ c.depth > 0
      BY DEF Standings
    <3> QED
      BY <3>1, OneWriter DEF Adds
  <2>2. e.kind = "state" => e.block # Number(u)
    BY <1>1 DEF Adds, May, Tag
  <2>3. c.block = "fresh" => \A i \in DOMAIN log' : log'[i].kind = "state" => log'[i].block # Number(u)
    BY <1>0, <1>5, <2>2 DEF Written
  <2> QED
    BY <1>1, <2>1, <2>3 DEF Written
<1>7. Asked(u, c)'
  <2>1. raised[u] # 0 /\ raised[u] \notin DOMAIN answered => raised[u] \notin DOMAIN answered'
    <3>1. raised[u] # 0 => raised[u] # raised[t]
      BY DEF CallInv, PagesInv
    <3> QED
      BY <3>1, AddsSays
  <2> QED
    BY <1>2, <1>5, <2>1 DEF Asked
<1> QED
  BY <1>3, <1>4, <1>6, <1>7 DEF Knows

LEMMA WriteHolds ==
  ASSUME CallInv, NEW t \in Threads, Write(t)
  PROVE  CallInv'
<1>1. PICK e, a : \E b \in Standings, c \in Over :
        /\ Adds(t, e, a) /\ b = After(e, a)
        /\ work' = [work EXCEPT ![t] = Tail(work[t])] /\ Segment(Tag(t), Tail(work[t]), b, c)
  BY WriteAdds
<1>2. PICK b \in Standings, c \in Over :
        /\ Adds(t, e, a) /\ b = After(e, a)
        /\ work' = [work EXCEPT ![t] = Tail(work[t])] /\ Segment(Tag(t), Tail(work[t]), b, c)
  BY <1>1
<1>3. BegunInv' /\ HoldingApart' /\ PagesInv'
  BY <1>2, AddsBegun, AddsApart, AddsPages
<1>4. Typed'
  <2>1. Tail(work[t]) \in Seq(Items)
    BY <1>2 DEF Segment
  <2>2. log' \in Seq(Lines) /\ Len(log) \in Nat
    BY <1>2, Added
  <2>3. raised' \in [Threads -> Nat]
    BY <1>2, <2>2 DEF CallInv, Typed, Adds
  <2> QED
    BY <1>2, <2>1, <2>2, <2>3 DEF CallInv, Typed, Adds
<1>5. LocksInv'
  BY <1>2 DEF CallInv, LocksInv, Adds
<1>6. Segment(Tag(t)', Tail(work[t]), b, c)
  <2>1. CASE e.kind = "escalation.raised"
    <3>1. b.page = "raised"
      BY <1>2, <2>1 DEF After
    <3>2. Tag(t) \in Tags /\ Tag(t)' \in Tags
      <4>1. Tag(t) \in Tags /\ Number(t) \in Threads \X Int
        BY TagTyped DEF CallInv, Tag, Tags
      <4>2. raised'[t] \in Nat /\ Number(t)' = Number(t)
        BY <1>2, <1>4 DEF Typed, Adds, Number
      <4> QED
        BY <4>1, <4>2 DEF Tag, Tags
    <3>3. Tag(t)'.call = Tag(t).call
      BY <1>2 DEF Adds, Tag, Number
    <3> QED
      BY <1>2, <3>1, <3>2, <3>3, OtherTag
  <2>2. CASE e.kind # "escalation.raised"
    <3>1. Tag(t)' = Tag(t)
      BY <1>2, <2>2 DEF Adds, Tag, Number
    <3> QED
      BY <1>2, <3>1
  <2> QED
    BY <2>1, <2>2
<1>7. ASSUME NEW u \in Threads PROVE OnCourse(u)'
  <2>1. CASE u = t
    <3>1. work'[u] = Tail(work[t])
      BY <1>2, <2>1 DEF CallInv, Typed
    <3>2. Knows(t, b)'
      BY <1>2, AddsKnown
    <3>3. Locked(t, b)'
      <4>1. b.depth = a.depth /\ b.mode = a.mode
        BY <1>2 DEF After
      <4> QED
        BY <1>2, <4>1 DEF Adds, Locked
    <3> QED
      BY <1>6, <2>1, <3>1, <3>2, <3>3 DEF OnCourse
  <2>2. CASE u # t
    <3>1. work'[u] = work[u]
      BY <1>2, <2>2 DEF CallInv, Typed
    <3>2. PICK p \in Standings, q \in Over :
            Segment(Tag(u), work[u], p, q) /\ Locked(u, p) /\ Knows(u, p)
      BY DEF CallInv, OnCourse
    <3>3. Knows(u, p)' /\ Tag(u)' = Tag(u) /\ Locked(u, p)'
      BY <1>2, <2>2, <3>2, AddsOther
    <3> QED
      BY <3>1, <3>2, <3>3 DEF OnCourse
  <2> QED
    BY <2>1, <2>2
<1> QED
  BY <1>3, <1>4, <1>5, <1>7 DEF CallInv

----------------------------------------------------------------------------
(* The invariant *)

\* Before the first call nothing is held and nothing is to do.
LEMMA CallInit ==
  Init => CallInv
<1> SUFFICES ASSUME Init PROVE CallInv
  OBVIOUS
<1>1. Typed
  BY DEF Init, Typed, Nobody
<1>2. LocksInv
  BY DEF Init, LocksInv
<1>3. DOMAIN log = {} /\ DOMAIN answered = {} /\ reached = {} /\ \A t \in Threads : raised[t] = 0
  BY DEF Init
<1>4. BegunInv /\ HoldingApart /\ PagesInv
  BY <1>3 DEF BegunInv, HoldingApart, PagesInv
<1>5. ASSUME NEW t \in Threads PROVE OnCourse(t)
  <2>1. Fresh \in Standings /\ Fresh \in Over
    BY BeginsCalm DEF Over
  <2>2. Segment(Tag(t), work[t], Fresh, Fresh)
    BY <2>1, EmptySegment DEF Init
  <2>3. logLock[Home[t]].by # t
    BY TurnsAssumption DEF Init, Nobody
  <2>4. Locked(t, Fresh) /\ Written(t, Fresh) /\ Asked(t, Fresh)
    BY <1>3, <2>3, BeginsCalm DEF Locked, Written, Asked
  <2> QED
    BY <2>1, <2>2, <2>4 DEF OnCourse, Knows
<1> QED
  BY <1>1, <1>2, <1>4, <1>5 DEF CallInv

\* Where the project's variables stand still.
LEMMA CallStands ==
  CallInv /\ UNCHANGED vars => CallInv'
<1> SUFFICES ASSUME CallInv, UNCHANGED vars PROVE CallInv'
  OBVIOUS
<1>1. /\ work' = work /\ logLock' = logLock /\ file' = file /\ log' = log
      /\ raised' = raised /\ calls' = calls /\ answered' = answered /\ reached' = reached
      /\ lost' = lost
  BY DEF vars, locks, history
<1>2. Typed' /\ LocksInv' /\ BegunInv' /\ HoldingApart'
  BY <1>1 DEF CallInv, Typed, LocksInv, BegunInv, Begun, HoldingApart
<1>3. PagesInv'
  BY <1>1 DEF CallInv, PagesInv, Raised
<1>4. ASSUME NEW t \in Threads PROVE OnCourse(t)'
  <2>1. PICK a \in Standings, b \in Over :
          Segment(Tag(t), work[t], a, b) /\ Locked(t, a) /\ Knows(t, a)
    BY DEF CallInv, OnCourse
  <2>2. Knows(t, a)' /\ Tag(t)' = Tag(t)
    BY <1>1, <2>1, KnowsOn
  <2>3. Locked(t, a)'
    BY <1>1, <2>1 DEF Locked
  <2> QED
    BY <1>1, <2>1, <2>2, <2>3 DEF OnCourse
<1> QED
  BY <1>2, <1>3, <1>4 DEF CallInv

LEMMA CallNext ==
  CallInv /\ [Next]_vars => CallInv'
<1> SUFFICES ASSUME CallInv, [Next]_vars PROVE CallInv'
  OBVIOUS
<1>1. CASE UNCHANGED vars
  BY <1>1, CallStands
<1>2. ASSUME NEW t \in Threads, Begin(t) \/ Step(t) PROVE CallInv'
  <2>1. CASE Begin(t)
    BY <2>1, BeginHolds
  <2>2. CASE TakeHub(t) \/ Handler(t) \/ LeaveHub(t)
    BY <2>2, HubStepHolds
  <2>3. CASE TakeLog(t)
    BY <2>3, TakeLogHolds
  <2>4. CASE OpenFile(t)
    BY <2>4, OpenFileHolds
  <2>5. CASE Busy(t) \/ BusyInHandler(t)
    BY <2>5, BusyHolds
  <2>6. CASE LeaveLog(t)
    BY <2>6, LeaveLogHolds
  <2>7. CASE Write(t)
    BY <2>7, WriteHolds
  <2>8. CASE Page(t)
    BY <2>8, PageHolds
  <2> QED
    BY <1>2, <2>1, <2>2, <2>3, <2>4, <2>5, <2>6, <2>7, <2>8 DEF Step
<1> QED
  BY <1>1, <1>2 DEF Next

\* CallInv holds of every state, whatever the threads, processes and calls.
THEOREM CallInvariant ==
  Spec => []CallInv
BY CallInit, CallNext, PTL DEF Spec

\* holding() keeps other threads and processes out (core.py:366-370): what one
\* block records stands together on the log.
THEOREM HoldingCorrect ==
  Spec => []HoldingApart
<1>1. CallInv => HoldingApart
  BY DEF CallInv
<1> QED
  BY <1>1, CallInvariant, PTL

----------------------------------------------------------------------------
(* What the report reads: pair_escalations goes over the log once, and keeps at *)
(* each place what answers the escalations so far.                           *)

Named == {log[i].queue : i \in K!Of("escalation.raised", log) \cup
                                UNION {K!Of(k, log) : k \in K!NotifyOutcomes}}

Pairings == [answer : [Raised -> Nat], waiting : [Named -> Nat]]

PairFirst == [answer |-> [r \in Raised |-> 0], waiting |-> [q \in Named |-> 0]]

PairNext(p, n) ==
  CASE log[n].kind = "escalation.raised" -> [p EXCEPT !.waiting[log[n].queue] = n]
    [] log[n].kind \in K!NotifyOutcomes -> K!Answered(p, n, log[n])
    [] OTHER -> p

\* The answers that the entries up to the n-th give.
Answers(n) == [r \in Raised |-> IF r \in DOMAIN answered /\ answered[r] <= n THEN answered[r] ELSE 0]

\* No outcome on the log is unkeyed, and none is the second of its escalation.
LEMMA OneAnswer ==
  ASSUME CallInv, NEW n \in 1 .. Len(log), log[n].kind \in K!NotifyOutcomes
  PROVE  /\ log[n].raised \in Raised /\ log[n].raised \in DOMAIN answered
         /\ answered[log[n].raised] = n
         /\ log[n].raised # K!Unkeyed /\ log[n].raised # 0
<1>1. log \in Seq(Lines) /\ DOMAIN log = 1 .. Len(log)
  BY DEF CallInv, Typed
<1>2. log[n].raised \in DOMAIN answered /\ answered[log[n].raised] = n
  BY <1>1 DEF CallInv, PagesInv
<1>3. log[n].raised \in Raised
  BY <1>2 DEF CallInv, PagesInv
<1>4. log[n].raised \in 1 .. Len(log)
  BY <1>1, <1>3 DEF Raised
<1> QED
  BY <1>2, <1>3, <1>4 DEF K!Unkeyed

\* One entry of the log, read by pair_escalations.
LEMMA PairStep ==
  ASSUME CallInv, NEW n \in 1 .. Len(log), NEW p \in Pairings
  PROVE  /\ PairNext(p, n) \in Pairings
         /\ p.answer = Answers(n - 1) => PairNext(p, n).answer = Answers(n)
<1>1. log \in Seq(Lines) /\ DOMAIN log = 1 .. Len(log) /\ n \in Nat
  BY DEF CallInv, Typed
<1>2. p.answer \in [Raised -> Nat] /\ p.waiting \in [Named -> Nat]
  BY DEF Pairings
<1>3. ASSUME NEW r \in DOMAIN answered
      PROVE  r \in Raised /\ answered[r] \in Nat /\ (answered[r] = n => log[n].raised = r)
  <2>1. r \in Raised /\ answered[r] \in DOMAIN log /\ log[answered[r]].raised = r
    BY DEF CallInv, PagesInv
  <2> QED
    BY <1>1, <2>1
<1>4. ASSUME log[n].kind \notin K!NotifyOutcomes PROVE Answers(n) = Answers(n - 1)
  <2>1. \A r \in DOMAIN answered : answered[r] # n
    <3> SUFFICES ASSUME NEW r \in DOMAIN answered, answered[r] = n PROVE FALSE
      OBVIOUS
    <3>1. log[answered[r]].kind \in K!NotifyOutcomes
      BY DEF CallInv, PagesInv
    <3> QED
      BY <1>4, <3>1
  <2>2. \A r \in DOMAIN answered : answered[r] <= n <=> answered[r] <= n - 1
    BY <1>1, <1>3, <2>1
  <2> QED
    BY <2>2 DEF Answers
<1>5. CASE log[n].kind = "escalation.raised"
  <2>1. log[n].kind \notin K!NotifyOutcomes
    BY <1>5 DEF K!NotifyOutcomes
  <2>2. PairNext(p, n) = [p EXCEPT !.waiting[log[n].queue] = n]
    BY <1>5, <2>1 DEF PairNext
  <2>3. PairNext(p, n).answer = p.answer
    BY <2>2 DEF Pairings
  <2>4. PairNext(p, n).waiting = [p.waiting EXCEPT ![log[n].queue] = n]
    BY <2>2 DEF Pairings
  <2>5. PairNext(p, n).waiting \in [Named -> Nat]
    BY <1>1, <1>2, <2>4
  <2>6. PairNext(p, n) = [answer |-> p.answer, waiting |-> [p.waiting EXCEPT ![log[n].queue] = n]]
    BY <2>2 DEF Pairings
  <2>7. PairNext(p, n) \in Pairings
    BY <1>2, <2>4, <2>5, <2>6 DEF Pairings
  <2> QED
    BY <1>4, <2>1, <2>3, <2>7
<1>6. CASE log[n].kind \in K!NotifyOutcomes
  <2> DEFINE x == log[n].raised
             e == log[n]
  <2>1. x \in Raised /\ x \in DOMAIN answered /\ answered[x] = n /\ x # K!Unkeyed /\ x # 0
    BY <1>6, OneAnswer
  <2>2. PairNext(p, n) = K!Answered(p, n, e)
    BY <1>6 DEF PairNext, K!NotifyOutcomes
  <2>3. K!Answered(p, n, e) =
          IF p.answer[x] # 0 THEN p
          ELSE [answer  |-> [p.answer EXCEPT ![x] = n],
                waiting |-> [p.waiting EXCEPT ![e.queue] = IF @ = x THEN 0 ELSE @]]
    BY <2>1 DEF K!Answered
  <2>4. [p.answer EXCEPT ![x] = n] \in [Raised -> Nat]
    BY <1>1, <1>2
  <2>5. [p.waiting EXCEPT ![e.queue] = IF @ = x THEN 0 ELSE @] \in [Named -> Nat]
    BY <1>2
  <2>6. PairNext(p, n) \in Pairings
    <3> DEFINE b == [p.answer EXCEPT ![x] = n]
               w == [p.waiting EXCEPT ![e.queue] = IF @ = x THEN 0 ELSE @]
    <3>1. PairNext(p, n) = p \/ PairNext(p, n) = [answer |-> b, waiting |-> w]
      BY <2>2, <2>3
    <3>2. b \in [Raised -> Nat] /\ w \in [Named -> Nat]
      BY <2>4, <2>5
    <3> HIDE DEF b, w
    <3> QED
      BY <3>1, <3>2 DEF Pairings
  <2>7. ASSUME p.answer = Answers(n - 1) PROVE PairNext(p, n).answer = Answers(n)
    <3>1. p.answer[x] = 0
      <4>1. ~(answered[x] <= n - 1)
        BY <1>1, <2>1
      <4> QED
        BY <2>1, <2>7, <4>1 DEF Answers
    <3>2. PairNext(p, n).answer = [p.answer EXCEPT ![x] = n]
      BY <2>2, <2>3, <3>1
    <3>3. \A r \in DOMAIN answered : r # x => (answered[r] <= n <=> answered[r] <= n - 1)
      BY <1>1, <1>3
    <3>4. \A r \in Raised : Answers(n)[r] = IF r = x THEN n ELSE Answers(n - 1)[r]
      <4> HIDE DEF x
      <4> QED
        BY <1>1, <2>1, <3>3 DEF Answers
    <3>5. [p.answer EXCEPT ![x] = n] = [r \in Raised |-> IF r = x THEN n ELSE Answers(n - 1)[r]]
      BY <2>7 DEF Answers
    <3>6. Answers(n) = [r \in Raised |-> Answers(n)[r]]
      BY DEF Answers
    <3> HIDE DEF x
    <3> QED
      BY <3>2, <3>4, <3>5, <3>6
  <2> QED
    BY <2>6, <2>7
<1>7. CASE log[n].kind # "escalation.raised" /\ log[n].kind \notin K!NotifyOutcomes
  <2>1. PairNext(p, n) = p
    BY <1>7 DEF PairNext
  <2> QED
    BY <1>4, <1>7, <2>1
<1> QED
  BY <1>5, <1>6, <1>7

\* g goes over the first n entries.
Reading(g, n) ==
  /\ g \in [0 .. n -> Pairings] /\ g[0] = PairFirst
  /\ \A i \in 1 .. n : g[i] = PairNext(g[i - 1], i)

\* The whole log can be read: a reading of its first entries goes on by one.
LEMMA CanRead ==
  ASSUME CallInv
  PROVE  \E g : Reading(g, Len(log))
<1> DEFINE S == {n \in 1 .. Len(log) : ~\E g : Reading(g, n)}
<1>1. Len(log) \in Nat
  BY DEF CallInv, Typed
<1>2. \E g : Reading(g, 0)
  <2> DEFINE g == [i \in 0 .. 0 |-> PairFirst]
  <2>1. PairFirst \in Pairings
    BY DEF PairFirst, Pairings
  <2>2. g \in [0 .. 0 -> Pairings] /\ g[0] = PairFirst
    BY <2>1
  <2>3. \A i \in 1 .. 0 : FALSE
    OBVIOUS
  <2> HIDE DEF g
  <2> QED
    BY <2>2, <2>3 DEF Reading
<1>3. S = {}
  <2> SUFFICES ASSUME S # {} PROVE FALSE
    OBVIOUS
  <2>1. PICK n \in S : \A k \in S : n <= k
    BY <1>1, LeastOf
  <2>2. n \in 1 .. Len(log) /\ n - 1 \in 0 .. Len(log) /\ n - 1 \notin S
    BY <1>1, <2>1
  <2>3. PICK g : Reading(g, n - 1)
    <3>1. CASE n = 1
      BY <1>2, <3>1
    <3>2. CASE n # 1
      BY <1>1, <2>2, <3>2
    <3> QED
      BY <3>1, <3>2
  <2> DEFINE h == [i \in 0 .. n |-> IF i = n THEN PairNext(g[n - 1], n) ELSE g[i]]
  <2>4. g \in [0 .. n - 1 -> Pairings] /\ n - 1 \in 0 .. n - 1
    BY <1>1, <2>2, <2>3 DEF Reading
  <2>5. PairNext(g[n - 1], n) \in Pairings
    <3>1. g[n - 1] \in Pairings
      BY <2>4
    <3> QED
      BY <2>2, <3>1, PairStep
  <2>6. h \in [0 .. n -> Pairings]
    BY <1>1, <2>2, <2>4, <2>5
  <2>7. h[n] = PairNext(g[n - 1], n) /\ \A i \in 0 .. n - 1 : h[i] = g[i]
    BY <1>1, <2>2
  <2> HIDE DEF h
  <2>8. h[0] = PairFirst
    BY <1>1, <2>2, <2>3, <2>7 DEF Reading
  <2>9. ASSUME NEW i \in 1 .. n PROVE h[i] = PairNext(h[i - 1], i)
    <3>1. i - 1 \in 0 .. n - 1 /\ h[i - 1] = g[i - 1]
      BY <1>1, <2>2, <2>7
    <3>2. CASE i = n
      BY <2>7, <3>1, <3>2
    <3>3. CASE i # n
      <4>1. i \in 1 .. n - 1 /\ i \in 0 .. n - 1
        BY <1>1, <2>2, <3>3
      <4>2. g[i] = PairNext(g[i - 1], i)
        BY <2>3, <4>1 DEF Reading
      <4> QED
        BY <2>7, <3>1, <4>1, <4>2
    <3> QED
      BY <3>2, <3>3
  <2>10. Reading(h, n)
    BY <2>6, <2>8, <2>9 DEF Reading
  <2> QED
    BY <2>1, <2>10
<1> QED
  BY <1>1, <1>2, <1>3

\* So pair_escalations ends where a reading does.
LEMMA PairsRead ==
  ASSUME CallInv
  PROVE  \E g : /\ g = [n \in 0 .. Len(log) |-> IF n = 0 THEN PairFirst ELSE PairNext(g[n - 1], n)]
                /\ K!PairEscalations(log) = g[Len(log)].answer
<1> DEFINE F(g) == [n \in 0 .. Len(log) |-> IF n = 0 THEN PairFirst ELSE PairNext(g[n - 1], n)]
<1>1. Raised = K!Of("escalation.raised", log)
  BY DEF Raised, K!Of
<1>2. \E g : g = F(g)
  <2>1. Len(log) \in Nat
    BY DEF CallInv, Typed
  <2>2. PICK g : Reading(g, Len(log))
    BY CanRead
  <2>3. g = [n \in 0 .. Len(log) |-> g[n]]
    BY <2>2 DEF Reading
  <2>4. \A n \in 0 .. Len(log) : g[n] = IF n = 0 THEN PairFirst ELSE PairNext(g[n - 1], n)
    BY <2>1, <2>2 DEF Reading
  <2> QED
    BY <2>3, <2>4
<1>3. K!PairEscalations(log) = (CHOOSE g : g = F(g))[Len(log)].answer
  BY <1>1 DEF K!PairEscalations, PairFirst, PairNext, Named
<1> DEFINE h == CHOOSE g : g = F(g)
<1>4. h = F(h)
  <2> HIDE DEF F
  <2> QED
    BY <1>2
<1>5. K!PairEscalations(log) = h[Len(log)].answer
  BY <1>3
<1> HIDE DEF h
<1> QED
  BY <1>4, <1>5

\* The report answers each escalation with the outcome its own call wrote.
LEMMA PairsAnswers ==
  ASSUME CallInv
  PROVE  K!PairEscalations(log) =
           [r \in Raised |-> IF r \in DOMAIN answered THEN answered[r] ELSE 0]
<1>1. Len(log) \in Nat /\ DOMAIN log = 1 .. Len(log)
  BY DEF CallInv, Typed
<1>2. PICK g : /\ g = [n \in 0 .. Len(log) |-> IF n = 0 THEN PairFirst ELSE PairNext(g[n - 1], n)]
               /\ K!PairEscalations(log) = g[Len(log)].answer
  BY PairsRead
<1>3. /\ g[0] = PairFirst
      /\ \A n \in 1 .. Len(log) : g[n] = PairNext(g[n - 1], n)
  BY <1>1, <1>2
<1>4. \A r \in DOMAIN answered : r \in Raised /\ answered[r] \in 1 .. Len(log)
  BY <1>1 DEF CallInv, PagesInv
<1> DEFINE Good(n) == g[n] \in Pairings /\ g[n].answer = Answers(n)
           S == {n \in 1 .. Len(log) : ~Good(n)}
<1>5. Good(0)
  <2>1. PairFirst \in Pairings /\ PairFirst.answer = [r \in Raised |-> 0]
    BY DEF PairFirst, Pairings
  <2>2. Answers(0) = [r \in Raised |-> 0]
    BY <1>4 DEF Answers
  <2> QED
    BY <1>3, <2>1, <2>2
<1>6. S = {}
  <2> SUFFICES ASSUME S # {} PROVE FALSE
    OBVIOUS
  <2>1. PICK n \in S : \A k \in S : n <= k
    BY <1>1, LeastOf
  <2>2. n \in 1 .. Len(log) /\ ~Good(n) /\ n - 1 \in 0 .. Len(log) /\ n - 1 \notin S
    BY <1>1, <2>1
  <2>3. Good(n - 1)
    <3>1. CASE n = 1
      BY <1>5, <3>1
    <3>2. CASE n # 1
      BY <1>1, <2>2, <3>2
    <3> QED
      BY <3>1, <3>2
  <2>4. Good(n)
    BY <1>3, <2>2, <2>3, PairStep
  <2> QED
    BY <2>2, <2>4
<1>7. Good(Len(log))
  BY <1>1, <1>5, <1>6
<1>8. Answers(Len(log)) = [r \in Raised |-> IF r \in DOMAIN answered THEN answered[r] ELSE 0]
  BY <1>1, <1>4 DEF Answers
<1> QED
  BY <1>2, <1>7, <1>8

\* "An outcome is never shared" (kpi.py:48).
THEOREM PairsCorrect ==
  Spec => []PairsTrue
<1>1. CallInv => PairsTrue
  <2>1. K!Of("escalation.raised", log) = Raised
    BY DEF K!Of, Raised
  <2> QED
    BY <2>1, PairsAnswers DEF PairsTrue
<1> QED
  BY <1>1, CallInvariant, PTL

\* What the report says a person was told (kpi.py:149-167): a confirmed page
\* reached somebody, and a failed one did so only if that was lost on the way back.
THEOREM ReportCorrect ==
  Spec => []ReportTrue
<1>1. ASSUME CallInv PROVE ReportTrue
  <2> DEFINE a == K!PairEscalations(log)
  <2>1. a = [r \in Raised |-> IF r \in DOMAIN answered THEN answered[r] ELSE 0]
    BY <1>1, PairsAnswers
  <2> HIDE DEF a
  <2>2. ASSUME NEW r \in DOMAIN a, a[r] # 0
        PROVE  /\ a[r] \in DOMAIN log
               /\ log[a[r]].kind = "human.notified" /\ log[a[r]].transport # "not reported" =>
                    r \in reached
               /\ log[a[r]].kind = "human.notify_failed" /\ r \in reached => r \in lost
    <3>1. r \in DOMAIN answered /\ a[r] = answered[r]
      BY <2>1, <2>2
    <3>2. /\ answered[r] \in DOMAIN log /\ log[answered[r]].kind \in K!NotifyOutcomes
          /\ log[answered[r]].raised = r
      BY <1>1, <3>1 DEF CallInv, PagesInv
    <3>3. /\ log[answered[r]].kind = "human.notified"
               /\ log[answered[r]].transport # "not reported" => r \in reached
          /\ log[answered[r]].kind = "human.notify_failed" /\ r \in reached => r \in lost
      BY <1>1, <3>2 DEF CallInv, PagesInv
    <3> QED
      BY <3>1, <3>2, <3>3
  <2>3. K!Confirmed(log) \subseteq reached
    BY <2>2 DEF K!Confirmed, K!Notified, a
  <2>4. K!NotifyFailed(log) \cap reached \subseteq lost
    BY <2>2 DEF K!NotifyFailed, a
  <2> QED
    BY <2>3, <2>4 DEF ReportTrue
<1> QED
  BY <1>1, CallInvariant, PTL
=============================================================================
