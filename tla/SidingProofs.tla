---------------------------- MODULE SidingProofs ----------------------------
(***************************************************************************)
(* The siding scheduler, proved: class first, arrival order within it,     *)
(* nobody lost, and all of it told by the log.  The line of a spoke is its *)
(* holder, at place 0, and behind it the runs that wait; every method      *)
(* moves tickets about in one line.                                        *)
(***************************************************************************)
EXTENDS Siding, Positions

Tickets == [run : Run, class : 1 .. 4, ticket : 1 .. asks]

\* The typing that the other invariants rest on; a siding is no longer than the
\* requests made, and a ticket was handed out by one of them.
TypeOK ==
  /\ asks \in Nat /\ fails \in Nat
  /\ holding \in [Spoke -> Tickets \cup {Nobody}]
  /\ sidings \in [Spoke -> Seq(Tickets)]
  /\ \A s \in Spoke : Len(sidings[s]) <= asks
  /\ done \subseteq 1 .. asks

\* Who stands at place k of the line of holder h and siding q.
InLine(h, q, k) == IF k = 0 THEN h ELSE q[k]

\* Nobody waits at a free segment; class first, and arrival order within it.
InOrder(h, q) ==
  /\ h = Nobody => q = <<>>
  /\ \A k \in 0 .. Len(q) : h.class <= InLine(h, q, k).class
  /\ \A j, k \in 0 .. Len(q) :
       j < k /\ InLine(h, q, j).class = InLine(h, q, k).class =>
         InLine(h, q, j).ticket < InLine(h, q, k).ticket

\* The line of a spoke.
Places(s) == 0 .. Len(sidings[s])
At(s, k)  == InLine(holding[s], sidings[s], k)

\* Who asked and has not finished is somewhere, whatever raised.
Somewhere ==
  \A t \in 1 .. asks : t \in done \/ \E s \in Spoke : \E k \in Places(s) : At(s, k).ticket = t

\* No ticket is at two places, and no ticket that is done is at one.
Apart ==
  \A s, x \in Spoke : \A j \in Places(s), k \in Places(x) :
    /\ At(s, j).ticket \notin done
    /\ At(s, j).ticket = At(x, k).ticket /\ At(s, j) # Nobody => s = x /\ j = k

\* As long as no append raised.
Smooth == fails = 0 => Apart /\ \A s \in Spoke : InOrder(holding[s], sidings[s])

IInv == TypeOK /\ Somewhere /\ Smooth

----------------------------------------------------------------------------
(* What the helpers do *)

\* The position a release picks is of the best class, and the first of it.
LEMMA BestIsBest ==
  ASSUME NEW q \in Seq(Tickets), q # <<>>
  PROVE  /\ Best(q) \in 1 .. Len(q)
         /\ \A j \in 1 .. Len(q) :
              q[Best(q)].class < q[j].class \/ (q[Best(q)].class = q[j].class /\ Best(q) <= j)
<1> DEFINE classes == {q[i].class : i \in 1 .. Len(q)}
<1>1. Len(q) \in Nat \ {0} /\ DOMAIN q = 1 .. Len(q)
  OBVIOUS
<1>2. \A i \in 1 .. Len(q) : q[i].class \in 1 .. 4
  <2>1. \A i \in 1 .. Len(q) : q[i] \in Tickets
    OBVIOUS
  <2> QED
    BY <2>1 DEF Tickets
<1>3. classes \in SUBSET (1 .. 4) /\ classes # {}
  BY <1>1, <1>2
<1>4. PICK c \in classes : \A d \in classes : c <= d
  <2> HIDE DEF classes
  <2>1. 4 \in Nat
    OBVIOUS
  <2> QED
    BY <2>1, <1>3, LeastOf, Zenon
<1> DEFINE those == {i \in 1 .. Len(q) : q[i].class = c}
<1>5. those \in SUBSET (1 .. Len(q)) /\ those # {}
  BY <1>4
<1>6. PICK b \in those : \A j \in those : b <= j
  <2> HIDE DEF those
  <2> QED
    BY <1>1, <1>5, LeastOf
<1>7. \A j \in DOMAIN q : q[b].class < q[j].class \/ (q[b].class = q[j].class /\ b <= j)
  <2> SUFFICES ASSUME NEW j \in DOMAIN q
               PROVE  q[b].class < q[j].class \/ (q[b].class = q[j].class /\ b <= j)
    OBVIOUS
  <2>1. q[b].class = c /\ q[j].class \in classes /\ c <= q[j].class
    BY <1>1, <1>4, <1>6
  <2>2. q[j].class = c => b <= j
    BY <1>1, <1>6
  <2>3. c \in 1 .. 4 /\ q[j].class \in 1 .. 4
    BY <1>3, <2>1
  <2> HIDE DEF those, classes
  <2> QED
    BY <2>1, <2>2, <2>3
<1>8. b \in DOMAIN q
  BY <1>1, <1>6
<1>9. /\ Best(q) \in DOMAIN q
      /\ \A j \in DOMAIN q :
           q[Best(q)].class < q[j].class \/ (q[Best(q)].class = q[j].class /\ Best(q) <= j)
  <2> HIDE DEF those, classes
  <2> QED
    BY <1>7, <1>8, Zenon DEF Best
<1> QED
  BY <1>1, <1>9

\* What taking one element out of a queue leaves.
LEMMA Removed ==
  ASSUME NEW T, NEW q \in Seq(T), NEW b \in 1 .. Len(q)
  PROVE  /\ RemoveAt(q, b) \in Seq(T)
         /\ Len(RemoveAt(q, b)) = Len(q) - 1
         /\ \A k \in 1 .. Len(q) - 1 : RemoveAt(q, b)[k] = IF k < b THEN q[k] ELSE q[k + 1]
<1>1. SubSeq(q, 1, b - 1) \in Seq(T) /\ SubSeq(q, b + 1, Len(q)) \in Seq(T)
  OBVIOUS
<1>2. Len(SubSeq(q, 1, b - 1)) = b - 1 /\ Len(SubSeq(q, b + 1, Len(q))) = Len(q) - b
  OBVIOUS
<1> DEFINE front == SubSeq(q, 1, b - 1)
           back  == SubSeq(q, b + 1, Len(q))
<1>3. /\ \A k \in 1 .. b - 1 : front[k] = q[k]
      /\ \A k \in 1 .. Len(q) - b : back[k] = q[k + b]
  OBVIOUS
<1>0. front \in Seq(T) /\ back \in Seq(T) /\ Len(front) = b - 1 /\ Len(back) = Len(q) - b
  BY <1>1, <1>2
<1> HIDE DEF front, back
<1>4. /\ front \o back \in Seq(T)
      /\ Len(front \o back) = Len(q) - 1
      /\ \A k \in 1 .. Len(q) - 1 : (front \o back)[k] = IF k < b THEN front[k] ELSE back[k - b + 1]
  <2>1. b \in Nat \ {0} /\ Len(q) \in Nat /\ b <= Len(q)
    OBVIOUS
  <2>2. front \o back \in Seq(T) /\ Len(front \o back) = Len(front) + Len(back)
    BY <1>0
  <2>3. \A k \in 1 .. Len(front) + Len(back) :
          (front \o back)[k] = IF k <= Len(front) THEN front[k] ELSE back[k - Len(front)]
    BY <1>0
  <2> QED
    BY <1>0, <2>1, <2>2, <2>3
<1>5. RemoveAt(q, b) = front \o back
  BY DEF RemoveAt, front, back
<1>6. ASSUME NEW k \in 1 .. Len(q) - 1
      PROVE  RemoveAt(q, b)[k] = IF k < b THEN q[k] ELSE q[k + 1]
  <2>1. CASE k < b
    <3>1. front[k] = q[k]
      BY <1>3, <2>1
    <3> QED
      BY <3>1, <1>4, <1>5, <2>1
  <2>2. CASE ~(k < b)
    <3>1. k - b + 1 \in 1 .. Len(q) - b /\ (k - b + 1) + b = k + 1
      BY <2>2
    <3>2. back[k - b + 1] = q[(k - b + 1) + b]
      BY <1>3, <3>1
    <3> QED
      BY <3>1, <3>2, <1>4, <1>5, <2>2
  <2> QED
    BY <2>1, <2>2
<1> QED
  BY <1>4, <1>5, <1>6

\* What putting one in front, or behind, adds.
LEMMA Put ==
  ASSUME NEW T, NEW e \in T, NEW q \in Seq(T)
  PROVE  /\ <<e>> \o q \in Seq(T)
         /\ Len(<<e>> \o q) = Len(q) + 1
         /\ \A k \in 1 .. Len(q) + 1 : (<<e>> \o q)[k] = IF k = 1 THEN e ELSE q[k - 1]
         /\ Append(q, e) \in Seq(T)
         /\ Len(Append(q, e)) = Len(q) + 1
         /\ \A k \in 1 .. Len(q) + 1 : Append(q, e)[k] = IF k = Len(q) + 1 THEN e ELSE q[k]
  OBVIOUS

\* Who stands at a place of a line.
LEMMA Standing ==
  ASSUME TypeOK, NEW s \in Spoke
  PROVE  /\ Len(sidings[s]) \in Nat
         /\ \A k \in Places(s) : /\ At(s, k) \in Tickets \cup {Nobody}
                                 /\ k # 0 => At(s, k) \in Tickets
         /\ \A k \in Places(s) : /\ At(s, k).class \in 0 .. 4 /\ At(s, k).ticket \in 0 .. asks
                                 /\ At(s, k).ticket = 0 <=> At(s, k) = Nobody
                                 /\ At(s, k).class = 0 <=> At(s, k) = Nobody
<1>1. holding[s] \in Tickets \cup {Nobody} /\ sidings[s] \in Seq(Tickets)
  BY DEF TypeOK
<1>2. \A k \in 1 .. Len(sidings[s]) : sidings[s][k] \in Tickets
  BY <1>1
<1>3. Len(sidings[s]) \in Nat
  BY <1>1
<1>4. \A k \in Places(s) : At(s, k) \in Tickets \cup {Nobody} /\ (k # 0 => At(s, k) \in Tickets)
  BY <1>1, <1>2, <1>3 DEF Places, At, InLine
<1>5. \A e \in Tickets \cup {Nobody} :
        /\ e.class \in 0 .. 4 /\ e.ticket \in 0 .. asks
        /\ e.ticket = 0 <=> e = Nobody
        /\ e.class = 0 <=> e = Nobody
  BY DEF Tickets, Nobody, TypeOK
<1> QED
  BY <1>3, <1>4, <1>5

\* A step that changes one line leaves the others as they are.
LEMMA OneLine ==
  ASSUME TypeOK, NEW s \in Spoke, NEW h, NEW q,
         holding' = [holding EXCEPT ![s] = h], sidings' = [sidings EXCEPT ![s] = q]
  PROVE  /\ holding'[s] = h /\ sidings'[s] = q
         /\ Places(s)' = 0 .. Len(q) /\ \A k : At(s, k)' = InLine(h, q, k)
         /\ \A x \in Spoke \ {s} : holding'[x] = holding[x] /\ sidings'[x] = sidings[x]
         /\ \A x \in Spoke \ {s} : Places(x)' = Places(x) /\ \A k : At(x, k)' = At(x, k)
  BY DEF TypeOK, Places, At, InLine

\* A siding that keeps its runs, in a step that changes the holder alone.
LEMMA SameSiding ==
  ASSUME TypeOK, NEW s \in Spoke, UNCHANGED sidings
  PROVE  sidings' = [sidings EXCEPT ![s] = sidings[s]]
  BY DEF TypeOK

\* What the appends leave of fails.
LEMMA FailsType ==
  ASSUME TypeOK, NEW events, NEW k, Appends(events, k)
  PROVE  fails' \in Nat /\ (fails' = 0 => fails = 0 /\ ~(k < Len(events)))
  BY DEF Appends, TypeOK

\* A request numbers its ticket, and keeps the old ones apart from it.
LEMMA NewTicket ==
  ASSUME TypeOK, NEW r \in Run, Asks(r)
  PROVE  /\ asks \in Nat /\ asks' = asks + 1
         /\ Ticket(r) \in Tickets' /\ Ticket(r).ticket = asks + 1 /\ Ticket(r).class = Class[r]
         /\ Tickets \subseteq Tickets'
         /\ Ticket(r) # Nobody
  BY ClassAssumption DEF Asks, Ticket, Tickets, TypeOK, Nobody

----------------------------------------------------------------------------
(* Lines in order *)

\* Who outranks the holder stands before it and everybody behind it.
LEMMA OrderPreempted ==
  ASSUME NEW h \in Tickets, NEW q \in Seq(Tickets), InOrder(h, q),
         NEW e, e.class \in 1 .. 4, e # Nobody, e.class < h.class
  PROVE  InOrder(e, <<h>> \o q)
<1> DEFINE q2 == <<h>> \o q
<1>1. /\ Len(q) \in Nat /\ Len(q2) = Len(q) + 1
      /\ \A k \in 1 .. Len(q) + 1 : q2[k] = IF k = 1 THEN h ELSE q[k - 1]
  BY Put
<1> HIDE DEF q2
<1>2. \A k \in 0 .. Len(q) : InLine(h, q, k) \in Tickets
  BY DEF InLine
<1>3. \A k \in 0 .. Len(q) : InLine(h, q, k).class \in 1 .. 4 /\ h.class \in 1 .. 4
  BY <1>2 DEF Tickets
<1>4. \A k \in 1 .. Len(q2) : InLine(e, q2, k) = InLine(h, q, k - 1) /\ k - 1 \in 0 .. Len(q)
  BY <1>1 DEF InLine
<1>5. InLine(e, q2, 0) = e
  BY DEF InLine
<1>6. \A k \in 1 .. Len(q2) : e.class < InLine(e, q2, k).class
  BY <1>1, <1>3, <1>4 DEF InOrder
<1>7. \A k \in 0 .. Len(q2) : e.class <= InLine(e, q2, k).class
  <2> SUFFICES ASSUME NEW k \in 0 .. Len(q2) PROVE e.class <= InLine(e, q2, k).class
    OBVIOUS
  <2>1. CASE k = 0
    BY <1>5, <2>1
  <2>2. CASE k # 0
    <3>1. k \in 1 .. Len(q2) /\ InLine(e, q2, k).class \in 1 .. 4
      BY <1>1, <1>3, <1>4, <2>2
    <3> QED
      BY <1>6, <3>1
  <2> QED
    BY <2>1, <2>2
<1>8. ASSUME NEW j \in 0 .. Len(q2), NEW k \in 0 .. Len(q2), j < k,
             InLine(e, q2, j).class = InLine(e, q2, k).class
      PROVE  InLine(e, q2, j).ticket < InLine(e, q2, k).ticket
  <2>1. k \in 1 .. Len(q2) /\ j # 0
    BY <1>1, <1>3, <1>4, <1>5, <1>6, <1>8
  <2>2. j \in 1 .. Len(q2) /\ j - 1 < k - 1
    BY <1>1, <1>8, <2>1
  <2> QED
    BY <1>4, <1>8, <2>1, <2>2 DEF InOrder
<1> QED
  BY <1>7, <1>8 DEF InOrder, q2

\* Who does not outrank the holder, and asked last, stands at the end.
LEMMA OrderWaiting ==
  ASSUME NEW h \in Tickets, NEW q \in Seq(Tickets), InOrder(h, q),
         NEW T, Tickets \subseteq T, NEW e \in T, e.class \in 1 .. 4, h.class <= e.class,
         \A k \in 0 .. Len(q) : InLine(h, q, k).ticket < e.ticket
  PROVE  InOrder(h, Append(q, e))
<1> DEFINE q2 == Append(q, e)
<1>1. Len(q) \in Nat /\ q \in Seq(T)
  OBVIOUS
<1>2. /\ Len(q2) = Len(q) + 1
      /\ \A k \in 1 .. Len(q) + 1 : q2[k] = IF k = Len(q) + 1 THEN e ELSE q[k]
  BY <1>1, Put
<1> HIDE DEF q2
<1>3. /\ \A k \in 0 .. Len(q) : InLine(h, q2, k) = InLine(h, q, k)
      /\ InLine(h, q2, Len(q) + 1) = e
  BY <1>1, <1>2 DEF InLine
<1>4. h # Nobody
  BY DEF Tickets, Nobody
<1>5. \A k \in 0 .. Len(q2) : h.class <= InLine(h, q2, k).class
  BY <1>1, <1>2, <1>3 DEF InOrder
<1>6. ASSUME NEW j \in 0 .. Len(q2), NEW k \in 0 .. Len(q2), j < k,
             InLine(h, q2, j).class = InLine(h, q2, k).class
      PROVE  InLine(h, q2, j).ticket < InLine(h, q2, k).ticket
  <2>1. j \in 0 .. Len(q) /\ k \in 0 .. Len(q) \cup {Len(q) + 1}
    BY <1>1, <1>2, <1>6
  <2> QED
    BY <1>3, <1>6, <2>1 DEF InOrder
<1> QED
  BY <1>4, <1>5, <1>6 DEF InOrder, q2

\* The first of the best class goes first, and the others keep their order.
LEMMA OrderResumed ==
  ASSUME TypeOK, NEW h \in Tickets, NEW q \in Seq(Tickets), InOrder(h, q), q # <<>>
  PROVE  InOrder(q[Best(q)], RemoveAt(q, Best(q)))
<1> DEFINE b == Best(q)
           q2 == RemoveAt(q, b)
           from == [k \in 0 .. Len(q) - 1 |-> IF k = 0 THEN b ELSE IF k < b THEN k ELSE k + 1]
<1>1. /\ Len(q) \in Nat \ {0} /\ b \in 1 .. Len(q)
      /\ \A j \in 1 .. Len(q) : q[b].class < q[j].class \/ (q[b].class = q[j].class /\ b <= j)
  BY BestIsBest
<1> HIDE DEF b
<1>2. /\ Len(q2) = Len(q) - 1
      /\ \A k \in 1 .. Len(q) - 1 : q2[k] = IF k < b THEN q[k] ELSE q[k + 1]
  BY <1>1, Removed
<1> HIDE DEF q2
<1>3. \A k \in 0 .. Len(q2) : from[k] \in 1 .. Len(q) /\ InLine(q[b], q2, k) = q[from[k]]
  BY <1>1, <1>2 DEF InLine
<1>4. \A i \in 1 .. Len(q) : q[i].class \in 1 .. 4 /\ q[i].ticket \in Nat /\ q[i] # Nobody
  <2>1. \A i \in 1 .. Len(q) : q[i] \in Tickets
    OBVIOUS
  <2> QED
    BY <2>1 DEF Tickets, Nobody, TypeOK
<1>5. \A i, j \in 1 .. Len(q) : i < j /\ q[i].class = q[j].class => q[i].ticket < q[j].ticket
  BY <1>1 DEF InOrder, InLine
<1>6. \A j, k \in 0 .. Len(q2) :
        j < k => from[j] < from[k] \/ (j = 0 /\ from[j] = b /\ from[k] < b)
  BY <1>1, <1>2
<1> HIDE DEF from
<1>7. \A k \in 0 .. Len(q2) : q[b].class <= InLine(q[b], q2, k).class
  <2> SUFFICES ASSUME NEW k \in 0 .. Len(q2) PROVE q[b].class <= InLine(q[b], q2, k).class
    OBVIOUS
  <2>1. \A i \in 1 .. Len(q) : q[b].class <= q[i].class
    BY <1>1, <1>4
  <2> QED
    BY <1>3, <2>1
<1>8. ASSUME NEW j \in 0 .. Len(q2), NEW k \in 0 .. Len(q2), j < k,
             InLine(q[b], q2, j).class = InLine(q[b], q2, k).class
      PROVE  InLine(q[b], q2, j).ticket < InLine(q[b], q2, k).ticket
  <2>1. from[j] \in 1 .. Len(q) /\ from[k] \in 1 .. Len(q) /\ q[from[j]].class = q[from[k]].class
    BY <1>3, <1>8
  <2>2. from[j] < from[k]
    <3>1. from[j] < from[k] \/ (from[j] = b /\ from[k] < b)
      BY <1>6, <1>8
    <3>2. \A i \in 1 .. Len(q) : i < b => q[i].class # q[b].class
      <4> SUFFICES ASSUME NEW i \in 1 .. Len(q), i < b PROVE q[i].class # q[b].class
        OBVIOUS
      <4>1. q[b].class < q[i].class \/ b <= i
        BY <1>1
      <4>2. q[b].class \in Nat /\ q[i].class \in Nat /\ ~(b <= i)
        BY <1>1, <1>4
      <4> QED
        BY <4>1, <4>2
    <3> QED
      BY <2>1, <3>1, <3>2
  <2> QED
    BY <1>3, <1>5, <2>1, <2>2
<1> QED
  BY <1>1, <1>4, <1>7, <1>8 DEF InOrder, q2, b

----------------------------------------------------------------------------
(* One line changes *)

\* A step gives spoke s the holder h and the siding q.
Becomes(s, h, q) ==
  /\ holding' = [holding EXCEPT ![s] = h]
  /\ sidings' = [sidings EXCEPT ![s] = q]

\* A step that replaces one spoke by typed ones keeps the types.
LEMMA StaysTyped ==
  ASSUME TypeOK, NEW s \in Spoke, NEW h \in Tickets' \cup {Nobody}, NEW q \in Seq(Tickets'),
         Becomes(s, h, q), asks' \in {asks, asks + 1}, Len(q) <= asks', fails' \in Nat,
         done' \subseteq 1 .. asks'
  PROVE  TypeOK'
<1>1. asks' \in Nat /\ Tickets \subseteq Tickets'
  BY DEF TypeOK, Tickets
<1>2. \A x \in Spoke : sidings[x] \in Seq(Tickets') /\ Len(sidings[x]) <= asks'
  <2> SUFFICES ASSUME NEW x \in Spoke
               PROVE  sidings[x] \in Seq(Tickets') /\ Len(sidings[x]) <= asks'
    OBVIOUS
  <2>1. sidings[x] \in Seq(Tickets) /\ Len(sidings[x]) <= asks /\ Len(sidings[x]) \in Nat
    BY DEF TypeOK
  <2>2. \A k \in 1 .. Len(sidings[x]) : sidings[x][k] \in Tickets'
    BY <1>1, <2>1
  <2> QED
    BY <2>1, <2>2 DEF TypeOK
<1>3. holding' \in [Spoke -> Tickets' \cup {Nobody}]
  BY <1>1 DEF TypeOK, Becomes
<1>4. sidings' \in [Spoke -> Seq(Tickets')] /\ \A x \in Spoke : Len(sidings'[x]) <= asks'
  BY <1>2 DEF TypeOK, Becomes
<1> QED
  BY <1>1, <1>3, <1>4 DEF TypeOK

\* A step that drops only the done keeps everybody somewhere.
LEMMA StaysSomewhere ==
  ASSUME TypeOK, Somewhere, NEW s \in Spoke, NEW h, NEW q, Becomes(s, h, q),
         done \subseteq done', asks' \in {asks, asks + 1},
         asks' = asks + 1 => \/ asks + 1 \in done'
                             \/ \E k \in 0 .. Len(q) : InLine(h, q, k).ticket = asks + 1,
         \A i \in Places(s) : \/ At(s, i) = Nobody
                              \/ At(s, i).ticket \in done'
                              \/ \E k \in 0 .. Len(q) : InLine(h, q, k).ticket = At(s, i).ticket
  PROVE  Somewhere'
<1>1. /\ Places(s)' = 0 .. Len(q) /\ \A k : At(s, k)' = InLine(h, q, k)
      /\ \A x \in Spoke \ {s} : Places(x)' = Places(x) /\ \A k : At(x, k)' = At(x, k)
  BY OneLine DEF Becomes
<1> SUFFICES ASSUME NEW t \in 1 .. asks', t \notin done'
             PROVE  (\E x \in Spoke : \E k \in Places(x) : At(x, k).ticket = t)'
  BY DEF Somewhere
<1>2. CASE t = asks + 1
  BY <1>1, <1>2 DEF TypeOK
<1>3. CASE t # asks + 1
  <2>1. t \in 1 .. asks /\ t \notin done
    BY <1>3 DEF TypeOK
  <2>2. PICK x \in Spoke : \E i \in Places(x) : At(x, i).ticket = t
    BY <2>1 DEF Somewhere
  <2>3. PICK i \in Places(x) : At(x, i).ticket = t
    BY <2>2
  <2>4. At(x, i) # Nobody
    BY <2>1, <2>3 DEF Nobody
  <2> QED
    BY <1>1, <2>3, <2>4
<1> QED
  BY <1>2, <1>3

\* A step that places nobody twice keeps the places apart.
LEMMA StaysApart ==
  ASSUME TypeOK, Apart, NEW s \in Spoke, NEW h, NEW q, Becomes(s, h, q),
         asks + 1 \notin done',
         \A j \in 0 .. Len(q) : \/ InLine(h, q, j) = Nobody
                                \/ InLine(h, q, j).ticket = asks + 1
                                \/ \E i \in Places(s) : InLine(h, q, j) = At(s, i),
         \A j \in 0 .. Len(q) : InLine(h, q, j).ticket \notin done',
         \A j, k \in 0 .. Len(q) :
           InLine(h, q, j).ticket = InLine(h, q, k).ticket /\ InLine(h, q, j) # Nobody => j = k,
         0 \notin done',
         \A d \in done' : d \in done \/ \E i \in Places(s) : d = At(s, i).ticket
  PROVE  Apart'
<1>1. /\ Places(s)' = 0 .. Len(q) /\ \A k : At(s, k)' = InLine(h, q, k)
      /\ \A x \in Spoke \ {s} : Places(x)' = Places(x) /\ \A k : At(x, k)' = At(x, k)
  BY OneLine DEF Becomes
<1>2. \A x \in Spoke : \A k \in Places(x) :
        /\ At(x, k).ticket \in 0 .. asks
        /\ At(x, k).ticket = 0 <=> At(x, k) = Nobody
  BY Standing
<1>3. \A x \in Spoke \ {s} : \A k \in Places(x) : \A i \in Places(s) :
        At(x, k).ticket # At(s, i).ticket \/ At(x, k) = Nobody \/ At(s, i) = Nobody
  BY DEF Apart
<1>4. \A x \in Spoke \ {s} : \A k \in Places(x) : At(x, k).ticket \notin done'
  BY <1>2, <1>3 DEF Apart
<1>5. \A x \in Spoke \ {s} : \A k \in Places(x) : \A j \in 0 .. Len(q) :
        At(x, k).ticket = InLine(h, q, j).ticket => At(x, k) = Nobody /\ InLine(h, q, j) = Nobody
  <2> SUFFICES ASSUME NEW x \in Spoke \ {s}, NEW k \in Places(x), NEW j \in 0 .. Len(q),
                      At(x, k).ticket = InLine(h, q, j).ticket
               PROVE  At(x, k) = Nobody /\ InLine(h, q, j) = Nobody
    OBVIOUS
  <2>1. asks \in Nat
    BY DEF TypeOK
  <2>2. CASE InLine(h, q, j) = Nobody
    BY <1>2, <2>2 DEF Nobody
  <2>3. CASE InLine(h, q, j).ticket = asks + 1
    BY <1>2, <2>1, <2>3
  <2>4. CASE \E i \in Places(s) : InLine(h, q, j) = At(s, i)
    BY <1>2, <1>3, <2>4
  <2> QED
    BY <2>2, <2>3, <2>4
<1> SUFFICES ASSUME NEW x \in Spoke, NEW y \in Spoke,
                    NEW j \in Places(x)', NEW k \in Places(y)'
             PROVE  /\ At(x, j)'.ticket \notin done'
                    /\ At(x, j)'.ticket = At(y, k)'.ticket /\ At(x, j)' # Nobody => x = y /\ j = k
  BY DEF Apart
<1>6. CASE x = s /\ y = s
  BY <1>1, <1>6
<1>7. CASE x = s /\ y # s
  BY <1>1, <1>5, <1>7
<1>8. CASE x # s /\ y = s
  BY <1>1, <1>4, <1>5, <1>8
<1>9. CASE x # s /\ y # s
  BY <1>1, <1>4, <1>9 DEF Apart
<1> QED
  BY <1>6, <1>7, <1>8, <1>9

\* The other lines stay in order.
LEMMA StaysInOrder ==
  ASSUME TypeOK, NEW s \in Spoke, NEW h, NEW q, Becomes(s, h, q), InOrder(h, q),
         \A x \in Spoke : InOrder(holding[x], sidings[x])
  PROVE  (\A x \in Spoke : InOrder(holding[x], sidings[x]))'
<1>1. /\ holding'[s] = h /\ sidings'[s] = q
      /\ \A x \in Spoke \ {s} : holding'[x] = holding[x] /\ sidings'[x] = sidings[x]
  BY OneLine DEF Becomes
<1>2. \A x \in Spoke : InOrder(holding'[x], sidings'[x])
  BY <1>1
<1> QED
  BY <1>2 DEF InOrder

----------------------------------------------------------------------------
(* Every method keeps the invariant *)

\* How many appends a call makes.
LEMMA LenOfEvents ==
  /\ \A a : Len(<<a>>) = 1
  /\ \A a, b : Len(<<a, b>>) = 2
  /\ \A a, b, c : Len(<<a, b, c>>) = 3
  OBVIOUS

\* A grant keeps the invariant.
LEMMA GrantKeeps ==
  ASSUME IInv, NEW r \in Run, NEW s \in Spoke, Grant(r, s)
  PROVE  IInv'
<1> DEFINE e == Ticket(r)  q == sidings[s]
<1>1. TypeOK /\ Asks(r) /\ holding[s] = Nobody /\ done' = done /\ sidings' = sidings
  BY DEF IInv, Grant
<1>2. Becomes(s, e, q)
  BY <1>1, SameSiding DEF Grant, Becomes
<1>3. /\ asks \in Nat /\ asks' = asks + 1
      /\ e \in Tickets' /\ e.ticket = asks + 1 /\ e # Nobody /\ Tickets \subseteq Tickets'
  BY <1>1, NewTicket
<1>4. fails' \in Nat /\ (fails' = 0 => fails = 0)
  BY <1>1, FailsType DEF Grant
<1>5. q \in Seq(Tickets) /\ Len(q) \in Nat /\ Len(q) <= asks /\ done \subseteq 1 .. asks
  BY <1>1 DEF TypeOK
<1>6. InLine(e, q, 0) = e /\ \A k \in 1 .. Len(q) : InLine(e, q, k) = At(s, k) /\ k \in Places(s)
  BY <1>5 DEF InLine, At, Places
<1>7. At(s, 0) = Nobody
  BY <1>1 DEF At, InLine
<1> HIDE DEF e, q
<1>8. TypeOK'
  <2>1. q \in Seq(Tickets')
    BY <1>3, <1>5
  <2> QED
    BY <1>1, <1>2, <1>3, <1>4, <1>5, <2>1, StaysTyped
<1>9. Somewhere'
  <2>1. \A i \in Places(s) : i = 0 \/ i \in 1 .. Len(q)
    BY <1>5 DEF Places, q
  <2>2. \A i \in Places(s) : At(s, i) = Nobody \/ \E k \in 0 .. Len(q) : InLine(e, q, k).ticket = At(s, i).ticket
    BY <1>5, <1>6, <1>7, <2>1
  <2>3. \E k \in 0 .. Len(q) : InLine(e, q, k).ticket = asks + 1
    BY <1>3, <1>5, <1>6
  <2> QED
    BY <1>1, <1>2, <1>3, <2>2, <2>3, StaysSomewhere DEF IInv
<1>10. ASSUME fails' = 0 PROVE Apart' /\ (\A x \in Spoke : InOrder(holding[x], sidings[x]))'
  <2>1. Apart /\ \A x \in Spoke : InOrder(holding[x], sidings[x])
    BY <1>4, <1>10 DEF IInv, Smooth
  <2>2. q = <<>> /\ Len(q) = 0
    BY <1>1, <2>1 DEF InOrder, q
  <2>3. \A j \in 0 .. Len(q) : InLine(e, q, j) = e
    BY <1>6, <2>2
  <2>4. InOrder(e, q)
    BY <1>3, <2>2, <2>3 DEF InOrder, Tickets
  <2>5. asks + 1 \notin done /\ 0 \notin done
    BY <1>3, <1>5
  <2>6. Apart'
    BY <1>1, <1>2, <1>3, <2>1, <2>2, <2>3, <2>5, StaysApart
  <2> QED
    BY <1>1, <1>2, <2>1, <2>4, <2>6, StaysInOrder
<1> QED
  BY <1>8, <1>9, <1>10 DEF IInv, Smooth

\* A wait keeps it.
LEMMA WaitKeeps ==
  ASSUME IInv, NEW r \in Run, NEW s \in Spoke, Wait(r, s)
  PROVE  IInv'
<1> DEFINE e == Ticket(r)  h == holding[s]  q == sidings[s]  q2 == Append(q, e)
<1>1. /\ TypeOK /\ Asks(r) /\ h # Nobody /\ ~(Class[r] < h.class)
      /\ done' = done /\ holding' = holding /\ sidings' = [sidings EXCEPT ![s] = q2]
  BY DEF IInv, Wait, Outranks
<1>2. Becomes(s, h, q2)
  BY <1>1 DEF Becomes, TypeOK
<1>3. /\ asks \in Nat /\ asks' = asks + 1
      /\ e \in Tickets' /\ e.ticket = asks + 1 /\ e # Nobody /\ Tickets \subseteq Tickets'
      /\ e.class = Class[r]
  BY <1>1, NewTicket
<1>4. fails' \in Nat /\ (fails' = 0 => fails = 0)
  BY <1>1, FailsType DEF Wait
<1>5. /\ q \in Seq(Tickets) /\ Len(q) \in Nat /\ Len(q) <= asks /\ done \subseteq 1 .. asks
      /\ h \in Tickets
  BY <1>1 DEF TypeOK
<1>6. /\ q \in Seq(Tickets') /\ q2 \in Seq(Tickets') /\ Len(q2) = Len(q) + 1
      /\ \A k \in 1 .. Len(q) + 1 : q2[k] = IF k = Len(q) + 1 THEN e ELSE q[k]
  <2>1. q \in Seq(Tickets')
    BY <1>3, <1>5
  <2> HIDE DEF e
  <2> QED
    BY <1>3, <2>1, Put
<1>7. /\ \A k \in 0 .. Len(q) : InLine(h, q2, k) = At(s, k) /\ k \in Places(s)
      /\ InLine(h, q2, Len(q) + 1) = e
      /\ \A k \in Places(s) : k \in 0 .. Len(q)
  BY <1>5, <1>6 DEF InLine, At, Places
<1> HIDE DEF e, h, q, q2
<1>8. TypeOK'
  BY <1>1, <1>2, <1>3, <1>4, <1>5, <1>6, StaysTyped
<1>9. Somewhere'
  <2>1. \A i \in Places(s) : \E k \in 0 .. Len(q2) : InLine(h, q2, k).ticket = At(s, i).ticket
    BY <1>5, <1>6, <1>7
  <2>2. \E k \in 0 .. Len(q2) : InLine(h, q2, k).ticket = asks + 1
    BY <1>3, <1>5, <1>6, <1>7
  <2> QED
    BY <1>1, <1>2, <1>3, <2>1, <2>2, StaysSomewhere DEF IInv
<1>10. ASSUME fails' = 0 PROVE Apart' /\ (\A x \in Spoke : InOrder(holding[x], sidings[x]))'
  <2>1. Apart /\ \A x \in Spoke : InOrder(holding[x], sidings[x])
    BY <1>4, <1>10 DEF IInv, Smooth
  <2>2. \A k \in Places(s) : At(s, k).ticket \in 0 .. asks
    BY <1>1, Standing
  <2>3. InOrder(h, q2)
    <3>1. \A k \in 0 .. Len(q) : InLine(h, q, k).ticket < e.ticket
      BY <1>3, <1>7, <2>2 DEF At, h, q
    <3>2. e.class \in 1 .. 4 /\ h.class \in 1 .. 4
      BY <1>3, <1>5 DEF Tickets
    <3>3. InOrder(h, q) /\ h.class <= e.class
      BY <1>1, <1>3, <2>1, <3>2 DEF h, q
    <3> QED
      BY <1>3, <1>5, <3>1, <3>2, <3>3, OrderWaiting DEF q2
  <2>4. asks + 1 \notin done /\ 0 \notin done
    BY <1>3, <1>5
  <2>5. \A j \in 0 .. Len(q2) : j \in 0 .. Len(q) \/ j = Len(q) + 1
    BY <1>5, <1>6
  <2>6. \A j \in 0 .. Len(q2) : \/ InLine(h, q2, j).ticket = asks + 1
                                \/ \E i \in Places(s) : InLine(h, q2, j) = At(s, i)
    BY <1>3, <1>7, <2>5
  <2>7. \A j \in 0 .. Len(q2) : InLine(h, q2, j).ticket \notin done
    BY <1>3, <1>7, <2>1, <2>4, <2>5 DEF Apart
  <2>8. \A j, k \in 0 .. Len(q2) :
          InLine(h, q2, j).ticket = InLine(h, q2, k).ticket /\ InLine(h, q2, j) # Nobody => j = k
    <3> SUFFICES ASSUME NEW j \in 0 .. Len(q2), NEW k \in 0 .. Len(q2),
                        InLine(h, q2, j).ticket = InLine(h, q2, k).ticket, InLine(h, q2, j) # Nobody
                 PROVE  j = k
      OBVIOUS
    <3>1. CASE j \in 0 .. Len(q) /\ k \in 0 .. Len(q)
      BY <1>7, <2>1, <3>1 DEF Apart
    <3>2. ASSUME NEW i \in 0 .. Len(q) PROVE InLine(h, q2, i).ticket # asks + 1
      BY <1>3, <1>7, <2>2
    <3> QED
      BY <1>3, <1>7, <2>5, <3>1, <3>2
  <2>9. Apart'
    BY <1>1, <1>2, <2>1, <2>4, <2>6, <2>7, <2>8, StaysApart
  <2> QED
    BY <1>1, <1>2, <2>1, <2>3, <2>9, StaysInOrder
<1> QED
  BY <1>8, <1>9, <1>10 DEF IInv, Smooth

\* A preemption keeps it: the run it interrupts goes to the head of its class.
LEMMA PreemptKeeps ==
  ASSUME IInv, NEW r \in Run, NEW s \in Spoke, Preempt(r, s)
  PROVE  IInv'
<1> DEFINE e == Ticket(r)  h == holding[s]  q == sidings[s]  q2 == <<h>> \o q
           events == <<Event("siding.hold", holding[s].run, s), Event("segment.grant", r, s)>>
<1>1. TypeOK /\ Asks(r) /\ h # Nobody /\ Class[r] < h.class /\ sidings' = [sidings EXCEPT ![s] = q2]
  BY DEF IInv, Preempt, Outranks
<1>2. PICK n \in 0 .. 2 :
        /\ Appends(events, n)
        /\ holding' = IF n = 0 THEN holding ELSE [holding EXCEPT ![s] = e]
        /\ done' = IF n = 0 THEN done \cup {asks + 1} ELSE done
  BY DEF Preempt
<1>3. /\ asks \in Nat /\ asks' = asks + 1
      /\ e \in Tickets' /\ e.ticket = asks + 1 /\ e # Nobody /\ Tickets \subseteq Tickets'
      /\ e.class = Class[r]
  BY <1>1, NewTicket
<1>4. fails' \in Nat /\ (fails' = 0 => fails = 0 /\ n = 2)
  <2>1. Len(events) = 2
    BY LenOfEvents
  <2>2. fails' \in Nat /\ (fails' = 0 => fails = 0 /\ ~(n < Len(events)))
    <3> HIDE DEF events
    <3> QED
      BY <1>1, <1>2, FailsType
  <2> HIDE DEF events
  <2> QED
    BY <2>1, <2>2
<1>5. /\ q \in Seq(Tickets) /\ Len(q) \in Nat /\ Len(q) <= asks /\ done \subseteq 1 .. asks
      /\ h \in Tickets
  BY <1>1 DEF TypeOK
<1>6. /\ q2 \in Seq(Tickets') /\ Len(q2) = Len(q) + 1
      /\ \A k \in 1 .. Len(q) + 1 : q2[k] = IF k = 1 THEN h ELSE q[k - 1]
  <2>1. q \in Seq(Tickets') /\ h \in Tickets'
    BY <1>3, <1>5
  <2> HIDE DEF h
  <2> QED
    BY <2>1, Put
<1>7. /\ \A g : \A k \in 1 .. Len(q2) : InLine(g, q2, k) = At(s, k - 1) /\ k - 1 \in Places(s)
      /\ \A k \in Places(s) : k + 1 \in 1 .. Len(q2) /\ (k + 1) - 1 = k
  BY <1>5, <1>6 DEF InLine, At, Places
<1> DEFINE g == IF n = 0 THEN h ELSE e
<1>8. Becomes(s, g, q2) /\ g \in Tickets'
  BY <1>1, <1>2, <1>3, <1>5 DEF Becomes, TypeOK
<1>9. InLine(g, q2, 0) = g
  BY DEF InLine
<1>10. g = IF n = 0 THEN h ELSE e
  OBVIOUS
<1> HIDE DEF e, h, q, q2, events, g
<1>11. TypeOK'
  BY <1>1, <1>2, <1>3, <1>4, <1>5, <1>6, <1>8, StaysTyped
<1>12. Somewhere'
  <2>1. \A i \in Places(s) : \E k \in 0 .. Len(q2) : InLine(g, q2, k).ticket = At(s, i).ticket
    <3> SUFFICES ASSUME NEW i \in Places(s)
                 PROVE  \E k \in 0 .. Len(q2) : InLine(g, q2, k).ticket = At(s, i).ticket
      OBVIOUS
    <3>1. i + 1 \in 0 .. Len(q2) /\ InLine(g, q2, i + 1) = At(s, i)
      BY <1>7
    <3> QED
      BY <3>1
  <2>2. asks + 1 \in done' \/ \E k \in 0 .. Len(q2) : InLine(g, q2, k).ticket = asks + 1
    BY <1>2, <1>3, <1>5, <1>6, <1>9, <1>10
  <2> QED
    BY <1>1, <1>2, <1>3, <1>8, <2>1, <2>2, StaysSomewhere DEF IInv
<1>13. ASSUME fails' = 0 PROVE Apart' /\ (\A x \in Spoke : InOrder(holding[x], sidings[x]))'
  <2>1. Apart /\ (\A x \in Spoke : InOrder(holding[x], sidings[x])) /\ done' = done /\ g = e
    BY <1>2, <1>4, <1>10, <1>13 DEF IInv, Smooth
  <2>2. \A k \in Places(s) : At(s, k).ticket \in 0 .. asks
    BY <1>1, Standing
  <2>3. InOrder(g, q2)
    <3>1. e.class \in 1 .. 4 /\ h.class \in 1 .. 4
      BY <1>3, <1>5 DEF Tickets
    <3>2. InOrder(h, q) /\ e.class < h.class
      BY <1>1, <1>3, <2>1 DEF h, q
    <3> QED
      BY <1>3, <1>5, <2>1, <3>1, <3>2, OrderPreempted DEF q2
  <2>4. asks + 1 \notin done /\ 0 \notin done
    BY <1>3, <1>5
  <2>5. \A j \in 0 .. Len(q2) : j = 0 \/ j \in 1 .. Len(q2)
    BY <1>5, <1>6
  <2>6. \A j \in 0 .. Len(q2) : \/ InLine(g, q2, j).ticket = asks + 1
                                \/ \E i \in Places(s) : InLine(g, q2, j) = At(s, i)
    BY <1>3, <1>7, <1>9, <2>1, <2>5
  <2>7. \A j \in 0 .. Len(q2) : InLine(g, q2, j).ticket \notin done
    BY <1>3, <1>7, <1>9, <2>1, <2>4, <2>5 DEF Apart
  <2>8. \A j, k \in 0 .. Len(q2) :
          InLine(g, q2, j).ticket = InLine(g, q2, k).ticket /\ InLine(g, q2, j) # Nobody => j = k
    <3> SUFFICES ASSUME NEW j \in 0 .. Len(q2), NEW k \in 0 .. Len(q2),
                        InLine(g, q2, j).ticket = InLine(g, q2, k).ticket, InLine(g, q2, j) # Nobody
                 PROVE  j = k
      OBVIOUS
    <3>1. CASE j \in 1 .. Len(q2) /\ k \in 1 .. Len(q2)
      <4>1. j - 1 = k - 1
        BY <1>7, <2>1, <3>1 DEF Apart
      <4> QED
        BY <4>1
    <3>2. ASSUME NEW i \in 1 .. Len(q2) PROVE InLine(g, q2, i).ticket # asks + 1
      <4>1. InLine(g, q2, i).ticket \in 0 .. asks
        BY <1>7, <2>2
      <4> QED
        BY <1>3, <4>1
    <3> QED
      BY <1>3, <1>9, <2>1, <2>5, <3>1, <3>2
  <2>9. Apart'
    BY <1>1, <1>8, <2>1, <2>4, <2>6, <2>7, <2>8, StaysApart
  <2> QED
    BY <1>1, <1>8, <2>1, <2>3, <2>9, StaysInOrder
<1> QED
  BY <1>11, <1>12, <1>13 DEF IInv, Smooth

\* A step that ends the holder's stay and asks for nothing.
LEMMA ReleaseAloneKeeps ==
  ASSUME IInv, NEW s \in Spoke, ReleaseAlone(s)
  PROVE  IInv'
<1> DEFINE h == holding[s]  q == sidings[s]
<1>1. /\ TypeOK /\ h # Nobody /\ done' = done \cup {h.ticket} /\ asks' = asks
      /\ q = <<>> /\ sidings' = sidings /\ holding' = [holding EXCEPT ![s] = Nobody]
  BY DEF IInv, ReleaseAlone, Clear
<1>2. Becomes(s, Nobody, q)
  BY <1>1, SameSiding DEF Becomes
<1>3. /\ asks \in Nat /\ done \subseteq 1 .. asks /\ h \in Tickets /\ h.ticket \in 1 .. asks
      /\ Len(q) = 0 /\ Len(q) <= asks /\ q \in Seq(Tickets')
  BY <1>1 DEF TypeOK, Tickets
<1>4. fails' \in Nat /\ (fails' = 0 => fails = 0)
  BY <1>1, FailsType DEF ReleaseAlone
<1>5. Places(s) = {0} /\ At(s, 0) = h /\ \A k \in 0 .. Len(q) : k = 0 /\ InLine(Nobody, q, k) = Nobody
  BY <1>3 DEF Places, At, InLine
<1> HIDE DEF h, q
<1>6. TypeOK'
  <2>1. done' \subseteq 1 .. asks' /\ asks' \in {asks, asks + 1} /\ Len(q) <= asks'
    BY <1>1, <1>3
  <2>2. Nobody \in Tickets' \cup {Nobody}
    OBVIOUS
  <2> QED
    BY <1>1, <1>2, <1>3, <1>4, <2>1, <2>2, StaysTyped, Zenon
<1>7. Somewhere'
  <2>1. \A i \in Places(s) : At(s, i).ticket \in done'
    BY <1>1, <1>5
  <2> QED
    BY <1>1, <1>2, <1>3, <2>1, StaysSomewhere DEF IInv
<1>8. ASSUME fails' = 0 PROVE Apart' /\ (\A x \in Spoke : InOrder(holding[x], sidings[x]))'
  <2>1. Apart /\ \A x \in Spoke : InOrder(holding[x], sidings[x])
    BY <1>4, <1>8 DEF IInv, Smooth
  <2>2. InOrder(Nobody, q)
    BY <1>1, <1>3, <1>5 DEF InOrder, Nobody
  <2>3. asks + 1 \notin done' /\ 0 \notin done'
    BY <1>1, <1>3
  <2>4. \A j \in 0 .. Len(q) : InLine(Nobody, q, j).ticket \notin done'
    BY <1>5, <2>3 DEF Nobody
  <2>5. \A d \in done' : d \in done \/ \E i \in Places(s) : d = At(s, i).ticket
    BY <1>1, <1>5
  <2>6. Apart'
    BY <1>1, <1>2, <1>5, <2>1, <2>3, <2>4, <2>5, StaysApart
  <2> QED
    BY <1>1, <1>2, <2>1, <2>2, <2>6, StaysInOrder
<1> QED
  BY <1>6, <1>7, <1>8 DEF IInv, Smooth

\* A release keeps it: the next holder is the best of those that wait.
LEMMA ReleaseKeeps ==
  ASSUME IInv, NEW s \in Spoke, Release(s)
  PROVE  IInv'
<1> DEFINE h == holding[s]  q == sidings[s]  b == Best(q)  next == q[b]  q2 == RemoveAt(q, b)
           events == <<Event("segment.release", holding[s].run, s),
                       Event("siding.resume", next.run, s),
                       Event("segment.grant", next.run, s)>>
<1>1. TypeOK /\ h # Nobody /\ done' = done \cup {h.ticket} /\ asks' = asks /\ q # <<>>
  BY DEF IInv, Release, Clear
<1>2. PICK n \in 0 .. 3 :
        /\ Appends(events, n)
        /\ IF n = 0 THEN /\ holding' = [holding EXCEPT ![s] = Nobody]
                         /\ UNCHANGED sidings
           ELSE /\ holding' = [holding EXCEPT ![s] = next]
                /\ sidings' = [sidings EXCEPT ![s] = q2]
  BY DEF Release
<1>3. /\ asks \in Nat /\ done \subseteq 1 .. asks /\ h \in Tickets /\ h.ticket \in 1 .. asks
      /\ q \in Seq(Tickets) /\ Len(q) \in Nat \ {0} /\ Len(q) <= asks /\ Tickets' = Tickets
  <2>1. asks \in Nat /\ done \subseteq 1 .. asks /\ h \in Tickets /\ q \in Seq(Tickets) /\ Len(q) <= asks
    BY <1>1 DEF TypeOK
  <2>2. h.ticket \in 1 .. asks
    BY <2>1 DEF Tickets
  <2>3. Tickets' = Tickets
    BY <1>1 DEF Tickets
  <2>4. Len(q) \in Nat \ {0}
    BY <1>1, <2>1
  <2> QED
    BY <2>1, <2>2, <2>3, <2>4
<1>4. fails' \in Nat /\ (fails' = 0 => fails = 0 /\ n # 0)
  <2>1. Len(events) = 3
    BY LenOfEvents
  <2>2. fails' \in Nat /\ (fails' = 0 => fails = 0 /\ ~(n < Len(events)))
    <3> HIDE DEF events
    <3> QED
      BY <1>1, <1>2, FailsType
  <2> HIDE DEF events
  <2> QED
    BY <2>1, <2>2
<1>5. b \in 1 .. Len(q)
  BY <1>1, <1>3, BestIsBest
<1>6. next \in Tickets
  BY <1>3, <1>5
<1> HIDE DEF b, events
<1>7. /\ q2 \in Seq(Tickets) /\ Len(q2) = Len(q) - 1
      /\ \A k \in 1 .. Len(q) - 1 : q2[k] = IF k < b THEN q[k] ELSE q[k + 1]
  BY <1>3, <1>5, Removed
<1>8. Places(s) = 0 .. Len(q) /\ At(s, 0) = h /\ \A k \in 1 .. Len(q) : At(s, k) = q[k]
  BY <1>3 DEF Places, At, InLine
<1>9. done' \subseteq 1 .. asks' /\ asks' \in {asks, asks + 1} /\ h.ticket \in done' /\ done \subseteq done'
  BY <1>1, <1>3
<1> HIDE DEF h, q, next, q2
<1>10. CASE n = 0
  <2>1. Becomes(s, Nobody, q)
    BY <1>1, <1>2, <1>10, SameSiding DEF Becomes, q
  <2>2. TypeOK'
    <3>1. Nobody \in Tickets' \cup {Nobody} /\ q \in Seq(Tickets') /\ Len(q) <= asks'
      BY <1>1, <1>3
    <3> QED
      BY <1>1, <1>4, <1>9, <2>1, <3>1, StaysTyped, Zenon
  <2>3. \A i \in Places(s) : \/ At(s, i).ticket \in done'
                             \/ \E k \in 0 .. Len(q) : InLine(Nobody, q, k).ticket = At(s, i).ticket
    BY <1>3, <1>8, <1>9 DEF InLine
  <2>4. Somewhere'
    BY <1>1, <1>3, <1>9, <2>1, <2>3, StaysSomewhere DEF IInv
  <2> QED
    BY <1>4, <1>10, <2>2, <2>4 DEF IInv, Smooth
<1>11. CASE n # 0
  <2>1. Becomes(s, next, q2)
    BY <1>2, <1>11 DEF Becomes
  <2>2. TypeOK'
    <3>1. next \in Tickets' \cup {Nobody} /\ q2 \in Seq(Tickets') /\ Len(q2) <= asks'
      BY <1>1, <1>3, <1>6, <1>7
    <3> QED
      BY <1>1, <1>4, <1>9, <2>1, <3>1, StaysTyped, Zenon
  <2> DEFINE from == [k \in 0 .. Len(q2) |-> IF k = 0 THEN b ELSE IF k < b THEN k ELSE k + 1]
  <2>3. /\ \A k \in 0 .. Len(q2) : from[k] \in 1 .. Len(q) /\ InLine(next, q2, k) = At(s, from[k])
        /\ \A j, k \in 0 .. Len(q2) : from[j] = from[k] => j = k
        /\ \A i \in 1 .. Len(q) : \E k \in 0 .. Len(q2) : from[k] = i
    <3>1. \A k \in 0 .. Len(q2) : from[k] \in 1 .. Len(q)
      BY <1>3, <1>5, <1>7
    <3>2. \A k \in 0 .. Len(q2) : InLine(next, q2, k) = q[from[k]]
      BY <1>3, <1>5, <1>7 DEF InLine, next
    <3>3. \A j, k \in 0 .. Len(q2) : from[j] = from[k] => j = k
      BY <1>3, <1>5, <1>7
    <3>4. ASSUME NEW i \in 1 .. Len(q) PROVE \E k \in 0 .. Len(q2) : from[k] = i
      <4> DEFINE k == IF i = b THEN 0 ELSE IF i < b THEN i ELSE i - 1
      <4>1. k \in 0 .. Len(q2) /\ from[k] = i
        BY <1>3, <1>5, <1>7
      <4> QED
        BY <4>1
    <3> HIDE DEF from
    <3> QED
      BY <1>8, <3>1, <3>2, <3>3, <3>4
  <2> HIDE DEF from
  <2>4. Somewhere'
    <3>1. \A i \in Places(s) : i = 0 \/ i \in 1 .. Len(q)
      BY <1>3, <1>8
    <3>2. \A i \in Places(s) : \/ At(s, i).ticket \in done'
                               \/ \E k \in 0 .. Len(q2) : InLine(next, q2, k).ticket = At(s, i).ticket
      BY <1>8, <1>9, <2>3, <3>1
    <3> QED
      BY <1>1, <1>3, <1>9, <2>1, <3>2, StaysSomewhere DEF IInv
  <2>5. ASSUME fails' = 0 PROVE Apart' /\ (\A x \in Spoke : InOrder(holding[x], sidings[x]))'
    <3>1. Apart /\ \A x \in Spoke : InOrder(holding[x], sidings[x])
      BY <1>4, <2>5 DEF IInv, Smooth
    <3>2. InOrder(next, q2)
      <4>1. InOrder(h, q)
        BY <3>1 DEF h, q
      <4> QED
        BY <1>1, <1>3, <4>1, OrderResumed DEF next, q2, b
    <3>3. asks + 1 \notin done' /\ 0 \notin done'
      BY <1>1, <1>3
    <3>4. \A i \in 1 .. Len(q) : i \in Places(s) /\ 0 \in Places(s) /\ i # 0
      BY <1>3, <1>8
    <3>5. \A j \in 0 .. Len(q2) : InLine(next, q2, j).ticket \notin done'
      <4>1. \A i \in 1 .. Len(q) : At(s, i).ticket # h.ticket /\ At(s, i).ticket \notin done
        BY <1>1, <1>8, <3>1, <3>4 DEF Apart
      <4> QED
        BY <1>1, <2>3, <4>1
    <3>6. \A j, k \in 0 .. Len(q2) :
            InLine(next, q2, j).ticket = InLine(next, q2, k).ticket /\ InLine(next, q2, j) # Nobody
              => j = k
      BY <2>3, <3>1, <3>4 DEF Apart
    <3>7. \A j \in 0 .. Len(q2) : \E i \in Places(s) : InLine(next, q2, j) = At(s, i)
      BY <2>3, <3>4
    <3>8. \A d \in done' : d \in done \/ \E i \in Places(s) : d = At(s, i).ticket
      BY <1>1, <1>3, <1>8
    <3>9. Apart'
      BY <1>1, <2>1, <3>1, <3>3, <3>5, <3>6, <3>7, <3>8, StaysApart
    <3> QED
      BY <1>1, <2>1, <3>1, <3>2, <3>9, StaysInOrder
  <2> QED
    BY <2>2, <2>4, <2>5 DEF IInv, Smooth
<1> QED
  BY <1>10, <1>11

----------------------------------------------------------------------------
(* The theorems *)

\* So it holds of every behaviour.
LEMMA Inductive == Spec => []IInv
<1>1. Init => IInv
  <2> SUFFICES ASSUME Init PROVE IInv
    OBVIOUS
  <2>1. TypeOK
    BY DEF Init, TypeOK
  <2>2. Somewhere
    BY DEF Init, Somewhere
  <2>3. \A s \in Spoke : Places(s) = {0} /\ At(s, 0) = Nobody
    BY DEF Init, Places, At, InLine
  <2>4. Apart
    BY <2>3 DEF Init, Apart
  <2>5. \A s \in Spoke : InOrder(holding[s], sidings[s])
    BY DEF Init, InOrder, InLine, Nobody
  <2> QED
    BY <2>1, <2>2, <2>4, <2>5 DEF IInv, Smooth
<1>2. IInv /\ [Next]_vars => IInv'
  <2> SUFFICES ASSUME IInv, [Next]_vars PROVE IInv'
    OBVIOUS
  <2>1. ASSUME NEW s \in Spoke, NEW r \in Run, Request(r, s) PROVE IInv'
    BY <2>1, GrantKeeps, PreemptKeeps, WaitKeeps DEF Request
  <2>2. ASSUME NEW s \in Spoke, Finish(s) PROVE IInv'
    BY <2>2, ReleaseAloneKeeps, ReleaseKeeps DEF Finish
  <2>3. CASE UNCHANGED vars
    <3>1. TypeOK' = TypeOK
      BY <2>3 DEF vars, TypeOK, Tickets
    <3>2. Somewhere' = Somewhere
      BY <2>3 DEF vars, Somewhere, At, Places, InLine
    <3>3. Apart' = Apart
      BY <2>3 DEF vars, Apart, At, Places, InLine
    <3>4. Smooth' = Smooth
      BY <2>3, <3>3 DEF vars, Smooth, InOrder, InLine
    <3> QED
      BY <3>1, <3>2, <3>4 DEF IInv
  <2> QED
    BY <2>1, <2>2, <2>3 DEF Next
<1> QED
  BY <1>1, <1>2, PTL DEF Spec

\* Class beats arrival (priority.py:8-9, 15-17): with no append raised, nobody
\* waits behind a holder of a lower class, for any runs, classes and spokes and
\* through any number of requests, preemptions and releases.
THEOREM ClassFirstCorrect == Spec => []ClassFirst
<1>1. IInv => ClassFirst
  <2> SUFFICES ASSUME IInv, fails = 0, NEW s \in Spoke, NEW k \in DOMAIN sidings[s]
               PROVE  holding[s].class <= sidings[s][k].class
    BY DEF ClassFirst
  <2>1. InOrder(holding[s], sidings[s]) /\ sidings[s] \in Seq(Tickets)
    BY DEF IInv, Smooth, TypeOK
  <2>2. k \in 0 .. Len(sidings[s]) /\ k # 0
    BY <2>1
  <2> QED
    BY <2>1, <2>2 DEF InOrder, InLine
<1> QED
  BY <1>1, Inductive, PTL

\* Arrival order breaks ties within a class (priority.py:14-16): the holder
\* asked before every waiting run of its class, and those wait in the order
\* they asked, through any nesting of preemptions.
THEOREM ArrivalCorrect == Spec => []ArrivalOrder
<1>1. IInv => ArrivalOrder
  <2> SUFFICES ASSUME IInv, fails = 0, NEW s \in Spoke PROVE
         LET line == <<holding[s]>> \o sidings[s]
         IN  \A j, k \in DOMAIN line :
               j < k /\ line[j].class = line[k].class => line[j].ticket < line[k].ticket
    BY DEF ArrivalOrder
  <2> DEFINE h == holding[s]  q == sidings[s]  line == <<h>> \o q
  <2>1. InOrder(h, q) /\ h \in Tickets \cup {Nobody} /\ q \in Seq(Tickets \cup {Nobody})
    BY DEF IInv, Smooth, TypeOK
  <2>2. /\ line \in Seq(Tickets \cup {Nobody}) /\ Len(line) = Len(q) + 1
        /\ \A k \in 1 .. Len(q) + 1 : line[k] = IF k = 1 THEN h ELSE q[k - 1]
    <3> HIDE DEF h, q
    <3> QED
      BY <2>1, Put
  <2>3. Len(q) \in Nat /\ DOMAIN line = 1 .. Len(q) + 1
    <3> HIDE DEF h, q, line
    <3> QED
      BY <2>1, <2>2
  <2> HIDE DEF h, q, line
  <2>4. \A k \in DOMAIN line : k - 1 \in 0 .. Len(q) /\ line[k] = InLine(h, q, k - 1)
    BY <2>2, <2>3 DEF InLine
  <2>5. \A j, k \in DOMAIN line :
          j < k /\ line[j].class = line[k].class => line[j].ticket < line[k].ticket
    <3> SUFFICES ASSUME NEW j \in DOMAIN line, NEW k \in DOMAIN line, j < k,
                        line[j].class = line[k].class
                 PROVE  line[j].ticket < line[k].ticket
      OBVIOUS
    <3>1. j - 1 < k - 1
      BY <2>3
    <3> QED
      BY <2>1, <2>4, <3>1 DEF InOrder
  <2> QED
    BY <2>5 DEF line, h, q
<1> QED
  BY <1>1, Inductive, PTL

\* "Held LIVE ..., never aborted" (priority.py:9-10): whatever is preempted and
\* whichever append raises, a run that asked and has not finished holds a segment
\* or waits for one; and as long as none raised, in one place only.
THEOREM LostCorrect == Spec => []NobodyLost
<1> DEFINE Where(t) == {<<s, 0>> : s \in {x \in Spoke : holding[x].ticket = t}} \cup
                       {p \in Spoke \X (1 .. asks) :
                          p[2] <= Len(sidings[p[1]]) /\ sidings[p[1]][p[2]].ticket = t}
<1>1. IInv => NobodyLost
  <2> SUFFICES ASSUME IInv, NEW t \in 1 .. asks
               PROVE  /\ t \notin done => Where(t) # {}
                      /\ fails = 0 => Cardinality(Where(t)) = (IF t \in done THEN 0 ELSE 1)
    BY DEF NobodyLost
  <2>1. TypeOK /\ asks \in Nat /\ \A s \in Spoke : Len(sidings[s]) \in Nat /\ Len(sidings[s]) <= asks
    BY Standing DEF IInv, TypeOK
  <2>2. \A s \in Spoke : \A k \in Places(s) : At(s, k).ticket = t => <<s, k>> \in Where(t)
    <3> SUFFICES ASSUME NEW s \in Spoke, NEW k \in Places(s), At(s, k).ticket = t
                 PROVE  <<s, k>> \in Where(t)
      OBVIOUS
    <3>1. CASE k = 0
      BY <3>1 DEF At, InLine
    <3>2. CASE k # 0
      <4>1. k \in 1 .. asks /\ k <= Len(sidings[s]) /\ sidings[s][k].ticket = t
        BY <2>1, <3>2 DEF Places, At, InLine
      <4> QED
        BY <4>1
    <3> QED
      BY <3>1, <3>2
  <2>3. \A p \in Where(t) : \E s \in Spoke : \E k \in Places(s) : p = <<s, k>> /\ At(s, k).ticket = t
    <3> SUFFICES ASSUME NEW p \in Where(t)
                 PROVE  \E s \in Spoke : \E k \in Places(s) : p = <<s, k>> /\ At(s, k).ticket = t
      OBVIOUS
    <3>1. CASE p \in {<<s, 0>> : s \in {x \in Spoke : holding[x].ticket = t}}
      <4>1. PICK s \in Spoke : p = <<s, 0>> /\ holding[s].ticket = t
        BY <3>1
      <4>2. 0 \in Places(s) /\ At(s, 0).ticket = t
        BY <2>1, <4>1 DEF Places, At, InLine
      <4> QED
        BY <4>1, <4>2
    <3>2. CASE p \in Spoke \X (1 .. asks) /\ p[2] <= Len(sidings[p[1]]) /\ sidings[p[1]][p[2]].ticket = t
      <4>1. p[1] \in Spoke /\ p[2] \in Places(p[1]) /\ p = <<p[1], p[2]>> /\ At(p[1], p[2]).ticket = t
        BY <2>1, <3>2 DEF Places, At, InLine
      <4> QED
        BY <4>1
    <3> QED
      BY <3>1, <3>2
  <2> HIDE DEF Where
  <2>4. t \notin done => Where(t) # {}
    BY <2>2 DEF IInv, Somewhere
  <2>5. ASSUME fails = 0, t \in done PROVE Cardinality(Where(t)) = 0
    <3>1. Where(t) = {}
      BY <2>3, <2>5 DEF IInv, Smooth, Apart
    <3> QED
      BY <3>1, FS_EmptySet
  <2>6. ASSUME fails = 0, t \notin done PROVE Cardinality(Where(t)) = 1
    <3>1. \A p, r \in Where(t) : p = r
      <4> SUFFICES ASSUME NEW p \in Where(t), NEW r \in Where(t) PROVE p = r
        OBVIOUS
      <4>1. PICK s \in Spoke : \E k \in Places(s) : p = <<s, k>> /\ At(s, k).ticket = t
        BY <2>3
      <4>2. PICK k \in Places(s) : p = <<s, k>> /\ At(s, k).ticket = t
        BY <4>1
      <4>3. PICK x \in Spoke : \E j \in Places(x) : r = <<x, j>> /\ At(x, j).ticket = t
        BY <2>3
      <4>4. PICK j \in Places(x) : r = <<x, j>> /\ At(x, j).ticket = t
        BY <4>3
      <4>5. At(s, k) # Nobody
        BY <2>1, <4>2 DEF Nobody
      <4> QED
        BY <2>6, <4>2, <4>4, <4>5 DEF IInv, Smooth, Apart
    <3>2. PICK p : Where(t) = {p}
      BY <2>4, <2>6, <3>1
    <3> QED
      BY <3>2, FS_Singleton
  <2> QED
    BY <2>4, <2>5, <2>6
<1> QED
  BY <1>1, Inductive, PTL

----------------------------------------------------------------------------
(* The log's account of a spoke *)

Entries == [kind : {"segment.grant", "segment.release", "siding.hold", "siding.resume"},
            run : Run, spoke : Spoke]

\* The entries of L that grant or clear the segment of s, those of a kind about r,
\* and the places of r in a siding.
Moves(L, s)          == {i \in DOMAIN L : L[i].spoke = s /\ L[i].kind \in {"segment.grant", "segment.release"}}
Named(L, s, kind, r) == {i \in DOMAIN L : L[i].spoke = s /\ L[i].kind = kind /\ L[i].run = r}
Waiting(q, r)        == {k \in DOMAIN q : q[k].run = r}

\* What an entry says of the segment.
Says(e) == IF e.kind = "segment.release" THEN "nobody" ELSE e.run

\* L says that run holds s, and each run waits as often as it was sided and not
\* resumed.
TellsHolder(L, s, run) ==
  \/ Moves(L, s) = {} /\ run = "nobody"
  \/ \E i \in Moves(L, s) : (\A j \in Moves(L, s) : j <= i) /\ run = Says(L[i])
TellsWaiting(L, s, q) ==
  \A r \in Run : Cardinality(Named(L, s, "siding.hold", r)) =
                   Cardinality(Named(L, s, "siding.resume", r)) + Cardinality(Waiting(q, r))

ToldInv ==
  /\ log \in Seq(Entries)
  /\ fails = 0 => \A s \in Spoke : /\ TellsHolder(log, s, holding[s].run)
                                   /\ TellsWaiting(log, s, sidings[s])

\* One more entry, as it is told.
LEMMA OneMore ==
  ASSUME NEW L \in Seq(Entries), NEW e \in Entries
  PROVE  /\ Append(L, e) \in Seq(Entries)
         /\ DOMAIN Append(L, e) = DOMAIN L \cup {Len(L) + 1} /\ Len(L) + 1 \notin DOMAIN L
         /\ \A i \in DOMAIN L : Append(L, e)[i] = L[i] /\ i < Len(L) + 1
         /\ Append(L, e)[Len(L) + 1] = e /\ Len(L) + 1 \in Nat
OBVIOUS

\* A grant or a release says who holds the segment now; other entries leave it.
LEMMA HolderTold ==
  ASSUME NEW L \in Seq(Entries), NEW e \in Entries, NEW s \in Spoke
  PROVE  LET M == Append(L, e)
         IN  /\ e.spoke = s /\ e.kind \in {"segment.grant", "segment.release"} => TellsHolder(M, s, Says(e))
             /\ ~(e.spoke = s /\ e.kind \in {"segment.grant", "segment.release"}) =>
                  \A run : TellsHolder(L, s, run) => TellsHolder(M, s, run)
<1> DEFINE M == Append(L, e)  n == Len(L) + 1
<1>1. /\ DOMAIN M = DOMAIN L \cup {n} /\ n \notin DOMAIN L /\ n \in Nat
      /\ \A i \in DOMAIN L : M[i] = L[i] /\ i < n
      /\ M[n] = e
  BY OneMore
<1> HIDE DEF M, n
<1>2. CASE e.spoke = s /\ e.kind \in {"segment.grant", "segment.release"}
  <2>1. n \in Moves(M, s) /\ \A j \in Moves(M, s) : j = n \/ j < n
    BY <1>1, <1>2 DEF Moves
  <2>2. \A j \in Moves(M, s) : j <= n
    BY <1>1, <2>1
  <2> QED
    BY <1>1, <1>2, <2>1, <2>2 DEF TellsHolder, M
<1>3. CASE ~(e.spoke = s /\ e.kind \in {"segment.grant", "segment.release"})
  <2>1. Moves(M, s) = Moves(L, s) /\ \A i \in Moves(L, s) : M[i] = L[i]
    BY <1>1, <1>3 DEF Moves
  <2> QED
    BY <1>3, <2>1 DEF TellsHolder, M
<1> QED
  BY <1>2, <1>3 DEF M

\* One element more in a finite set of numbers, or none.
LEMMA OneMoreCounts ==
  ASSUME NEW S, IsFiniteSet(S), NEW T, NEW x, x \notin S, T = S \/ T = S \cup {x}
  PROVE  /\ Cardinality(S) \in Nat /\ IsFiniteSet(T)
         /\ Cardinality(T) = Cardinality(S) + (IF x \in T THEN 1 ELSE 0)
<1>1. Cardinality(S) \in Nat
  BY FS_CardinalityType
<1>2. CASE T = S
  BY <1>1, <1>2
<1>3. CASE T = S \cup {x}
  <2>1. IsFiniteSet(T) /\ Cardinality(T) = Cardinality(S) + 1
    BY <1>3, FS_AddElement
  <2> QED
    BY <1>1, <1>3, <2>1
<1> QED
  BY <1>2, <1>3

\* Positions are finitely many.
LEMMA PositionsFinite ==
  ASSUME NEW T, NEW L \in Seq(T), NEW S, S \subseteq DOMAIN L
  PROVE  IsFiniteSet(S) /\ Cardinality(S) \in Nat
<1>1. DOMAIN L = 1 .. Len(L) /\ Len(L) \in Nat
  OBVIOUS
<1>2. IsFiniteSet(DOMAIN L)
  BY <1>1, FS_Interval
<1>3. IsFiniteSet(S)
  BY <1>2, FS_Subset
<1> QED
  BY <1>3, FS_CardinalityType

\* An entry counts once, for its own run, spoke and kind.
LEMMA NamedTold ==
  ASSUME NEW L \in Seq(Entries), NEW e \in Entries, NEW s \in Spoke, NEW r \in Run, NEW kind
  PROVE  /\ Cardinality(Named(L, s, kind, r)) \in Nat
         /\ Cardinality(Named(Append(L, e), s, kind, r)) = Cardinality(Named(L, s, kind, r))
              + (IF e.spoke = s /\ e.kind = kind /\ e.run = r THEN 1 ELSE 0)
<1> DEFINE M == Append(L, e)  n == Len(L) + 1
           S == Named(L, s, kind, r)  T == Named(M, s, kind, r)
<1>1. /\ DOMAIN M = DOMAIN L \cup {n} /\ n \notin DOMAIN L
      /\ \A i \in DOMAIN L : M[i] = L[i]
      /\ M[n] = e
  BY OneMore
<1>2. IsFiniteSet(S) /\ Cardinality(S) \in Nat
  <2>1. S \subseteq DOMAIN L
    BY DEF Named
  <2> HIDE DEF S
  <2> QED
    BY <2>1, PositionsFinite
<1> HIDE DEF M, n
<1>3. /\ n \notin S /\ (T = S \/ T = S \cup {n})
      /\ n \in T <=> e.spoke = s /\ e.kind = kind /\ e.run = r
  BY <1>1 DEF Named
<1>4. Cardinality(T) = Cardinality(S) + (IF n \in T THEN 1 ELSE 0)
  <2> HIDE DEF S, T
  <2> QED
    BY <1>2, <1>3, OneMoreCounts
<1> QED
  BY <1>2, <1>3, <1>4 DEF M

\* Places that are renumbered one by one are as many.
LEMMA Renumbered ==
  ASSUME NEW S, IsFiniteSet(S), NEW T, NEW f \in [S -> T],
         \A j, k \in S : f[j] = f[k] => j = k,
         \A i \in T : \E k \in S : f[k] = i
  PROVE  Cardinality(T) = Cardinality(S)
<1>1. f \in Bijection(S, T)
  BY DEF Bijection, Injection, Surjection, IsInjective
<1>2. ExistsBijection(S, T)
  BY <1>1 DEF ExistsBijection
<1> QED
  BY <1>2, FS_Bijection

\* A run that joins the siding at its end waits there once more.
LEMMA WaitingAppended ==
  ASSUME NEW q \in Seq(Tickets), NEW x, NEW r
  PROVE  /\ Cardinality(Waiting(q, r)) \in Nat
         /\ Cardinality(Waiting(Append(q, x), r)) =
              Cardinality(Waiting(q, r)) + (IF x.run = r THEN 1 ELSE 0)
<1> DEFINE p == Append(q, x)  n == Len(q) + 1  S == Waiting(q, r)  T == Waiting(p, r)
<1>1. /\ DOMAIN p = DOMAIN q \cup {n} /\ n \notin DOMAIN q
      /\ \A i \in DOMAIN q : p[i] = q[i]
      /\ p[n] = x
  OBVIOUS
<1>2. IsFiniteSet(S) /\ Cardinality(S) \in Nat
  <2>1. S \subseteq DOMAIN q
    BY DEF Waiting
  <2> HIDE DEF S
  <2> QED
    BY <2>1, PositionsFinite
<1> HIDE DEF p, n
<1>3. /\ n \notin S /\ (T = S \/ T = S \cup {n})
      /\ n \in T <=> x.run = r
  BY <1>1 DEF Waiting
<1>4. Cardinality(T) = Cardinality(S) + (IF n \in T THEN 1 ELSE 0)
  <2> HIDE DEF S, T
  <2> QED
    BY <1>2, <1>3, OneMoreCounts
<1> QED
  BY <1>2, <1>3, <1>4 DEF p

\* A holder that takes the siding at its front waits there once more.
LEMMA WaitingPut ==
  ASSUME NEW q \in Seq(Tickets), NEW x \in Tickets, NEW r
  PROVE  /\ Cardinality(Waiting(q, r)) \in Nat
         /\ Cardinality(Waiting(<<x>> \o q, r)) =
              Cardinality(Waiting(q, r)) + (IF x.run = r THEN 1 ELSE 0)
<1> DEFINE p == <<x>> \o q  S == Waiting(q, r)  T == Waiting(p, r)
           f == [k \in S |-> k + 1]  U == {k + 1 : k \in S}
<1>1. /\ DOMAIN q = 1 .. Len(q) /\ Len(q) \in Nat /\ DOMAIN p = 1 .. Len(q) + 1
      /\ \A k \in 1 .. Len(q) + 1 : p[k] = IF k = 1 THEN x ELSE q[k - 1]
  BY Put
<1> HIDE DEF p
<1>2. IsFiniteSet(S) /\ Cardinality(S) \in Nat /\ S \subseteq 1 .. Len(q)
  <2>1. S \subseteq DOMAIN q
    BY DEF Waiting
  <2> HIDE DEF S
  <2> QED
    BY <1>1, <2>1, PositionsFinite
<1>3. Cardinality(U) = Cardinality(S) /\ IsFiniteSet(U)
  <2>1. \A j, k \in S : f[j] = f[k] => j = k
    BY <1>1, <1>2
  <2>2. f \in [S -> U] /\ \A i \in U : \E k \in S : f[k] = i
    OBVIOUS
  <2>3. U \subseteq 1 .. Len(q) + 1 /\ Len(q) + 1 \in Nat
    BY <1>1, <1>2
  <2>4. IsFiniteSet(U)
    <3>1. IsFiniteSet(1 .. Len(q) + 1)
      BY <2>3, FS_Interval
    <3> HIDE DEF U
    <3> QED
      BY <2>3, <3>1, FS_Subset
  <2> HIDE DEF f, U, S
  <2> QED
    BY <1>2, <2>1, <2>2, <2>4, Renumbered
<1>4. /\ 1 \notin U /\ (T = U \/ T = U \cup {1})
      /\ 1 \in T <=> x.run = r
  <2>1. \A k : k \in U <=> k \in 1 .. Len(q) + 1 /\ k # 1 /\ k - 1 \in S
    BY <1>1, <1>2
  <2>2. \A k : k \in T <=> k \in 1 .. Len(q) + 1 /\ (IF k = 1 THEN x.run = r ELSE q[k - 1].run = r)
    BY <1>1 DEF Waiting
  <2>3. \A k \in 1 .. Len(q) + 1 : k # 1 => (k - 1 \in S <=> q[k - 1].run = r)
    BY <1>1 DEF Waiting
  <2>4. 1 \in 1 .. Len(q) + 1
    BY <1>1
  <2>5. \A k : k # 1 => (k \in T <=> k \in U)
    BY <2>1, <2>2, <2>3
  <2> HIDE DEF S, T, U
  <2> QED
    BY <2>1, <2>2, <2>4, <2>5
<1>5. Cardinality(T) = Cardinality(U) + (IF 1 \in T THEN 1 ELSE 0)
  <2> HIDE DEF U, T
  <2> QED
    BY <1>3, <1>4, OneMoreCounts
<1> QED
  BY <1>2, <1>3, <1>4, <1>5 DEF p

\* A run that leaves the siding waits there once less.
LEMMA WaitingRemoved ==
  ASSUME NEW q \in Seq(Tickets), NEW b \in 1 .. Len(q), NEW r
  PROVE  /\ Cardinality(Waiting(RemoveAt(q, b), r)) \in Nat
         /\ Cardinality(Waiting(q, r)) =
              Cardinality(Waiting(RemoveAt(q, b), r)) + (IF q[b].run = r THEN 1 ELSE 0)
<1> DEFINE p == RemoveAt(q, b)  S == Waiting(q, r) \ {b}  T == Waiting(p, r)
           f == [k \in T |-> IF k < b THEN k ELSE k + 1]
<1>1. /\ DOMAIN q = 1 .. Len(q) /\ Len(q) \in Nat \ {0} /\ b \in Nat /\ b <= Len(q) /\ b >= 1
      /\ p \in Seq(Tickets) /\ Len(p) = Len(q) - 1
      /\ \A k \in 1 .. Len(q) - 1 : p[k] = IF k < b THEN q[k] ELSE q[k + 1]
  <2>1. DOMAIN q = 1 .. Len(q) /\ Len(q) \in Nat \ {0} /\ b \in Nat /\ b <= Len(q) /\ b >= 1
    OBVIOUS
  <2> QED
    BY <2>1, Removed
<1> HIDE DEF p
<1>2. DOMAIN p = 1 .. Len(q) - 1
  BY <1>1
<1>3. IsFiniteSet(T) /\ Cardinality(T) \in Nat
  <2>1. T \subseteq DOMAIN p
    BY DEF Waiting
  <2> HIDE DEF T
  <2> QED
    BY <1>1, <2>1, PositionsFinite
<1> DEFINE m == Len(q)
<1>4. /\ \A k : k \in T <=> k \in 1 .. m - 1 /\ (IF k < b THEN q[k].run = r ELSE q[k + 1].run = r)
      /\ \A k : k \in S <=> k \in 1 .. m /\ k # b /\ q[k].run = r
      /\ m \in Nat \ {0} /\ b <= m
  BY <1>1, <1>2 DEF Waiting
<1> HIDE DEF m, T, S
<1>5. f \in [T -> S] /\ \A j, k \in T : f[j] = f[k] => j = k
  <2>1. \A k \in T : f[k] \in S
    <3> SUFFICES ASSUME NEW k \in T PROVE f[k] \in S
      OBVIOUS
    <3>1. CASE k < b
      BY <1>1, <1>4, <3>1
    <3>2. CASE ~(k < b)
      BY <1>1, <1>4, <3>2
    <3> QED
      BY <3>1, <3>2
  <2>2. \A j, k \in T : f[j] = f[k] => j = k
    BY <1>1, <1>4
  <2> QED
    BY <2>1, <2>2
<1>6. \A i \in S : \E k \in T : f[k] = i
  <2> SUFFICES ASSUME NEW i \in S PROVE \E k \in T : f[k] = i
    OBVIOUS
  <2> DEFINE k == IF i < b THEN i ELSE i - 1
  <2>1. k \in T
    <3>1. i \in 1 .. m /\ i # b /\ q[i].run = r
      BY <1>4
    <3>2. CASE i < b
      BY <1>1, <1>4, <3>1, <3>2
    <3>3. CASE ~(i < b)
      <4>1. i - 1 \in 1 .. m - 1 /\ ~(i - 1 < b) /\ (i - 1) + 1 = i
        BY <1>1, <1>4, <3>1, <3>3
      <4> QED
        BY <1>4, <3>1, <3>3, <4>1
    <3> QED
      BY <3>2, <3>3
  <2>2. f[k] = i
    BY <1>1, <1>4, <2>1
  <2> QED
    BY <2>1, <2>2
<1>7. Cardinality(S) = Cardinality(T)
  <2> HIDE DEF f
  <2> QED
    BY <1>3, <1>5, <1>6, Renumbered
<1>8. IsFiniteSet(S)
  <2>1. S \subseteq DOMAIN q
    BY DEF S, Waiting
  <2> QED
    BY <2>1, PositionsFinite
<1>9. /\ b \notin S /\ (Waiting(q, r) = S \/ Waiting(q, r) = S \cup {b})
      /\ b \in Waiting(q, r) <=> q[b].run = r
  BY <1>1 DEF S, Waiting
<1>10. Cardinality(Waiting(q, r)) = Cardinality(S) + (IF b \in Waiting(q, r) THEN 1 ELSE 0)
  BY <1>8, <1>9, OneMoreCounts
<1> QED
  BY <1>3, <1>7, <1>9, <1>10 DEF T, p

\* A call whose appends all return leaves its entries on the log; one that fails
\* in the middle leaves some.
LEMMA AllAppended ==
  ASSUME log \in Seq(Entries), fails \in Nat, NEW events \in Seq(Entries),
         NEW k \in 0 .. Len(events), Appends(events, k)
  PROVE  /\ log' \in Seq(Entries)
         /\ fails' = 0 => fails = 0 /\ k = Len(events) /\ log' = log \o events
<1>1. SubSeq(events, 1, k) \in Seq(Entries)
  OBVIOUS
<1>2. log' \in Seq(Entries)
  BY <1>1 DEF Appends
<1>3. ASSUME fails' = 0 PROVE fails = 0 /\ k = Len(events)
  BY <1>3 DEF Appends
<1>4. k = Len(events) => SubSeq(events, 1, k) = events
  OBVIOUS
<1> QED
  BY <1>2, <1>3, <1>4 DEF Appends

\* What the log says of the other spokes.
LEMMA ElsewhereTold ==
  ASSUME NEW L \in Seq(Entries), NEW e \in Entries, NEW s \in Spoke, e.spoke # s
  PROVE  /\ \A run : TellsHolder(L, s, run) => TellsHolder(Append(L, e), s, run)
         /\ \A q : TellsWaiting(L, s, q) => TellsWaiting(Append(L, e), s, q)
<1>1. \A run : TellsHolder(L, s, run) => TellsHolder(Append(L, e), s, run)
  BY HolderTold
<1>2. \A r \in Run : \A kind \in {"siding.hold", "siding.resume"} :
        Cardinality(Named(Append(L, e), s, kind, r)) = Cardinality(Named(L, s, kind, r))
  BY NamedTold
<1> QED
  BY <1>1, <1>2 DEF TellsWaiting

\* A grant names the holder and leaves who waits, and a release clears it.
LEMMA MoveTold ==
  ASSUME NEW L \in Seq(Entries), NEW e \in Entries, NEW s \in Spoke, e.spoke = s,
         e.kind \in {"segment.grant", "segment.release"}
  PROVE  /\ TellsHolder(Append(L, e), s, Says(e))
         /\ \A q : TellsWaiting(L, s, q) => TellsWaiting(Append(L, e), s, q)
<1>1. TellsHolder(Append(L, e), s, Says(e))
  BY HolderTold
<1>2. \A r \in Run : \A kind \in {"siding.hold", "siding.resume"} :
        Cardinality(Named(Append(L, e), s, kind, r)) = Cardinality(Named(L, s, kind, r))
  BY NamedTold
<1> QED
  BY <1>1, <1>2 DEF TellsWaiting

\* A hold or a resume leaves the holder, and counts for its run.
LEMMA SidingTold ==
  ASSUME NEW L \in Seq(Entries), NEW e \in Entries, NEW s \in Spoke, e.spoke = s,
         e.kind \in {"siding.hold", "siding.resume"}, NEW q, NEW p, TellsWaiting(L, s, q),
         \A r \in Run :
           /\ Cardinality(Waiting(q, r)) \in Nat /\ Cardinality(Waiting(p, r)) \in Nat
           /\ Cardinality(Waiting(p, r)) + (IF e.kind = "siding.resume" /\ e.run = r THEN 1 ELSE 0) =
                Cardinality(Waiting(q, r)) + (IF e.kind = "siding.hold" /\ e.run = r THEN 1 ELSE 0)
  PROVE  /\ \A run : TellsHolder(L, s, run) => TellsHolder(Append(L, e), s, run)
         /\ TellsWaiting(Append(L, e), s, p)
<1>1. \A run : TellsHolder(L, s, run) => TellsHolder(Append(L, e), s, run)
  BY HolderTold
<1>2. ASSUME NEW r \in Run
      PROVE  Cardinality(Named(Append(L, e), s, "siding.hold", r)) =
               Cardinality(Named(Append(L, e), s, "siding.resume", r)) + Cardinality(Waiting(p, r))
  <2>1. /\ Cardinality(Named(L, s, "siding.hold", r)) \in Nat
        /\ Cardinality(Named(Append(L, e), s, "siding.hold", r)) =
             Cardinality(Named(L, s, "siding.hold", r))
               + (IF e.kind = "siding.hold" /\ e.run = r THEN 1 ELSE 0)
    BY NamedTold
  <2>2. /\ Cardinality(Named(L, s, "siding.resume", r)) \in Nat
        /\ Cardinality(Named(Append(L, e), s, "siding.resume", r)) =
             Cardinality(Named(L, s, "siding.resume", r))
               + (IF e.kind = "siding.resume" /\ e.run = r THEN 1 ELSE 0)
    BY NamedTold
  <2>3. Cardinality(Named(L, s, "siding.hold", r)) =
          Cardinality(Named(L, s, "siding.resume", r)) + Cardinality(Waiting(q, r))
    BY DEF TellsWaiting
  <2>4. /\ Cardinality(Waiting(q, r)) \in Nat /\ Cardinality(Waiting(p, r)) \in Nat
        /\ Cardinality(Waiting(p, r)) + (IF e.kind = "siding.resume" /\ e.run = r THEN 1 ELSE 0) =
             Cardinality(Waiting(q, r)) + (IF e.kind = "siding.hold" /\ e.run = r THEN 1 ELSE 0)
    OBVIOUS
  <2> QED
    BY <2>1, <2>2, <2>3, <2>4
<1> QED
  BY <1>1, <1>2 DEF TellsWaiting

\* A step at s tells the new line of s, and leaves what is told of the others.
LEMMA Retold ==
  ASSUME IInv, ToldInv, NEW s \in Spoke, NEW h, NEW q, NEW events \in Seq(Entries),
         NEW k \in 0 .. Len(events), Appends(events, k),
         fails' = 0 =>
           /\ holding' = [holding EXCEPT ![s] = h] /\ sidings' = [sidings EXCEPT ![s] = q]
           /\ TellsHolder(log \o events, s, h.run) /\ TellsWaiting(log \o events, s, q)
           /\ \A x \in Spoke : x # s =>
                /\ \A run : TellsHolder(log, x, run) => TellsHolder(log \o events, x, run)
                /\ \A p : TellsWaiting(log, x, p) => TellsWaiting(log \o events, x, p)
  PROVE  ToldInv'
<1>1. log \in Seq(Entries) /\ fails \in Nat
  BY DEF ToldInv, IInv, TypeOK
<1>2. log' \in Seq(Entries) /\ (fails' = 0 => fails = 0 /\ log' = log \o events)
  BY <1>1, AllAppended
<1>3. ASSUME fails' = 0, NEW x \in Spoke
      PROVE  TellsHolder(log, x, holding[x].run)' /\ TellsWaiting(log, x, sidings[x])'
  <2>1. /\ TellsHolder(log, x, holding[x].run) /\ TellsWaiting(log, x, sidings[x])
        /\ log' = log \o events
    BY <1>2, <1>3 DEF ToldInv
  <2>2. /\ x = s => holding'[x] = h /\ sidings'[x] = q
        /\ x # s => holding'[x] = holding[x] /\ sidings'[x] = sidings[x]
    BY <1>3 DEF IInv, TypeOK
  <2>3. TellsHolder(log \o events, x, holding'[x].run) /\ TellsWaiting(log \o events, x, sidings'[x])
    <3> DEFINE M == log \o events
    <3>1. /\ TellsHolder(M, s, h.run) /\ TellsWaiting(M, s, q)
          /\ x # s => /\ \A run : TellsHolder(log, x, run) => TellsHolder(M, x, run)
                      /\ \A p : TellsWaiting(log, x, p) => TellsWaiting(M, x, p)
      BY <1>3
    <3> HIDE DEF M
    <3>2. ASSUME x = s PROVE TellsHolder(M, x, holding'[x].run) /\ TellsWaiting(M, x, sidings'[x])
      BY <2>2, <3>1, <3>2
    <3>3. ASSUME x # s PROVE TellsHolder(M, x, holding'[x].run) /\ TellsWaiting(M, x, sidings'[x])
      <4>1. TellsHolder(M, x, holding[x].run) /\ TellsWaiting(M, x, sidings[x])
        BY <2>1, <3>1, <3>3
      <4> QED
        BY <2>2, <3>3, <4>1
    <3>4. TellsHolder(M, x, holding'[x].run) /\ TellsWaiting(M, x, sidings'[x])
      BY <3>2, <3>3
    <3> QED
      BY <3>4 DEF M
  <2>4. TellsHolder(log', x, holding'[x].run) /\ TellsWaiting(log', x, sidings'[x])
    BY <2>1, <2>3
  <2>5. TellsHolder(log, x, holding[x].run)'
    BY <2>4 DEF TellsHolder, Moves, Says
  <2>6. TellsWaiting(log, x, sidings[x])'
    BY <2>4 DEF TellsWaiting, Named, Waiting
  <2> QED
    BY <2>5, <2>6
<1> QED
  BY <1>2, <1>3 DEF ToldInv

\* Entries one after the other.
LEMMA Chained ==
  ASSUME NEW L \in Seq(Entries), NEW a \in Entries, NEW b \in Entries, NEW c \in Entries
  PROVE  /\ <<a>> \in Seq(Entries) /\ Len(<<a>>) = 1 /\ L \o <<a>> = Append(L, a)
         /\ <<a, b>> \in Seq(Entries) /\ Len(<<a, b>>) = 2
         /\ L \o <<a, b>> = Append(Append(L, a), b)
         /\ <<a, b, c>> \in Seq(Entries) /\ Len(<<a, b, c>>) = 3
         /\ L \o <<a, b, c>> = Append(Append(Append(L, a), b), c)
         /\ Append(L, a) \in Seq(Entries) /\ Append(Append(L, a), b) \in Seq(Entries)
OBVIOUS

\* An entry of a run of the scheduler at one of its spokes.
LEMMA EventTold ==
  ASSUME NEW kind \in {"segment.grant", "segment.release", "siding.hold", "siding.resume"},
         NEW r \in Run, NEW s \in Spoke
  PROVE  LET e == Event(kind, r, s)
         IN  /\ e \in Entries /\ e.kind = kind /\ e.run = r /\ e.spoke = s
             /\ Says(e) = IF kind = "segment.release" THEN "nobody" ELSE r
BY DEF Event, Entries, Says

\* A grant tells the new holder.
LEMMA GrantTold ==
  ASSUME IInv, ToldInv, NEW r \in Run, NEW s \in Spoke, Grant(r, s)
  PROVE  ToldInv'
<1> DEFINE e == Event("segment.grant", r, s)  q == sidings[s]
<1>1. /\ log \in Seq(Entries) /\ e \in Entries /\ e.kind = "segment.grant" /\ e.spoke = s /\ Says(e) = r
      /\ sidings' = [sidings EXCEPT ![s] = q] /\ holding' = [holding EXCEPT ![s] = Ticket(r)]
      /\ Ticket(r).run = r
  <2>1. sidings' = [sidings EXCEPT ![s] = sidings[s]]
    BY SameSiding DEF IInv, Grant
  <2>2. e \in Entries /\ e.kind = "segment.grant" /\ e.spoke = s /\ Says(e) = r
    BY EventTold
  <2>3. holding' = [holding EXCEPT ![s] = Ticket(r)] /\ Ticket(r).run = r /\ log \in Seq(Entries)
    BY DEF ToldInv, Grant, Ticket
  <2> HIDE DEF e
  <2> QED
    BY <2>1, <2>2, <2>3
<1>2. PICK k \in 0 .. 1 : Appends(<<e>>, k)
  BY DEF Grant
<1>3. fails' = 0 => fails = 0
  <2>1. log \in Seq(Entries) /\ fails \in Nat /\ <<e>> \in Seq(Entries) /\ Len(<<e>>) = 1
    BY <1>1, Chained DEF IInv, TypeOK
  <2> HIDE DEF e
  <2> QED
    BY <1>2, <2>1, AllAppended
<1> HIDE DEF e, q
<1>4. <<e>> \in Seq(Entries) /\ Len(<<e>>) = 1 /\ log \o <<e>> = Append(log, e)
  BY <1>1, Chained
<1>5. ASSUME fails' = 0
      PROVE  /\ TellsHolder(log \o <<e>>, s, Ticket(r).run) /\ TellsWaiting(log \o <<e>>, s, q)
             /\ \A x \in Spoke : x # s =>
                  /\ \A run : TellsHolder(log, x, run) => TellsHolder(log \o <<e>>, x, run)
                  /\ \A p : TellsWaiting(log, x, p) => TellsWaiting(log \o <<e>>, x, p)
  <2>1. TellsWaiting(log, s, q)
    BY <1>3, <1>5 DEF ToldInv, q
  <2>2. TellsHolder(Append(log, e), s, r) /\ TellsWaiting(Append(log, e), s, q)
    BY <1>1, <2>1, MoveTold
  <2>3. \A x \in Spoke : x # s =>
          /\ \A run : TellsHolder(log, x, run) => TellsHolder(Append(log, e), x, run)
          /\ \A p : TellsWaiting(log, x, p) => TellsWaiting(Append(log, e), x, p)
    BY <1>1, ElsewhereTold
  <2> QED
    BY <1>1, <1>4, <2>2, <2>3
<1> QED
  BY <1>1, <1>2, <1>4, <1>5, Retold

\* A wait tells who waits.
LEMMA WaitTold ==
  ASSUME IInv, ToldInv, NEW r \in Run, NEW s \in Spoke, Wait(r, s)
  PROVE  ToldInv'
<1> DEFINE e == Event("siding.hold", r, s)  q == sidings[s]  p == Append(q, Ticket(r))  h == holding[s]
<1>1. /\ log \in Seq(Entries) /\ e \in Entries /\ e.kind = "siding.hold" /\ e.spoke = s /\ e.run = r
      /\ sidings' = [sidings EXCEPT ![s] = p] /\ Ticket(r).run = r
  BY EventTold DEF ToldInv, Wait, Ticket
<1>2. PICK k \in 0 .. 1 : Appends(<<e>>, k)
  BY DEF Wait
<1>3. holding' = [holding EXCEPT ![s] = h] /\ q \in Seq(Tickets)
  BY DEF IInv, TypeOK, Wait
<1>4. \A x \in Run : /\ Cardinality(Waiting(q, x)) \in Nat /\ Cardinality(Waiting(p, x)) \in Nat
                     /\ Cardinality(Waiting(p, x)) = Cardinality(Waiting(q, x)) + (IF r = x THEN 1 ELSE 0)
  BY <1>1, <1>3, WaitingAppended
<1> HIDE DEF e, q, p, h
<1>5. <<e>> \in Seq(Entries) /\ Len(<<e>>) = 1 /\ log \o <<e>> = Append(log, e)
  BY <1>1, Chained
<1>6. fails' = 0 => fails = 0
  BY <1>1, <1>2, <1>5, AllAppended DEF IInv, TypeOK
<1>7. ASSUME fails' = 0
      PROVE  /\ TellsHolder(log \o <<e>>, s, h.run) /\ TellsWaiting(log \o <<e>>, s, p)
             /\ \A x \in Spoke : x # s =>
                  /\ \A run : TellsHolder(log, x, run) => TellsHolder(log \o <<e>>, x, run)
                  /\ \A w : TellsWaiting(log, x, w) => TellsWaiting(log \o <<e>>, x, w)
  <2>1. TellsHolder(log, s, h.run) /\ TellsWaiting(log, s, q)
    BY <1>6, <1>7 DEF ToldInv, q, h
  <2>2. \A x \in Run :
          /\ Cardinality(Waiting(q, x)) \in Nat /\ Cardinality(Waiting(p, x)) \in Nat
          /\ Cardinality(Waiting(p, x)) + (IF e.kind = "siding.resume" /\ e.run = x THEN 1 ELSE 0) =
               Cardinality(Waiting(q, x)) + (IF e.kind = "siding.hold" /\ e.run = x THEN 1 ELSE 0)
    BY <1>1, <1>4
  <2>4. e.kind \in {"siding.hold", "siding.resume"}
    BY <1>1
  <2>5. TellsHolder(Append(log, e), s, h.run) /\ TellsWaiting(Append(log, e), s, p)
    BY <1>1, <2>1, <2>2, <2>4, SidingTold
  <2>3. \A x \in Spoke : x # s =>
          /\ \A run : TellsHolder(log, x, run) => TellsHolder(Append(log, e), x, run)
          /\ \A w : TellsWaiting(log, x, w) => TellsWaiting(Append(log, e), x, w)
    BY <1>1, ElsewhereTold
  <2> QED
    BY <1>5, <2>3, <2>5
<1> QED
  BY <1>1, <1>2, <1>3, <1>5, <1>7, Retold

\* The preempted holder is sided, and the contender granted.
LEMMA PreemptTold ==
  ASSUME IInv, ToldInv, NEW r \in Run, NEW s \in Spoke, Preempt(r, s)
  PROVE  ToldInv'
<1> DEFINE h == holding[s]  q == sidings[s]  p == <<h>> \o q
           a == Event("siding.hold", h.run, s)  b == Event("segment.grant", r, s)
           L == Append(log, a)
<1>1. h \in Tickets /\ h.run \in Run /\ q \in Seq(Tickets) /\ sidings' = [sidings EXCEPT ![s] = p]
  BY DEF IInv, TypeOK, Preempt, Tickets
<1>2. /\ log \in Seq(Entries) /\ Ticket(r).run = r
      /\ a \in Entries /\ a.kind = "siding.hold" /\ a.spoke = s /\ a.run = h.run
      /\ b \in Entries /\ b.kind = "segment.grant" /\ b.spoke = s /\ Says(b) = r
  <2> HIDE DEF h
  <2> QED
    BY <1>1, EventTold DEF ToldInv, Ticket
<1>3. PICK k \in 0 .. 2 : /\ Appends(<<a, b>>, k)
                          /\ holding' = IF k = 0 THEN holding ELSE [holding EXCEPT ![s] = Ticket(r)]
  BY DEF Preempt
<1>4. \A x \in Run : /\ Cardinality(Waiting(q, x)) \in Nat /\ Cardinality(Waiting(p, x)) \in Nat
                     /\ Cardinality(Waiting(p, x)) = Cardinality(Waiting(q, x)) + (IF h.run = x THEN 1 ELSE 0)
  <2> HIDE DEF h, q
  <2> QED
    BY <1>1, WaitingPut
<1> HIDE DEF h, q, p, a, b, L
<1>5. /\ <<a, b>> \in Seq(Entries) /\ Len(<<a, b>>) = 2 /\ log \o <<a, b>> = Append(L, b)
      /\ L \in Seq(Entries)
  BY <1>2, Chained DEF L
<1>6. fails' = 0 => fails = 0 /\ k = 2
  BY <1>2, <1>3, <1>5, AllAppended DEF IInv, TypeOK
<1>7. ASSUME fails' = 0
      PROVE  /\ holding' = [holding EXCEPT ![s] = Ticket(r)]
             /\ TellsHolder(log \o <<a, b>>, s, Ticket(r).run) /\ TellsWaiting(log \o <<a, b>>, s, p)
             /\ \A x \in Spoke : x # s =>
                  /\ \A run : TellsHolder(log, x, run) => TellsHolder(log \o <<a, b>>, x, run)
                  /\ \A w : TellsWaiting(log, x, w) => TellsWaiting(log \o <<a, b>>, x, w)
  <2>1. TellsWaiting(log, s, q)
    BY <1>6, <1>7 DEF ToldInv, q
  <2>2. TellsWaiting(L, s, p)
    <3>1. \A x \in Run :
            /\ Cardinality(Waiting(q, x)) \in Nat /\ Cardinality(Waiting(p, x)) \in Nat
            /\ Cardinality(Waiting(p, x)) + (IF a.kind = "siding.resume" /\ a.run = x THEN 1 ELSE 0) =
                 Cardinality(Waiting(q, x)) + (IF a.kind = "siding.hold" /\ a.run = x THEN 1 ELSE 0)
      BY <1>2, <1>4
    <3>2. a.kind \in {"siding.hold", "siding.resume"}
      BY <1>2
    <3> QED
      BY <1>2, <2>1, <3>1, <3>2, SidingTold DEF L
  <2>3. TellsHolder(Append(L, b), s, r) /\ TellsWaiting(Append(L, b), s, p)
    BY <1>2, <1>5, <2>2, MoveTold
  <2>4. \A x \in Spoke : x # s =>
          /\ \A run : TellsHolder(log, x, run) => TellsHolder(L, x, run)
          /\ \A w : TellsWaiting(log, x, w) => TellsWaiting(L, x, w)
    BY <1>2, ElsewhereTold DEF L
  <2>5. \A x \in Spoke : x # s =>
          /\ \A run : TellsHolder(L, x, run) => TellsHolder(Append(L, b), x, run)
          /\ \A w : TellsWaiting(L, x, w) => TellsWaiting(Append(L, b), x, w)
    BY <1>2, <1>5, ElsewhereTold
  <2>6. \A x \in Spoke : x # s =>
          /\ \A run : TellsHolder(log, x, run) => TellsHolder(Append(L, b), x, run)
          /\ \A w : TellsWaiting(log, x, w) => TellsWaiting(Append(L, b), x, w)
    BY <2>4, <2>5
  <2>7. holding' = [holding EXCEPT ![s] = Ticket(r)]
    BY <1>3, <1>6, <1>7
  <2> QED
    BY <1>2, <1>5, <2>3, <2>6, <2>7
<1> QED
  BY <1>1, <1>3, <1>5, <1>7, Retold

\* A release with nobody waiting tells that the segment is free.
LEMMA ReleaseAloneTold ==
  ASSUME IInv, ToldInv, NEW s \in Spoke, ReleaseAlone(s)
  PROVE  ToldInv'
<1> DEFINE e == Event("segment.release", holding[s].run, s)  q == sidings[s]
<1>1. /\ holding[s].run \in Run /\ sidings' = [sidings EXCEPT ![s] = q]
      /\ holding' = [holding EXCEPT ![s] = Nobody] /\ Nobody.run = "nobody"
  <2>1. sidings' = [sidings EXCEPT ![s] = sidings[s]]
    BY SameSiding DEF IInv, ReleaseAlone
  <2>2. holding[s] \in Tickets
    BY DEF IInv, TypeOK, ReleaseAlone, Clear
  <2> QED
    BY <2>1, <2>2 DEF Tickets, ReleaseAlone, Nobody
<1>2. log \in Seq(Entries) /\ e \in Entries /\ e.kind = "segment.release" /\ e.spoke = s
      /\ Says(e) = "nobody"
  BY <1>1, EventTold DEF ToldInv
<1>3. PICK k \in 0 .. 1 : Appends(<<e>>, k)
  BY DEF ReleaseAlone
<1> HIDE DEF e, q
<1>4. <<e>> \in Seq(Entries) /\ Len(<<e>>) = 1 /\ log \o <<e>> = Append(log, e)
  BY <1>2, Chained
<1>5. fails' = 0 => fails = 0
  BY <1>2, <1>3, <1>4, AllAppended DEF IInv, TypeOK
<1>6. ASSUME fails' = 0
      PROVE  /\ TellsHolder(log \o <<e>>, s, Nobody.run) /\ TellsWaiting(log \o <<e>>, s, q)
             /\ \A x \in Spoke : x # s =>
                  /\ \A run : TellsHolder(log, x, run) => TellsHolder(log \o <<e>>, x, run)
                  /\ \A p : TellsWaiting(log, x, p) => TellsWaiting(log \o <<e>>, x, p)
  <2>1. TellsWaiting(log, s, q)
    BY <1>5, <1>6 DEF ToldInv, q
  <2>2. TellsHolder(Append(log, e), s, "nobody") /\ TellsWaiting(Append(log, e), s, q)
    BY <1>2, <2>1, MoveTold
  <2>3. \A x \in Spoke : x # s =>
          /\ \A run : TellsHolder(log, x, run) => TellsHolder(Append(log, e), x, run)
          /\ \A p : TellsWaiting(log, x, p) => TellsWaiting(Append(log, e), x, p)
    BY <1>2, ElsewhereTold
  <2> QED
    BY <1>1, <1>4, <2>2, <2>3
<1> QED
  BY <1>1, <1>3, <1>4, <1>6, Retold

\* The segment clears, and the best waiting run is resumed and granted.
LEMMA ReleaseTold ==
  ASSUME IInv, ToldInv, NEW s \in Spoke, Release(s)
  PROVE  ToldInv'
<1> DEFINE h == holding[s]  q == sidings[s]  i == Best(q)  next == q[i]  p == RemoveAt(q, i)
           a == Event("segment.release", h.run, s)  b == Event("siding.resume", next.run, s)
           c == Event("segment.grant", next.run, s)  L == Append(log, a)  M == Append(L, b)
<1>1. h \in Tickets /\ h.run \in Run /\ q \in Seq(Tickets) /\ q # <<>>
  BY DEF IInv, TypeOK, Release, Clear, Tickets
<1>2. PICK k \in 0 .. 3 :
        /\ Appends(<<a, b, c>>, k)
        /\ k # 0 => holding' = [holding EXCEPT ![s] = next] /\ sidings' = [sidings EXCEPT ![s] = p]
  BY DEF Release
<1> HIDE DEF h, q
<1>3. i \in 1 .. Len(q)
  BY <1>1, BestIsBest
<1>4. next \in Tickets /\ next.run \in Run
  <2> HIDE DEF i
  <2>1. q[i] \in Tickets
    BY <1>1, <1>3
  <2> QED
    BY <2>1 DEF Tickets
<1> HIDE DEF i
<1>5. \A x \in Run : /\ Cardinality(Waiting(q, x)) \in Nat /\ Cardinality(Waiting(p, x)) \in Nat
                     /\ Cardinality(Waiting(q, x)) = Cardinality(Waiting(p, x)) + (IF next.run = x THEN 1 ELSE 0)
  <2>1. \A x : /\ Cardinality(Waiting(p, x)) \in Nat
               /\ Cardinality(Waiting(q, x)) = Cardinality(Waiting(p, x)) + (IF next.run = x THEN 1 ELSE 0)
    BY <1>1, <1>3, WaitingRemoved
  <2> HIDE DEF p, next
  <2> QED
    BY <2>1
<1> HIDE DEF next, p
<1>6. /\ log \in Seq(Entries)
      /\ a \in Entries /\ a.kind = "segment.release" /\ a.spoke = s
      /\ b \in Entries /\ b.kind = "siding.resume" /\ b.spoke = s /\ b.run = next.run
      /\ c \in Entries /\ c.kind = "segment.grant" /\ c.spoke = s /\ Says(c) = next.run
  BY <1>1, <1>4, EventTold DEF ToldInv
<1> HIDE DEF a, b, c, L, M
<1>7. /\ <<a, b, c>> \in Seq(Entries) /\ Len(<<a, b, c>>) = 3 /\ log \o <<a, b, c>> = Append(M, c)
      /\ L \in Seq(Entries) /\ M \in Seq(Entries)
  BY <1>6, Chained DEF L, M
<1>8. fails' = 0 => fails = 0 /\ k = 3
  BY <1>2, <1>6, <1>7, AllAppended DEF IInv, TypeOK
<1>9. ASSUME fails' = 0
      PROVE  /\ holding' = [holding EXCEPT ![s] = next] /\ sidings' = [sidings EXCEPT ![s] = p]
             /\ TellsHolder(log \o <<a, b, c>>, s, next.run) /\ TellsWaiting(log \o <<a, b, c>>, s, p)
             /\ \A x \in Spoke : x # s =>
                  /\ \A run : TellsHolder(log, x, run) => TellsHolder(log \o <<a, b, c>>, x, run)
                  /\ \A w : TellsWaiting(log, x, w) => TellsWaiting(log \o <<a, b, c>>, x, w)
  <2>1. TellsWaiting(log, s, q)
    BY <1>8, <1>9 DEF ToldInv, q
  <2>2. TellsWaiting(L, s, q)
    BY <1>6, <2>1, MoveTold DEF L
  <2>3. TellsWaiting(M, s, p)
    <3>1. \A x \in Run :
            /\ Cardinality(Waiting(q, x)) \in Nat /\ Cardinality(Waiting(p, x)) \in Nat
            /\ Cardinality(Waiting(p, x)) + (IF b.kind = "siding.resume" /\ b.run = x THEN 1 ELSE 0) =
                 Cardinality(Waiting(q, x)) + (IF b.kind = "siding.hold" /\ b.run = x THEN 1 ELSE 0)
      BY <1>5, <1>6
    <3>2. b.kind \in {"siding.hold", "siding.resume"}
      BY <1>6
    <3> QED
      BY <1>6, <1>7, <2>2, <3>1, <3>2, SidingTold DEF M
  <2>4. TellsHolder(Append(M, c), s, next.run) /\ TellsWaiting(Append(M, c), s, p)
    BY <1>6, <1>7, <2>3, MoveTold
  <2>5. \A x \in Spoke : x # s =>
          /\ \A run : TellsHolder(log, x, run) => TellsHolder(L, x, run)
          /\ \A w : TellsWaiting(log, x, w) => TellsWaiting(L, x, w)
    BY <1>6, ElsewhereTold DEF L
  <2>6. \A x \in Spoke : x # s =>
          /\ \A run : TellsHolder(L, x, run) => TellsHolder(M, x, run)
          /\ \A w : TellsWaiting(L, x, w) => TellsWaiting(M, x, w)
    BY <1>6, <1>7, ElsewhereTold DEF M
  <2>7. \A x \in Spoke : x # s =>
          /\ \A run : TellsHolder(M, x, run) => TellsHolder(Append(M, c), x, run)
          /\ \A w : TellsWaiting(M, x, w) => TellsWaiting(Append(M, c), x, w)
    BY <1>6, <1>7, ElsewhereTold
  <2>8. \A x \in Spoke : x # s =>
          /\ \A run : TellsHolder(log, x, run) => TellsHolder(Append(M, c), x, run)
          /\ \A w : TellsWaiting(log, x, w) => TellsWaiting(Append(M, c), x, w)
    BY <2>5, <2>6, <2>7
  <2>9. holding' = [holding EXCEPT ![s] = next] /\ sidings' = [sidings EXCEPT ![s] = p]
    BY <1>2, <1>8, <1>9
  <2> QED
    BY <1>7, <2>4, <2>8, <2>9
<1> QED
  <2>1. CASE k = 0
    <3>1. fails' # 0
      BY <1>8, <2>1
    <3>2. log' \in Seq(Entries)
      BY <1>2, <1>6, <1>7, AllAppended DEF IInv, TypeOK
    <3> QED
      BY <3>1, <3>2 DEF ToldInv
  <2>2. CASE k # 0
    BY <1>2, <1>7, <1>9, Retold
  <2> QED
    BY <2>1, <2>2

\* Reportable from the audit log alone (priority.py:11-12): with no append raised,
\* the log's last grant without a release names the holder of a spoke, and a run
\* waits there as often as it was sided and not resumed since.
THEOREM ToldCorrect == Spec => []ToldByTheLog
<1>1. Init => ToldInv
  <2> SUFFICES ASSUME Init PROVE ToldInv
    OBVIOUS
  <2>1. log = <<>> /\ \A s \in Spoke : holding[s].run = "nobody" /\ sidings[s] = <<>>
    BY DEF Init, Nobody
  <2>2. \A s \in Spoke : Moves(log, s) = {} /\ \A r, kind : Named(log, s, kind, r) = {}
    BY <2>1 DEF Moves, Named
  <2>3. \A r : Waiting(<<>>, r) = {}
    BY DEF Waiting
  <2>4. Cardinality({}) = 0
    BY FS_EmptySet
  <2>5. \A s \in Spoke : TellsHolder(log, s, holding[s].run)
    BY <2>1, <2>2 DEF TellsHolder
  <2>6. \A s \in Spoke : TellsWaiting(log, s, sidings[s])
    <3>1. \A s \in Spoke : Waiting(sidings[s], s) = Waiting(<<>>, s)
      BY <2>1
    <3>2. \A s \in Spoke, r \in Run : Cardinality(Waiting(sidings[s], r)) = 0
      BY <2>1, <2>3, <2>4
    <3> QED
      BY <2>2, <2>4, <3>2 DEF TellsWaiting
  <2> QED
    BY <2>1, <2>5, <2>6 DEF ToldInv
<1>2. IInv /\ ToldInv /\ [Next]_vars => ToldInv'
  <2> SUFFICES ASSUME IInv, ToldInv, [Next]_vars PROVE ToldInv'
    OBVIOUS
  <2>1. ASSUME NEW s \in Spoke, NEW r \in Run, Request(r, s) PROVE ToldInv'
    BY <2>1, GrantTold, PreemptTold, WaitTold DEF Request
  <2>2. ASSUME NEW s \in Spoke, Finish(s) PROVE ToldInv'
    BY <2>2, ReleaseAloneTold, ReleaseTold DEF Finish
  <2>3. CASE UNCHANGED vars
    BY <2>3 DEF vars, ToldInv, TellsHolder, TellsWaiting, Moves, Named, Waiting, Says
  <2> QED
    BY <2>1, <2>2, <2>3 DEF Next
<1>3. ToldInv => ToldByTheLog
  <2> SUFFICES ASSUME ToldInv, fails = 0, NEW s \in Spoke
               PROVE  LET Of(kind) == {j \in DOMAIN log : log[j].spoke = s /\ log[j].kind \in {kind}}
                          Among(kind, r) == {i \in Of(kind) : log[i].run = r}
                          turns == Moves(log, s)
                          last  == CHOOSE i \in turns : \A j \in turns : j <= i
                      IN  /\ holding[s].run = IF turns = {} \/ log[last].kind = "segment.release"
                                              THEN "nobody" ELSE log[last].run
                          /\ \A r \in Run :
                               Cardinality(Among("siding.hold", r)) =
                                 Cardinality(Among("siding.resume", r))
                                   + Cardinality(Waiting(sidings[s], r))
    BY DEF ToldByTheLog, Moves, Waiting
  <2> DEFINE turns == Moves(log, s)
             last  == CHOOSE i \in turns : \A j \in turns : j <= i
  <2>1. TellsHolder(log, s, holding[s].run) /\ TellsWaiting(log, s, sidings[s])
    BY DEF ToldInv
  <2>2. turns \subseteq Nat
    <3>1. DOMAIN log \subseteq Nat
      BY DEF ToldInv
    <3> QED
      BY <3>1 DEF Moves
  <2>3. ASSUME turns # {} PROVE holding[s].run = Says(log[last])
    <3>1. PICK i \in turns : (\A j \in turns : j <= i) /\ holding[s].run = Says(log[i])
      BY <2>1, <2>3 DEF TellsHolder
    <3>2. last \in turns /\ \A j \in turns : j <= last
      <4> HIDE DEF turns
      <4> QED
        BY <3>1, Zenon
    <3>3. last = i
      <4> HIDE DEF turns, last
      <4> QED
        BY <2>2, <3>1, <3>2
    <3> QED
      BY <3>1, <3>3
  <2>4. turns = {} => holding[s].run = "nobody"
    BY <2>1 DEF TellsHolder
  <2> HIDE DEF turns, last
  <2>5. holding[s].run = IF turns = {} \/ log[last].kind = "segment.release"
                         THEN "nobody" ELSE log[last].run
    BY <2>3, <2>4 DEF Says
  <2>6. \A kind, r : {i \in {j \in DOMAIN log : log[j].spoke = s /\ log[j].kind \in {kind}} : log[i].run = r}
                       = Named(log, s, kind, r)
    BY DEF Named
  <2> QED
    BY <2>1, <2>5, <2>6 DEF TellsWaiting, turns, last
<1> QED
  BY <1>1, <1>2, <1>3, Inductive, PTL DEF Spec
=============================================================================
