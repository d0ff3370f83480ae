---------------------------- MODULE HandoffProofs ----------------------------
(***************************************************************************)
(* Territories, proved for any number of hubs and contexts, any sends,     *)
(* handoffs, lost and late records and acks, failures and restarts: what   *)
(* an adoption rests on, that open items follow their context, that its    *)
(* numbers continue, and that no context is in nobody's region.            *)
(***************************************************************************)
EXTENDS Handoff, Positions

----------------------------------------------------------------------------
(* Types *)

AnyMarks == UNION {[cs -> Nat] : cs \in (SUBSET Ctx) \ {{}}}

Record == {r \in [id : Nat \ {0}, from : Hubs, signed : BOOLEAN, marks : AnyMarks, items : AnyMarks] :
             DOMAIN r.items = DOMAIN r.marks}

Line == [kind : {"hub.boot", "sleepmark.captured", "sleepmark.restored"}]
          \cup [kind : {"envelope.persisted"}, ctx : Ctx, seq : Nat, returned : BOOLEAN]
          \cup [kind : {"human.notified", "human.notify_failed", "territory.transfer.refused",
                        "territory.transfer.sent"}, id : Nat]
          \cup [kind : {"territory.transfer.received", "territory.transfer.ack",
                        "territory.transfer.released"}, id : Nat, marks : AnyMarks]

Clock == [sends : Nat, built : Nat, received : Nat, fails : Nat, boots : Nat]

TypeOK ==
  /\ seq \in [Hubs -> [Ctx -> Nat]] /\ items \in [Hubs -> [Ctx -> Nat]]
  /\ log \in [Hubs -> Seq(Line)]
  /\ sending \in [Hubs -> {Idle} \cup [step : {"commit"}, ctx : Ctx, seq : Nat]]
  /\ drafting \in [Hubs -> {Idle} \cup [step : {"build"}, id : Nat \ {0}, marks : AnyMarks]]
  /\ adopting \in [Hubs -> {Idle} \cup [step : {"adopt", "ack"}, record : Record]]
  /\ records \subseteq Record
  /\ clock \in Clock
  /\ owner \in [Ctx -> [hub : Hubs, by : Nat]]
  /\ held \in [Ctx -> Nat]

\* A mark names some contexts, each with a number.
LEMMA MarksType ==
  /\ \A m \in AnyMarks : DOMAIN m \subseteq Ctx /\ DOMAIN m # {} /\ \A c \in DOMAIN m : m[c] \in Nat
  /\ \A cs \in (SUBSET Ctx) \ {{}} : \A m \in [cs -> Nat] : m \in AnyMarks
  BY DEF AnyMarks

\* A counter of the clock that ticks leaves the clock typed, and goes up by one.
LEMMA Ticks ==
  ASSUME NEW what \in {"sends", "built", "received", "fails", "boots"}, NEW max \in Nat,
         Tick(what, max), clock \in Clock
  PROVE  /\ clock' \in Clock
         /\ clock'.built = clock.built + (IF what = "built" THEN 1 ELSE 0)
<1>1. CASE what = "sends"
  <2>1. clock' = [clock EXCEPT !.sends = @ + 1]
    BY <1>1 DEF Tick
  <2> QED BY <2>1, <1>1 DEF Clock
<1>2. CASE what = "built"
  <2>1. clock' = [clock EXCEPT !.built = @ + 1]
    BY <1>2 DEF Tick
  <2> QED BY <2>1, <1>2 DEF Clock
<1>3. CASE what = "received"
  <2>1. clock' = [clock EXCEPT !.received = @ + 1]
    BY <1>3 DEF Tick
  <2> QED BY <2>1, <1>3 DEF Clock
<1>4. CASE what = "fails"
  <2>1. clock' = [clock EXCEPT !.fails = @ + 1]
    BY <1>4 DEF Tick
  <2> QED BY <2>1, <1>4 DEF Clock
<1>5. CASE what = "boots"
  <2>1. clock' = [clock EXCEPT !.boots = @ + 1]
    BY <1>5 DEF Tick
  <2> QED BY <2>1, <1>5 DEF Clock
<1> QED
  BY <1>1, <1>2, <1>3, <1>4, <1>5

\* Every counter but the ids'.
LEMMA TicksOther ==
  ASSUME NEW what \in {"sends", "received", "fails", "boots"}, NEW max \in Nat,
         Tick(what, max), clock \in Clock
  PROVE  clock' \in Clock /\ clock'.built = clock.built
<1>1. what # "built"
  OBVIOUS
<1>2. clock' \in Clock /\ clock'.built = clock.built + (IF what = "built" THEN 1 ELSE 0)
  BY Ticks
<1>3. clock.built \in Nat
  BY DEF Clock
<1> QED
  BY <1>1, <1>2, <1>3

\* A log that grows by lines is a log.
LEMMA LogGrows ==
  ASSUME NEW h \in Hubs, log \in [Hubs -> Seq(Line)]
  PROVE  /\ \A e \in Line : [log EXCEPT ![h] = Append(@, e)] \in [Hubs -> Seq(Line)]
         /\ \A s \in Seq(Line) : [log EXCEPT ![h] = @ \o s] \in [Hubs -> Seq(Line)]
<1>1. ASSUME NEW S, NEW s \in Seq(S) PROVE (\A e \in S : Append(s, e) \in Seq(S)) /\ \A t \in Seq(S) : s \o t \in Seq(S)
  OBVIOUS
<1>2. log[h] \in Seq(Line)
  OBVIOUS
<1>3. (\A e \in Line : Append(log[h], e) \in Seq(Line)) /\ \A t \in Seq(Line) : log[h] \o t \in Seq(Line)
  BY <1>1, <1>2
<1> QED
  BY <1>3

\* What a call appends, and what a failure leaves of it.
LEMMA WritesType ==
  ASSUME NEW h \in Hubs, NEW n \in Nat, NEW entries \in Seq(Line), n <= Len(entries),
         Writes(h, entries, n), log \in [Hubs -> Seq(Line)], clock \in Clock
  PROVE  /\ log' \in [Hubs -> Seq(Line)]
         /\ clock' \in Clock
         /\ clock'.built = clock.built
<1>0. PICK k \in 0 .. Len(entries) : log' = [log EXCEPT ![h] = @ \o SubSeq(entries, 1, k)]
  BY DEF Writes
<1>1. SubSeq(entries, 1, k) \in Seq(Line)
  OBVIOUS
<1>2. log[h] \o SubSeq(entries, 1, k) \in Seq(Line)
  BY <1>1
<1>3. log' \in [Hubs -> Seq(Line)]
  BY <1>0, <1>2
<1>4. MaxFails \in Nat
  BY HandoffAssumption
<1>5. clock' = clock \/ Tick("fails", MaxFails)
  BY DEF Writes
<1>6. CASE clock' = clock
  BY <1>3, <1>6
<1>7. CASE Tick("fails", MaxFails)
  <2>1. clock' \in Clock /\ clock'.built = clock.built + (IF "fails" = "built" THEN 1 ELSE 0)
    BY <1>4, <1>7, Ticks
  <2>2. clock.built \in Nat
    BY DEF Clock
  <2> QED BY <2>1, <2>2, <1>3
<1> QED
  BY <1>5, <1>6, <1>7

\* Two elements make a sequence.
LEMMA PairSeq ==
  ASSUME NEW S, NEW a \in S, NEW b \in S
  PROVE  <<a, b>> \in Seq(S)
  OBVIOUS

\* A line appended, and the appends of each call, are lines.
LEMMA LineTypes ==
  /\ [kind |-> "hub.boot"] \in Line
  /\ \A c \in Ctx, n \in Nat, b \in BOOLEAN :
       LET e == [kind |-> "envelope.persisted", ctx |-> c, seq |-> n, returned |-> b]
       IN  e \in Line /\ <<e>> \in Seq(Line)
  /\ \A n \in Nat : <<[kind |-> "sleepmark.captured"],
                      [kind |-> "territory.transfer.sent", id |-> n]>> \in Seq(Line)
  /\ \A k \in {"human.notified", "human.notify_failed", "territory.transfer.refused"}, n \in Nat :
       [kind |-> k, id |-> n] \in Line
  /\ <<[kind |-> "sleepmark.restored"]>> \in Seq(Line)
  /\ \A k \in {"territory.transfer.received", "territory.transfer.ack", "territory.transfer.released"} :
       \A n \in Nat, m \in AnyMarks :
         /\ [kind |-> k, id |-> n, marks |-> m] \in Line
         /\ <<[kind |-> k, id |-> n, marks |-> m]>> \in Seq(Line)
<1>1. \A n \in Nat : /\ [kind |-> "sleepmark.captured"] \in Line
                     /\ [kind |-> "territory.transfer.sent", id |-> n] \in Line
  BY DEF Line
<1>2. \A n \in Nat : <<[kind |-> "sleepmark.captured"],
                      [kind |-> "territory.transfer.sent", id |-> n]>> \in Seq(Line)
  BY <1>1, PairSeq
<1>3. [kind |-> "sleepmark.restored"] \in Line
  BY DEF Line
<1>4. <<[kind |-> "sleepmark.restored"]>> \in Seq(Line)
  BY <1>3
<1>5. \A k \in {"territory.transfer.received", "territory.transfer.ack", "territory.transfer.released"} :
        \A n \in Nat, m \in AnyMarks : [kind |-> k, id |-> n, marks |-> m] \in Line
  BY DEF Line
<1>6. \A k \in {"territory.transfer.received", "territory.transfer.ack", "territory.transfer.released"} :
        \A n \in Nat, m \in AnyMarks : <<[kind |-> k, id |-> n, marks |-> m]>> \in Seq(Line)
  BY <1>5
<1>8. \A c \in Ctx, n \in Nat, b \in BOOLEAN :
        LET e == [kind |-> "envelope.persisted", ctx |-> c, seq |-> n, returned |-> b]
        IN  e \in Line /\ <<e>> \in Seq(Line)
  <2>1. \A c \in Ctx, n \in Nat, b \in BOOLEAN :
          [kind |-> "envelope.persisted", ctx |-> c, seq |-> n, returned |-> b] \in Line
    BY DEF Line
  <2>2. \A e \in Line : <<e>> \in Seq(Line)
    OBVIOUS
  <2> QED BY <2>1, <2>2
<1>7. /\ [kind |-> "hub.boot"] \in Line
      /\ \A k \in {"human.notified", "human.notify_failed", "territory.transfer.refused"}, n \in Nat :
           [kind |-> k, id |-> n] \in Line
  BY DEF Line
<1> QED
  BY <1>2, <1>4, <1>5, <1>6, <1>7, <1>8

\* The fields of a record.
LEMMA RecordTypes ==
  /\ \A r \in Record : /\ r.id \in Nat \ {0} /\ r.from \in Hubs /\ r.signed \in BOOLEAN
                       /\ r.marks \in AnyMarks /\ r.items \in AnyMarks
                       /\ DOMAIN r.items = DOMAIN r.marks
  /\ \A n \in Nat \ {0}, h \in Hubs, s \in BOOLEAN, m, i \in AnyMarks :
       DOMAIN i = DOMAIN m => [id |-> n, from |-> h, signed |-> s, marks |-> m, items |-> i] \in Record
  BY DEF Record

\* The line of an envelope, and that of a record that comes in.
LEMMA CallLines ==
  ASSUME TypeOK
  PROVE  /\ \A h \in Hubs, c \in Ctx, b \in BOOLEAN :
              Numbered(h, c, b) \in Line /\ <<Numbered(h, c, b)>> \in Seq(Line)
         /\ \A r \in records : /\ Arrived(r) \in Line /\ <<Arrived(r)>> \in Seq(Line)
                              /\ r \in Record /\ r.id \in Nat /\ r.marks \in AnyMarks
<1>1. ASSUME NEW h \in Hubs, NEW c \in Ctx, NEW b \in BOOLEAN
      PROVE  Numbered(h, c, b) \in Line /\ <<Numbered(h, c, b)>> \in Seq(Line)
  <2>1. seq[h][c] + 1 \in Nat
    BY DEF TypeOK
  <2> QED BY <2>1, LineTypes DEF Numbered
<1>2. ASSUME NEW r \in records
      PROVE  /\ Arrived(r) \in Line /\ <<Arrived(r)>> \in Seq(Line)
             /\ r \in Record /\ r.id \in Nat /\ r.marks \in AnyMarks
  <2>1. r \in Record /\ r.id \in Nat /\ r.marks \in AnyMarks
    BY RecordTypes DEF TypeOK
  <2>2. "territory.transfer.received" \in {"territory.transfer.received", "territory.transfer.ack",
                                          "territory.transfer.released"}
    OBVIOUS
  <2> QED BY <2>1, <2>2, LineTypes DEF Arrived
<1> QED
  BY <1>1, <1>2

\* An altered copy keeps everything but the signature and the marks.
LEMMA AlterType ==
  ASSUME NEW r \in Record
  PROVE  /\ [r EXCEPT !.signed = FALSE, !.marks = [c \in DOMAIN @ |-> 0]] \in Record
         /\ LET x == [r EXCEPT !.signed = FALSE, !.marks = [c \in DOMAIN @ |-> 0]]
            IN  /\ x.id = r.id /\ x.from = r.from /\ ~x.signed
                /\ DOMAIN x.marks = DOMAIN r.marks /\ x.items = r.items
<1> DEFINE x == [r EXCEPT !.signed = FALSE, !.marks = [c \in DOMAIN @ |-> 0]]
           z == [c \in DOMAIN r.marks |-> 0]
<1>1. /\ r \in [id : Nat \ {0}, from : Hubs, signed : BOOLEAN, marks : AnyMarks, items : AnyMarks]
      /\ DOMAIN r.items = DOMAIN r.marks
  BY DEF Record
<1>2. DOMAIN r.marks \in (SUBSET Ctx) \ {{}}
  BY <1>1, MarksType
<1>3. z \in [DOMAIN r.marks -> Nat]
  OBVIOUS
<1>4. z \in AnyMarks /\ DOMAIN z = DOMAIN r.marks
  BY <1>2, <1>3, MarksType
<1>5. x = [r EXCEPT !.signed = FALSE, !.marks = z]
  OBVIOUS
<1> HIDE DEF x, z
<1>6. /\ x.id = r.id /\ x.from = r.from /\ x.signed = FALSE /\ x.marks = z /\ x.items = r.items
      /\ x \in [id : Nat \ {0}, from : Hubs, signed : BOOLEAN, marks : AnyMarks, items : AnyMarks]
  BY <1>1, <1>4, <1>5
<1>7. x \in Record
  BY <1>1, <1>4, <1>6 DEF Record
<1> QED
  BY <1>4, <1>6, <1>7 DEF x

\* A run begins typed.
LEMMA TypeInit == Init => TypeOK
<1> SUFFICES ASSUME Init PROVE TypeOK
  OBVIOUS
<1>1. \A h \in Hubs : <<[kind |-> "hub.boot"]>> \in Seq(Line)
  BY LineTypes
<1>2. log \in [Hubs -> Seq(Line)]
  BY <1>1 DEF Init
<1>3. clock \in Clock
  BY DEF Init, Clock
<1>4. owner \in [Ctx -> [hub : Hubs, by : Nat]]
  BY HandoffAssumption DEF Init
<1> QED
  BY <1>2, <1>3, <1>4 DEF Init, TypeOK

\* Every action keeps the types, and only a draft begun takes a new id.
LEMMA TypeMoves ==
  ASSUME TypeOK, Next
  PROVE  /\ TypeOK'
         /\ \/ clock'.built = clock.built
            \/ clock'.built = clock.built + 1 /\ \E h \in Hubs, cs \in (SUBSET Ctx) \ {{}} : BuildRead(h, cs)
<1> DEFINE Goal == TypeOK' /\ clock'.built = clock.built
<1>a. /\ seq \in [Hubs -> [Ctx -> Nat]] /\ items \in [Hubs -> [Ctx -> Nat]]
      /\ log \in [Hubs -> Seq(Line)] /\ clock \in Clock /\ records \subseteq Record
  BY DEF TypeOK
<1>b. {MaxSends, MaxTransfers, MaxReceives, MaxFails, MaxBoots} \subseteq Nat
  BY HandoffAssumption
<1>1. ASSUME NEW h \in Hubs, NEW c \in Ctx, Persist(h, c) PROVE Goal
  <2>1. seq[h][c] + 1 \in Nat
    BY DEF TypeOK
  <2>2. log' \in [Hubs -> Seq(Line)]
    <3>1. Numbered(h, c, TRUE) \in Line
      BY CallLines
    <3> QED BY <1>1, <3>1, LogGrows DEF Persist, TypeOK
  <2>3. clock' \in Clock /\ clock'.built = clock.built
    <3>1. Tick("sends", MaxSends) /\ clock \in Clock
      BY <1>1 DEF Persist, TypeOK
    <3> QED BY <3>1, <1>b, TicksOther
  <2>4. sending' \in [Hubs -> {Idle} \cup [step : {"commit"}, ctx : Ctx, seq : Nat]]
    BY <1>1, <2>1 DEF Persist, TypeOK
  <2> QED BY <1>1, <2>2, <2>3, <2>4 DEF Persist, TypeOK, wire, ghosts
<1>2. ASSUME NEW h \in Hubs, Commit(h) PROVE Goal
  <2>1. sending[h] \in [step : {"commit"}, ctx : Ctx, seq : Nat]
    BY <1>2 DEF Commit, TypeOK
  <2>2. sending[h].ctx \in Ctx /\ sending[h].seq \in Nat
    BY <2>1
  <2>3. seq' \in [Hubs -> [Ctx -> Nat]]
    BY <1>2, <2>2 DEF Commit, TypeOK
  <2>4. PICK n \in {0, 1} : /\ items' = [items EXCEPT ![h][sending[h].ctx] = @ + n]
                            /\ held' = [held EXCEPT ![sending[h].ctx] = @ + n]
    BY <1>2 DEF Commit
  <2>5. items' \in [Hubs -> [Ctx -> Nat]]
    BY <2>2, <2>4 DEF TypeOK
  <2>6. held' \in [Ctx -> Nat]
    BY <2>2, <2>4 DEF TypeOK
  <2> QED BY <1>2, <2>3, <2>5, <2>6 DEF Commit, TypeOK, wire
<1>3. ASSUME NEW h \in Hubs, BuildDone(h) PROVE Goal
  <2>1. drafting[h] \in [step : {"build"}, id : Nat \ {0}, marks : AnyMarks]
    BY <1>3 DEF BuildDone, TypeOK
  <2>2. drafting[h].id \in Nat \ {0} /\ drafting[h].marks \in AnyMarks
    BY <2>1
  <2> DEFINE e == <<[kind |-> "sleepmark.captured"], [kind |-> "territory.transfer.sent", id |-> drafting[h].id]>>
  <2>3. PICK n \in 0 .. 2 : /\ Writes(h, e, n)
                            /\ records' = records \cup (IF n = 2 THEN {Built(h)} ELSE {})
    BY <1>3 DEF BuildDone
  <2>4. e \in Seq(Line) /\ Len(e) = 2
    BY <2>2, LineTypes
  <2> HIDE DEF e
  <2>5. log' \in [Hubs -> Seq(Line)] /\ clock' \in Clock /\ clock'.built = clock.built
    BY <2>3, <2>4, <1>a, WritesType, 0 .. 2 \subseteq Nat, n <= 2
  <2>6. Built(h) \in Record
    <3> DEFINE i == [c \in DOMAIN drafting[h].marks |-> items[h][c]]
    <3>1. DOMAIN drafting[h].marks \in (SUBSET Ctx) \ {{}}
      BY <2>2, MarksType
    <3>2. i \in [DOMAIN drafting[h].marks -> Nat]
      BY <3>1 DEF TypeOK
    <3>3. i \in AnyMarks /\ DOMAIN i = DOMAIN drafting[h].marks
      BY <3>1, <3>2, MarksType
    <3> HIDE DEF i
    <3>4. [id |-> drafting[h].id, from |-> h, signed |-> TRUE, marks |-> drafting[h].marks, items |-> i] \in Record
      BY <2>2, <3>3, RecordTypes
    <3> QED BY <3>4 DEF Built, i
  <2>7. records' \subseteq Record
    BY <2>3, <2>6 DEF TypeOK
  <2>8. drafting' \in [Hubs -> {Idle} \cup [step : {"build"}, id : Nat \ {0}, marks : AnyMarks]]
    BY <1>3 DEF BuildDone, TypeOK
  <2> QED BY <1>3, <2>5, <2>7, <2>8 DEF BuildDone, TypeOK, ghosts
<1>4. ASSUME NEW h \in Hubs, Adopt(h) PROVE Goal
  <2>1. adopting[h] \in [step : {"adopt", "ack"}, record : Record]
    BY <1>4 DEF Adopt, TypeOK, Idle
  <2> DEFINE r == adopting[h].record
  <2>2. r \in Record /\ r.id \in Nat /\ r.marks \in AnyMarks /\ r.items \in AnyMarks /\ DOMAIN r.items = DOMAIN r.marks
    BY <2>1, RecordTypes
  <2>3. DOMAIN r.marks \subseteq Ctx /\ \A c \in DOMAIN r.marks : r.marks[c] \in Nat /\ r.items[c] \in Nat
    BY <2>2, MarksType
  <2>4. <<[kind |-> "sleepmark.restored"]>> \in Seq(Line)
    BY LineTypes
  <2>5. log' \in [Hubs -> Seq(Line)] /\ clock' \in Clock /\ clock'.built = clock.built
    <3> DEFINE e == <<[kind |-> "sleepmark.restored"]>>
    <3>1. Writes(h, e, 0) \/ Writes(h, e, 1)
      BY <1>4 DEF Adopt
    <3>2. Len(e) = 1 /\ e \in Seq(Line)
      BY <2>4
    <3> HIDE DEF e
    <3>3. 0 \in Nat /\ 1 \in Nat /\ 0 <= Len(e) /\ 1 <= Len(e)
      BY <3>2
    <3>4. CASE Writes(h, e, 0)
      BY <3>2, <3>3, <3>4, <1>a, WritesType
    <3>5. CASE Writes(h, e, 1)
      BY <3>2, <3>3, <3>5, <1>a, WritesType
    <3> QED BY <3>1, <3>4, <3>5
  <2>6. adopting' \in [Hubs -> {Idle} \cup [step : {"adopt", "ack"}, record : Record]]
    <3>1. \/ adopting' = [adopting EXCEPT ![h] = Idle]
          \/ adopting' = [adopting EXCEPT ![h].step = "ack"]
      BY <1>4 DEF Adopt
    <3>2. [adopting[h] EXCEPT !.step = "ack"] \in [step : {"adopt", "ack"}, record : Record]
      BY <2>1
    <3> QED BY <3>1, <3>2 DEF TypeOK
  <2>7. seq' \in [Hubs -> [Ctx -> Nat]] /\ items' \in [Hubs -> [Ctx -> Nat]]
    <3>1. CASE UNCHANGED <<seq, items>>
      BY <3>1 DEF TypeOK
    <3>2. CASE /\ seq' = [seq EXCEPT ![h] = [c \in Ctx |-> IF c \in DOMAIN r.marks THEN Carried(r, c) ELSE @[c]]]
               /\ items' = [items EXCEPT ![h] = [c \in Ctx |-> IF c \in DOMAIN r.marks THEN @[c] + r.items[c] ELSE @[c]]]
      <4> HIDE DEF r
      <4>1. [c \in Ctx |-> IF c \in DOMAIN r.marks THEN Carried(r, c) ELSE seq[h][c]] \in [Ctx -> Nat]
        BY <2>3, <1>a DEF Carried
      <4>2. [c \in Ctx |-> IF c \in DOMAIN r.marks THEN items[h][c] + r.items[c] ELSE items[h][c]] \in [Ctx -> Nat]
        BY <2>3, <1>a
      <4> QED BY <3>2, <4>1, <4>2, <1>a
    <3> QED BY <1>4, <3>1, <3>2 DEF Adopt
  <2>8. owner' \in [Ctx -> [hub : Hubs, by : Nat]]
    <3>1. CASE UNCHANGED owner
      BY <3>1 DEF TypeOK
    <3>2. CASE owner' = [c \in Ctx |-> IF c \in DOMAIN r.marks THEN [hub |-> h, by |-> r.id] ELSE owner[c]]
      BY <3>2, <2>2 DEF TypeOK
    <3> QED BY <1>4, <3>1, <3>2 DEF Adopt
  <2> QED BY <1>4, <2>5, <2>6, <2>7, <2>8 DEF Adopt, TypeOK, wire
<1>5. ASSUME NEW h \in Hubs, AckTransfer(h) PROVE Goal
  <2>1. adopting[h] \in [step : {"adopt", "ack"}, record : Record]
    BY <1>5 DEF AckTransfer, TypeOK, Idle
  <2>2. adopting[h].record.id \in Nat /\ adopting[h].record.marks \in AnyMarks
    BY <2>1, RecordTypes
  <2> DEFINE e == <<[kind |-> "territory.transfer.ack", id |-> adopting[h].record.id,
                     marks |-> adopting[h].record.marks]>>
  <2>3. e \in Seq(Line) /\ Len(e) = 1
    BY <2>2, LineTypes
  <2>4. PICK n \in 0 .. 1 : Writes(h, e, n)
    BY <1>5 DEF AckTransfer
  <2> HIDE DEF e
  <2>5. log' \in [Hubs -> Seq(Line)] /\ clock' \in Clock /\ clock'.built = clock.built
    BY <2>3, <2>4, <1>a, WritesType, 0 .. 1 \subseteq Nat, n <= 1
  <2>6. adopting' \in [Hubs -> {Idle} \cup [step : {"adopt", "ack"}, record : Record]]
    BY <1>5 DEF AckTransfer, TypeOK
  <2> QED BY <1>5, <2>5, <2>6 DEF AckTransfer, TypeOK, ghosts
<1>6. ASSUME NEW h \in Hubs, Restart(h) PROVE Goal
  <2>1. log' \in [Hubs -> Seq(Line)]
    <3> QED BY <1>6, LineTypes, LogGrows DEF Restart, TypeOK
  <2>2. clock' \in Clock /\ clock'.built = clock.built
    <3>1. Tick("boots", MaxBoots) /\ clock \in Clock
      BY <1>6 DEF Restart, TypeOK
    <3> QED BY <3>1, <1>b, TicksOther
  <2>3. seq' \in [Hubs -> [Ctx -> Nat]] /\ items' \in [Hubs -> [Ctx -> Nat]]
    BY <1>6 DEF Restart, TypeOK
  <2> QED BY <1>6, <2>1, <2>2, <2>3 DEF Restart, TypeOK, wire, ghosts
<1>7. ASSUME NEW h \in Hubs, NEW cs \in (SUBSET Ctx) \ {{}}, BuildRead(h, cs)
      PROVE  TypeOK' /\ clock'.built = clock.built + 1
  <2>1. clock' \in Clock /\ clock'.built = clock.built + 1
    <3>1. Tick("built", MaxTransfers) /\ clock \in Clock
      BY <1>7 DEF BuildRead, TypeOK
    <3> QED BY <3>1, <1>b, Ticks
  <2>2. [c \in cs |-> seq[h][c]] \in AnyMarks
    <3>1. [c \in cs |-> seq[h][c]] \in [cs -> Nat]
      BY <1>a
    <3> QED BY <3>1, MarksType
  <2>3. clock.built + 1 \in Nat \ {0}
    BY <1>a DEF Clock
  <2>4. drafting' \in [Hubs -> {Idle} \cup [step : {"build"}, id : Nat \ {0}, marks : AnyMarks]]
    BY <1>7, <2>2, <2>3 DEF BuildRead, TypeOK
  <2> QED BY <1>7, <2>1, <2>4 DEF BuildRead, TypeOK, hubs, wire, ghosts
<1>8. ASSUME NEW r \in records, Alter(r) PROVE Goal
  <2>1. [r EXCEPT !.signed = FALSE, !.marks = [c \in DOMAIN @ |-> 0]] \in Record
    BY AlterType DEF TypeOK
  <2>2. records' \subseteq Record
    BY <1>8, <2>1 DEF Alter, TypeOK
  <2> QED BY <1>8, <2>2 DEF Alter, TypeOK, hubs, ghosts
<1>9. ASSUME NEW r \in records, Confirm(r) PROVE Goal
  <2>1. r.from \in Hubs /\ r.id \in Nat /\ r.marks \in AnyMarks
    BY RecordTypes DEF TypeOK
  <2> DEFINE e == <<[kind |-> "territory.transfer.released", id |-> r.id, marks |-> r.marks]>>
  <2>3. e \in Seq(Line) /\ Len(e) = 1
    BY <2>1, LineTypes
  <2>4. PICK n \in 0 .. 1 : Writes(r.from, e, n)
    BY <1>9 DEF Confirm
  <2> HIDE DEF e
  <2>5. log' \in [Hubs -> Seq(Line)] /\ clock' \in Clock /\ clock'.built = clock.built
    BY <2>1, <2>3, <2>4, <1>a, WritesType, 0 .. 1 \subseteq Nat, n <= 1
  <2>6. seq' \in [Hubs -> [Ctx -> Nat]]
    <3>1. [c \in Ctx |-> IF c \in DOMAIN r.marks THEN 0 ELSE seq[r.from][c]] \in [Ctx -> Nat]
      BY <2>1, <1>a
    <3> QED BY <1>9, <3>1, <2>1 DEF Confirm, TypeOK
  <2> QED BY <1>9, <2>5, <2>6 DEF Confirm, TypeOK, ghosts
<1>10. ASSUME NEW h \in Hubs, NEW r \in records, Refuse(h, r) PROVE Goal
  <2>1. PICK told \in {<<>>, <<"human.notified">>, <<"human.notify_failed">>}, raises \in BOOLEAN :
          LET kinds == told \o <<"territory.transfer.refused">>
          IN  \E n \in IF raises THEN 0 .. Len(kinds) ELSE {Len(kinds)} :
                /\ log' = [log EXCEPT ![h] = @ \o [i \in 1 .. n |-> [kind |-> kinds[i], id |-> r.id]]]
                /\ clock' = [clock EXCEPT !.received = @ + 1, !.fails = @ + (IF raises THEN 1 ELSE 0)]
    BY <1>10 DEF Refuse
  <2> DEFINE kinds == told \o <<"territory.transfer.refused">>
             told3 == {"human.notified", "human.notify_failed", "territory.transfer.refused"}
  <2>2. kinds \in Seq(told3)
    <3>1. \A x \in told3 : <<x>> \in Seq(told3)
      OBVIOUS
    <3>a. <<>> \in Seq(told3)
      OBVIOUS
    <3>b. "human.notified" \in told3 /\ "human.notify_failed" \in told3 /\ "territory.transfer.refused" \in told3
      OBVIOUS
    <3> HIDE DEF told3
    <3>2. told \in Seq(told3) /\ <<"territory.transfer.refused">> \in Seq(told3)
      BY <3>1, <3>a, <3>b
    <3> QED BY <3>2
  <2>3. PICK n \in IF raises THEN 0 .. Len(kinds) ELSE {Len(kinds)} :
          log' = [log EXCEPT ![h] = @ \o [i \in 1 .. n |-> [kind |-> kinds[i], id |-> r.id]]]
    BY <2>1
  <2> HIDE DEF kinds
  <2>4. n \in Nat /\ n <= Len(kinds)
    <3>1. Len(kinds) \in Nat
      BY <2>2
    <3>2. CASE raises
      BY <2>3, <3>1, <3>2
    <3>3. CASE ~raises
      BY <2>3, <3>1, <3>3
    <3> QED BY <3>2, <3>3
  <2>5. r.id \in Nat
    BY RecordTypes DEF TypeOK
  <2>6. \A i \in 1 .. n : kinds[i] \in told3
    BY <2>2, <2>4
  <2> HIDE DEF told3
  <2>7. \A i \in 1 .. n : [kind |-> kinds[i], id |-> r.id] \in Line
    BY <2>5, <2>6, LineTypes DEF told3
  <2>8. [i \in 1 .. n |-> [kind |-> kinds[i], id |-> r.id]] \in Seq(Line)
    BY <2>4, <2>7
  <2>9. log' \in [Hubs -> Seq(Line)]
    BY <2>3, <2>8, <1>a, LogGrows
  <2>10. clock' \in Clock /\ clock'.built = clock.built
    <3>1. clock' = [clock EXCEPT !.received = @ + 1, !.fails = @ + (IF raises THEN 1 ELSE 0)]
      BY <2>1
    <3>2. (IF raises THEN 1 ELSE 0) \in Nat
      OBVIOUS
    <3> DEFINE one == IF raises THEN 1 ELSE 0
    <3>3. clock.received + 1 \in Nat /\ clock.fails + one \in Nat
      BY <3>2, <1>a DEF Clock
    <3>4. clock' = [clock EXCEPT !.received = clock.received + 1, !.fails = clock.fails + one]
      BY <3>1, <1>a DEF Clock
    <3> HIDE DEF one
    <3>5. PICK a, b \in Nat : clock' = [clock EXCEPT !.received = a, !.fails = b]
      BY <3>3, <3>4
    <3> QED BY <3>5, <1>a DEF Clock
  <2> QED BY <1>10, <2>9, <2>10 DEF Refuse, TypeOK, wire, ghosts
<1>11. ASSUME NEW h \in Hubs, NEW r \in records, Receive(h, r) PROVE Goal
  <2>1. r \in Record /\ r.id \in Nat /\ r.marks \in AnyMarks
    BY RecordTypes DEF TypeOK
  <2>2. log' \in [Hubs -> Seq(Line)]
    <3>1. Arrived(r) \in Line
      BY CallLines
    <3> QED BY <1>11, <3>1, LogGrows DEF Receive, TypeOK
  <2>3. clock' \in Clock /\ clock'.built = clock.built
    <3>1. Tick("received", MaxReceives) /\ clock \in Clock
      BY <1>11 DEF Receive, TypeOK
    <3> QED BY <3>1, <1>b, TicksOther
  <2>4. adopting' \in [Hubs -> {Idle} \cup [step : {"adopt", "ack"}, record : Record]]
    BY <1>11, <2>1 DEF Receive, TypeOK
  <2> QED BY <1>11, <2>2, <2>3, <2>4 DEF Receive, TypeOK, wire, ghosts
<1>w. ASSUME NEW h \in Hubs, NEW e \in Line, Writes(h, <<e>>, 0)
      PROVE  log' \in [Hubs -> Seq(Line)] /\ clock' \in Clock /\ clock'.built = clock.built
  <2>1. <<e>> \in Seq(Line) /\ 0 \in Nat /\ 0 <= Len(<<e>>)
    OBVIOUS
  <2> QED BY <2>1, <1>w, <1>a, WritesType
<1>14. ASSUME NEW h \in Hubs, NEW c \in Ctx, PersistRaises(h, c) PROVE Goal
  <2>1. log' \in [Hubs -> Seq(Line)] /\ clock' \in Clock /\ clock'.built = clock.built
    BY <1>14, <1>w, CallLines DEF PersistRaises
  <2> QED BY <1>14, <2>1 DEF PersistRaises, TypeOK, wire, ghosts
<1>15. ASSUME NEW h \in Hubs, NEW r \in records, ReceiveRaises(h, r) PROVE Goal
  <2>1. log' \in [Hubs -> Seq(Line)] /\ clock' \in Clock /\ clock'.built = clock.built
    BY <1>15, <1>w, CallLines DEF ReceiveRaises
  <2> QED BY <1>15, <2>1 DEF ReceiveRaises, TypeOK, wire, ghosts
<1> HIDE DEF Goal
<1>12. CASE \E h \in Hubs, cs \in (SUBSET Ctx) \ {{}} : BuildRead(h, cs)
  BY <1>7, <1>12
<1>13. CASE ~\E h \in Hubs, cs \in (SUBSET Ctx) \ {{}} : BuildRead(h, cs)
  <2>1. Goal
    BY <1>1, <1>2, <1>3, <1>4, <1>5, <1>6, <1>8, <1>9, <1>10, <1>11, <1>13, <1>14, <1>15 DEF Next
  <2> QED BY <2>1 DEF Goal
<1> QED
  BY <1>12, <1>13

\* The types hold of every behaviour.
THEOREM TypeCorrect == Spec => []TypeOK
<1>1. TypeOK /\ [Next]_vars => TypeOK'
  <2>1. TypeOK /\ Next => TypeOK'
    BY TypeMoves
  <2>2. TypeOK /\ UNCHANGED vars => TypeOK'
    BY DEF TypeOK, vars, hubs, wire, ghosts
  <2> QED BY <2>1, <2>2
<1> QED
  BY <1>1, TypeInit, PTL DEF Spec

----------------------------------------------------------------------------
(* The logs *)

Plain == {e \in Line : e.kind \notin {"territory.transfer.ack", "territory.transfer.released"}}

\* What neither a number nor a walk over a log looks at.
Quiet == {e \in Line : e.kind \notin {"hub.boot", "envelope.persisted", "territory.transfer.received"}}

LogStep(h, s) == log' = [log EXCEPT ![h] = @ \o s]

\* A log that nothing is appended to is a log that nothing at all was put behind.
LEMMA NoLogStep ==
  ASSUME log \in [Hubs -> Seq(Line)], UNCHANGED log, NEW h \in Hubs
  PROVE  (\A S : <<>> \in Seq(S)) /\ LogStep(h, <<>>)
<1>0. ASSUME NEW S PROVE <<>> \in Seq(S)
  OBVIOUS
<1>1. ASSUME NEW S, NEW s \in Seq(S) PROVE s \o <<>> = s
  OBVIOUS
<1>2. log[h] \in Seq(Line)
  OBVIOUS
<1>3. log[h] \o <<>> = log[h]
  BY <1>1, <1>2
<1> QED
  BY <1>0, <1>3 DEF LogStep

\* One line appended.
LEMMA OneLogStep ==
  ASSUME log \in [Hubs -> Seq(Line)], NEW h \in Hubs, NEW e \in Line,
         log' = [log EXCEPT ![h] = Append(@, e)]
  PROVE  /\ <<e>> \in Seq(Line) /\ LogStep(h, <<e>>)
         /\ \A S : e \in S => <<e>> \in Seq(S)
<1>1. ASSUME NEW S, NEW s \in Seq(S), NEW x \in S PROVE s \o <<x>> = Append(s, x) /\ <<x>> \in Seq(S)
  OBVIOUS
<1>2. log[h] \in Seq(Line)
  OBVIOUS
<1>3. log[h] \o <<e>> = Append(log[h], e) /\ <<e>> \in Seq(Line)
  BY <1>1, <1>2
<1>4. ASSUME NEW S, e \in S PROVE <<e>> \in Seq(S)
  BY <1>4
<1> QED
  BY <1>3, <1>4 DEF LogStep

\* The appends of a call that gets to n of them.
LEMMA WritesLogStep ==
  ASSUME NEW h \in Hubs, NEW S, NEW entries \in Seq(S), NEW n \in 0 .. Len(entries),
         Writes(h, entries, n)
  PROVE  \E k \in {n, n + 1} \cap (0 .. Len(entries)) :
           SubSeq(entries, 1, k) \in Seq(S) /\ LogStep(h, SubSeq(entries, 1, k))
<1>1. \A k \in 0 .. Len(entries) : SubSeq(entries, 1, k) \in Seq(S)
  OBVIOUS
<1> QED
  BY <1>1 DEF Writes, LogStep

\* One append leaves its line or, if it raised, perhaps nothing.
LEMMA OneWrite ==
  ASSUME NEW h \in Hubs, NEW S, NEW es \in Seq(S), Len(es) = 1, NEW n \in 0 .. 1, Writes(h, es, n),
         log \in [Hubs -> Seq(Line)]
  PROVE  LogStep(h, es) \/ (UNCHANGED log /\ n = 0)
<1>0. PICK k \in {n, n + 1} \cap (0 .. Len(es)) : log' = [log EXCEPT ![h] = @ \o SubSeq(es, 1, k)]
  BY Zenon DEF Writes
<1>1. log' = [log EXCEPT ![h] = @ \o SubSeq(es, 1, k)] /\ (k = 1 \/ (k = 0 /\ n = 0))
  BY <1>0
<1>2. CASE k = 0 /\ n = 0
  <2>1. SubSeq(es, 1, 0) = <<>>
    OBVIOUS
  <2>2. ASSUME NEW T, NEW s \in Seq(T) PROVE s \o <<>> = s
    OBVIOUS
  <2>3. log[h] \o <<>> = log[h]
    BY <2>2
  <2> QED BY <1>1, <1>2, <2>1, <2>3
<1>3. CASE k = 1
  <2>1. ASSUME NEW T, NEW t \in Seq(T) PROVE SubSeq(t, 1, Len(t)) = t
    OBVIOUS
  <2>2. SubSeq(es, 1, 1) = es
    BY <2>1
  <2> QED BY <1>1, <1>3, <2>2 DEF LogStep
<1> QED
  BY <1>1, <1>2, <1>3

LEMMA RaisesLogStep ==
  ASSUME NEW h \in Hubs, NEW e, Writes(h, <<e>>, 0), log \in [Hubs -> Seq(Line)]
  PROVE  \/ LogStep(h, <<e>>) /\ log' = [log EXCEPT ![h] = Append(@, e)]
         \/ UNCHANGED log
<1>1. <<e>> \in Seq({e}) /\ Len(<<e>>) = 1 /\ 0 \in 0 .. 1
  OBVIOUS
<1>2. LogStep(h, <<e>>) \/ UNCHANGED log
  BY <1>1, OneWrite
<1>3. ASSUME NEW S, NEW s \in Seq(S) PROVE s \o <<e>> = Append(s, e)
  OBVIOUS
<1>4. log[h] \o <<e>> = Append(log[h], e)
  BY <1>3
<1> QED
  BY <1>2, <1>4 DEF LogStep

\* A step appends to one log at most; acks and releases come from their calls, and
\* so do the lines a walk looks at.
LEMMA LogMoves ==
  ASSUME TypeOK, Next
  PROVE  \E h \in Hubs, s \in Seq(Line) :
           /\ LogStep(h, s)
           /\ \/ s \in Seq(Plain)
              \/ \E g \in Hubs : AckTransfer(g)
              \/ \E r \in records : Confirm(r)
           /\ \/ s \in Seq(Quiet)
              \/ \E g \in Hubs, c \in Ctx : Persist(g, c) \/ PersistRaises(g, c)
              \/ \E g \in Hubs : Restart(g)
              \/ \E g \in Hubs, r \in records : Receive(g, r) \/ ReceiveRaises(g, r)
<1> DEFINE Told == \/ \E g \in Hubs, c \in Ctx : Persist(g, c) \/ PersistRaises(g, c)
                   \/ \E g \in Hubs : Restart(g)
                   \/ \E g \in Hubs, r \in records : Receive(g, r) \/ ReceiveRaises(g, r)
           Goal == \E h \in Hubs, s \in Seq(Line) :
                     /\ LogStep(h, s)
                     /\ \/ s \in Seq(Plain)
                        \/ \E g \in Hubs : AckTransfer(g)
                        \/ \E r \in records : Confirm(r)
                     /\ s \in Seq(Quiet) \/ Told
           Still == Plain \cap Quiet
<1>a. log \in [Hubs -> Seq(Line)] /\ seq \in [Hubs -> [Ctx -> Nat]] /\ records \subseteq Record
  BY DEF TypeOK
<1>b. /\ Seq(Plain) \subseteq Seq(Line) /\ Seq(Quiet) \subseteq Seq(Line)
      /\ Seq(Still) \subseteq Seq(Plain) /\ Seq(Still) \subseteq Seq(Quiet)
  <2>1. ASSUME NEW S, NEW T \in SUBSET S PROVE Seq(T) \subseteq Seq(S)
    OBVIOUS
  <2>2. Plain \in SUBSET Line /\ Quiet \in SUBSET Line
    BY DEF Plain, Quiet
  <2>3. Still \in SUBSET Plain /\ Still \in SUBSET Quiet
    OBVIOUS
  <2> HIDE DEF Still
  <2> QED BY <2>1, <2>2, <2>3
<1>c. \A h \in Hubs, s \in Seq(Plain) : LogStep(h, s) /\ Told => Goal
  BY <1>b
<1>d. \A h \in Hubs, s \in Seq(Still) : LogStep(h, s) => Goal
  BY <1>b
<1> HIDE DEF Goal, Still, Told
<1>1. ASSUME NEW h \in Hubs, NEW c \in Ctx, Persist(h, c) PROVE Goal
  <2> DEFINE e == Numbered(h, c, TRUE)
  <2>2. e \in Line
    BY CallLines
  <2>3. e \in Plain
    BY <2>2 DEF Plain, Numbered
  <2>4. log' = [log EXCEPT ![h] = Append(@, e)]
    BY <1>1 DEF Persist
  <2>5. Told
    BY <1>1 DEF Told
  <2> HIDE DEF e
  <2> QED BY <2>2, <2>3, <2>4, <2>5, <1>a, <1>c, OneLogStep
<1>2. ASSUME NEW h \in Hubs, UNCHANGED log PROVE Goal
  BY <1>2, <1>a, <1>d, NoLogStep
<1>w. ASSUME NEW h \in Hubs, NEW e \in Line, e \in Plain, Writes(h, <<e>>, 0), Told PROVE Goal
  <2>1. \/ log' = [log EXCEPT ![h] = Append(@, e)]
        \/ UNCHANGED log
    BY <1>w, <1>a, RaisesLogStep
  <2> QED BY <2>1, <1>w, <1>a, <1>c, <1>2, OneLogStep
<1>7. ASSUME NEW h \in Hubs, NEW c \in Ctx, PersistRaises(h, c) PROVE Goal
  <2>1. Numbered(h, c, FALSE) \in Line
    BY CallLines
  <2>2. Numbered(h, c, FALSE) \in Plain
    BY <2>1 DEF Plain, Numbered
  <2>3. Writes(h, <<Numbered(h, c, FALSE)>>, 0) /\ Told
    BY <1>7 DEF PersistRaises, Told
  <2> QED BY <2>1, <2>2, <2>3, <1>w
<1>8. ASSUME NEW h \in Hubs, NEW r \in records, ReceiveRaises(h, r) PROVE Goal
  <2>1. Arrived(r) \in Line
    BY CallLines
  <2>2. Arrived(r) \in Plain
    BY <2>1 DEF Plain, Arrived
  <2>3. Writes(h, <<Arrived(r)>>, 0) /\ Told
    BY <1>8 DEF ReceiveRaises, Told
  <2> QED BY <2>1, <2>2, <2>3, <1>w
<1>3. ASSUME NEW h \in Hubs, BuildDone(h) PROVE Goal
  <2>1. drafting[h] \in [step : {"build"}, id : Nat \ {0}, marks : AnyMarks]
    BY <1>3 DEF BuildDone, TypeOK
  <2>2. drafting[h].id \in Nat
    BY <2>1
  <2> DEFINE e == <<[kind |-> "sleepmark.captured"], [kind |-> "territory.transfer.sent", id |-> drafting[h].id]>>
  <2>3. PICK n \in 0 .. 2 : Writes(h, e, n)
    BY <1>3 DEF BuildDone
  <2>4. /\ [kind |-> "sleepmark.captured"] \in Still
        /\ [kind |-> "territory.transfer.sent", id |-> drafting[h].id] \in Still
    BY <2>2 DEF Still, Plain, Quiet, Line
  <2>5. e \in Seq(Still) /\ Len(e) = 2
    BY <2>4, PairSeq
  <2> HIDE DEF e
  <2> QED BY <2>3, <2>5, <1>d, WritesLogStep
<1>4. ASSUME NEW h \in Hubs, Adopt(h) PROVE Goal
  <2> DEFINE e == <<[kind |-> "sleepmark.restored"]>>
  <2>1. Writes(h, e, 0) \/ Writes(h, e, 1)
    BY <1>4 DEF Adopt
  <2>2. [kind |-> "sleepmark.restored"] \in Still
    BY DEF Still, Plain, Quiet, Line
  <2>3. e \in Seq(Still) /\ Len(e) = 1
    BY <2>2
  <2> HIDE DEF e
  <2>4. 0 \in 0 .. Len(e) /\ 1 \in 0 .. Len(e)
    BY <2>3
  <2>5. CASE Writes(h, e, 0)
    BY <2>3, <2>4, <2>5, <1>d, WritesLogStep
  <2>6. CASE Writes(h, e, 1)
    BY <2>3, <2>4, <2>6, <1>d, WritesLogStep
  <2> QED BY <2>1, <2>5, <2>6
<1>5. ASSUME NEW h \in Hubs, AckTransfer(h) PROVE Goal
  <2>1. adopting[h] \in [step : {"adopt", "ack"}, record : Record]
    BY <1>5 DEF AckTransfer, TypeOK, Idle
  <2>2. adopting[h].record.id \in Nat /\ adopting[h].record.marks \in AnyMarks
    BY <2>1, RecordTypes
  <2> DEFINE e == <<[kind |-> "territory.transfer.ack", id |-> adopting[h].record.id,
                     marks |-> adopting[h].record.marks]>>
  <2>3. e \in Seq(Line) /\ e \in Seq(Quiet) /\ Len(e) = 1
    <3>1. [kind |-> "territory.transfer.ack", id |-> adopting[h].record.id,
           marks |-> adopting[h].record.marks] \in Quiet
      BY <2>2, LineTypes DEF Quiet
    <3> QED BY <2>2, <3>1, LineTypes
  <2>4. PICK n \in 0 .. 1 : Writes(h, e, n)
    BY <1>5 DEF AckTransfer
  <2> HIDE DEF e
  <2>5. PICK s \in Seq(Quiet) : LogStep(h, s)
    BY <2>3, <2>4, WritesLogStep
  <2>6. s \in Seq(Line)
    BY <1>b
  <2> QED BY <2>5, <2>6, <1>5 DEF Goal
<1>6. ASSUME NEW h \in Hubs, Restart(h) PROVE Goal
  <2> DEFINE e == [kind |-> "hub.boot"]
  <2>1. e \in Line /\ e \in Plain
    BY DEF Plain, Line
  <2>2. log' = [log EXCEPT ![h] = Append(@, e)]
    BY <1>6 DEF Restart
  <2>3. Told
    BY <1>6 DEF Told
  <2> HIDE DEF e
  <2> QED BY <2>1, <2>2, <2>3, <1>a, <1>c, OneLogStep
<1>9. ASSUME NEW r \in records, Confirm(r) PROVE Goal
  <2>1. r.from \in Hubs /\ r.id \in Nat /\ r.marks \in AnyMarks
    BY RecordTypes, <1>a
  <2> DEFINE e == <<[kind |-> "territory.transfer.released", id |-> r.id, marks |-> r.marks]>>
  <2>3. e \in Seq(Line) /\ e \in Seq(Quiet) /\ Len(e) = 1
    <3>1. [kind |-> "territory.transfer.released", id |-> r.id, marks |-> r.marks] \in Quiet
      BY <2>1, LineTypes DEF Quiet
    <3> QED BY <2>1, <3>1, LineTypes
  <2>4. PICK n \in 0 .. 1 : Writes(r.from, e, n)
    BY <1>9 DEF Confirm
  <2> HIDE DEF e
  <2>5. PICK s \in Seq(Quiet) : LogStep(r.from, s)
    <3>1. ASSUME NEW h \in Hubs, NEW k \in 0 .. Len(e), Writes(h, e, k)
          PROVE  \E s \in Seq(Quiet) : LogStep(h, s)
      BY <2>3, <3>1, WritesLogStep
    <3> QED BY <2>1, <2>3, <2>4, <3>1
  <2>6. s \in Seq(Line)
    BY <1>b
  <2> QED BY <2>1, <2>5, <2>6, <1>9 DEF Goal
<1>10. ASSUME NEW h \in Hubs, NEW r \in records, Refuse(h, r) PROVE Goal
  <2> DEFINE told3 == {"human.notified", "human.notify_failed", "territory.transfer.refused"}
  <2>1. PICK told \in {<<>>, <<"human.notified">>, <<"human.notify_failed">>}, raises \in BOOLEAN :
          LET kinds == told \o <<"territory.transfer.refused">>
          IN  \E n \in IF raises THEN 0 .. Len(kinds) ELSE {Len(kinds)} :
                log' = [log EXCEPT ![h] = @ \o [i \in 1 .. n |-> [kind |-> kinds[i], id |-> r.id]]]
    BY <1>10 DEF Refuse
  <2> DEFINE kinds == told \o <<"territory.transfer.refused">>
  <2>2. kinds \in Seq(told3)
    <3>1. \A x \in told3 : <<x>> \in Seq(told3)
      OBVIOUS
    <3>2. <<>> \in Seq(told3)
      OBVIOUS
    <3>3. "human.notified" \in told3 /\ "human.notify_failed" \in told3 /\ "territory.transfer.refused" \in told3
      OBVIOUS
    <3> HIDE DEF told3
    <3>4. told \in Seq(told3) /\ <<"territory.transfer.refused">> \in Seq(told3)
      BY <3>1, <3>2, <3>3
    <3> QED BY <3>4
  <2>3. PICK n \in IF raises THEN 0 .. Len(kinds) ELSE {Len(kinds)} :
          log' = [log EXCEPT ![h] = @ \o [i \in 1 .. n |-> [kind |-> kinds[i], id |-> r.id]]]
    BY <2>1
  <2> HIDE DEF kinds
  <2>4. n \in Nat /\ n <= Len(kinds)
    <3>1. Len(kinds) \in Nat
      BY <2>2
    <3>2. CASE raises
      BY <2>3, <3>1, <3>2
    <3>3. CASE ~raises
      BY <2>3, <3>1, <3>3
    <3> QED BY <3>2, <3>3
  <2>5. r.id \in Nat
    BY RecordTypes, <1>a
  <2>6. \A i \in 1 .. n : kinds[i] \in told3
    BY <2>2, <2>4
  <2> HIDE DEF told3
  <2>7. \A i \in 1 .. n : [kind |-> kinds[i], id |-> r.id] \in Still
    BY <2>5, <2>6 DEF told3, Still, Plain, Quiet, Line
  <2> DEFINE s == [i \in 1 .. n |-> [kind |-> kinds[i], id |-> r.id]]
  <2>8. s \in Seq(Still)
    BY <2>4, <2>7
  <2>9. LogStep(h, s)
    BY <2>3 DEF LogStep
  <2> QED BY <2>8, <2>9, <1>d
<1>11. ASSUME NEW h \in Hubs, NEW r \in records, Receive(h, r) PROVE Goal
  <2> DEFINE e == Arrived(r)
  <2>2. e \in Line
    BY CallLines
  <2>3. e \in Plain
    BY <2>2 DEF Plain, Arrived
  <2>4. log' = [log EXCEPT ![h] = Append(@, e)]
    BY <1>11 DEF Receive
  <2>5. Told
    BY <1>11 DEF Told
  <2> HIDE DEF e
  <2> QED BY <2>2, <2>3, <2>4, <2>5, <1>a, <1>c, OneLogStep
<1>12. ASSUME NEW h \in Hubs, Commit(h) PROVE Goal
  BY <1>2, <1>12 DEF Commit
<1>13. ASSUME NEW h \in Hubs, NEW cs \in (SUBSET Ctx) \ {{}}, BuildRead(h, cs) PROVE Goal
  BY <1>2, <1>13 DEF BuildRead, hubs
<1>14. ASSUME NEW r \in records, Alter(r) PROVE Goal
  <2>1. r.from \in Hubs
    BY RecordTypes, <1>a
  <2> QED BY <1>2, <1>14, <2>1 DEF Alter, hubs
<1>15. Goal
  BY <1>1, <1>3, <1>4, <1>5, <1>6, <1>7, <1>8, <1>9, <1>10, <1>11, <1>12, <1>13, <1>14 DEF Next
<1> QED
  BY <1>15 DEF Goal, Told

\* What a log says stays where it is.
LEMMA LogStays ==
  ASSUME TypeOK, Next, NEW h \in Hubs, NEW i \in DOMAIN log[h]
  PROVE  i \in DOMAIN log'[h] /\ log'[h][i] = log[h][i]
<1>1. log \in [Hubs -> Seq(Line)]
  BY DEF TypeOK
<1>2. PICK g \in Hubs, s \in Seq(Line) : LogStep(g, s)
  BY LogMoves
<1>3. ASSUME NEW S, NEW a \in Seq(S), NEW b \in Seq(S), NEW j \in DOMAIN a
      PROVE  j \in DOMAIN (a \o b) /\ (a \o b)[j] = a[j]
  OBVIOUS
<1>4. CASE g = h
  <2>1. log'[h] = log[h] \o s
    BY <1>1, <1>2, <1>4 DEF LogStep
  <2>2. log[h] \in Seq(Line)
    BY <1>1
  <2> QED BY <2>1, <2>2, <1>3
<1>5. CASE g # h
  BY <1>1, <1>2, <1>5 DEF LogStep
<1> QED
  BY <1>4, <1>5

----------------------------------------------------------------------------
(* What an adoption rests on *)

Received(h, r) ==
  \E i \in DOMAIN log[h] : log[h][i] = [kind |-> "territory.transfer.received", id |-> r.id,
                                        marks |-> r.marks]

Sound(h, r) == r \in records /\ r.signed /\ r.from # h /\ Received(h, r)

ReceivedInv ==
  \A h \in Hubs : adopting[h] # Idle => \E r \in records : adopting[h].record = r /\ Sound(h, r)

\* A record on the log as received is so for good.
LEMMA ReceivedStays ==
  ASSUME TypeOK, Next
  PROVE  \A h \in Hubs, r \in Record : Received(h, r) => Received(h, r)'
<1> SUFFICES ASSUME NEW h \in Hubs, NEW r \in Record, Received(h, r) PROVE Received(h, r)'
  OBVIOUS
<1>1. PICK i \in DOMAIN log[h] : log[h][i] = [kind |-> "territory.transfer.received", id |-> r.id,
                                              marks |-> r.marks]
  BY DEF Received
<1>2. i \in DOMAIN log'[h] /\ log'[h][i] = log[h][i]
  BY LogStays
<1> QED
  BY <1>1, <1>2 DEF Received

\* What a hub adopts is a signed record of another hub, on its log as received.
LEMMA ReceivedMoves ==
  ASSUME TypeOK, ReceivedInv, Next
  PROVE  ReceivedInv'
<1>a. records \subseteq records' /\ records \subseteq Record
  BY DEF Next, Persist, PersistRaises, Commit, BuildDone, Adopt, AckTransfer, Restart, BuildRead,
         Alter, Confirm, Refuse, Receive, ReceiveRaises, wire, TypeOK
<1>1. ASSUME NEW h \in Hubs, adopting'[h] # Idle,
             adopting[h] # Idle, adopting'[h].record = adopting[h].record
      PROVE  \E r \in records' : adopting'[h].record = r /\ Sound(h, r)'
  <2>1. PICK r \in records : adopting[h].record = r /\ Sound(h, r)
    BY <1>1 DEF ReceivedInv
  <2>2. Received(h, r)'
    BY <2>1, <1>a, ReceivedStays DEF Sound
  <2> QED BY <1>1, <2>1, <2>2, <1>a DEF Sound
<1>b. ASSUME \A h \in Hubs : adopting'[h] # Idle =>
                 \E r \in records' : adopting'[h].record = r /\ Sound(h, r)'
      PROVE  ReceivedInv'
  BY <1>b DEF ReceivedInv
<1>2. ASSUME UNCHANGED adopting PROVE ReceivedInv'
  BY <1>b, <1>1, <1>2
<1>3. ASSUME NEW g \in Hubs, adopting' = [adopting EXCEPT ![g] = Idle] PROVE ReceivedInv'
  <2>1. ASSUME NEW h \in Hubs, adopting'[h] # Idle PROVE adopting[h] # Idle /\ adopting'[h] = adopting[h]
    BY <1>3, <2>1 DEF TypeOK
  <2> QED BY <1>b, <1>1, <2>1
<1>4. ASSUME NEW g \in Hubs, Adopt(g) PROVE ReceivedInv'
  <2>1. \/ adopting' = [adopting EXCEPT ![g] = Idle]
        \/ adopting' = [adopting EXCEPT ![g].step = "ack"]
    BY <1>4 DEF Adopt
  <2>2. ASSUME adopting' = [adopting EXCEPT ![g].step = "ack"], NEW h \in Hubs, adopting'[h] # Idle
        PROVE  adopting[h] # Idle /\ adopting'[h].record = adopting[h].record
    <3>1. adopting[g] # Idle /\ adopting[g] \in [step : {"adopt", "ack"}, record : Record]
      BY <1>4 DEF Adopt, TypeOK, Idle
    <3> QED BY <2>2, <3>1 DEF TypeOK
  <2> QED BY <1>b, <1>1, <1>3, <2>1, <2>2
<1>5. ASSUME NEW g \in Hubs, NEW x \in records, x.from # g, Receive(g, x) PROVE ReceivedInv'
  <2>1. /\ adopting' = [adopting EXCEPT ![g] = [step |-> "adopt", record |-> x]]
        /\ log' = [log EXCEPT ![g] = Append(@, [kind |-> "territory.transfer.received",
                                                id |-> x.id, marks |-> x.marks])]
        /\ x.signed
    BY <1>5 DEF Receive, Arrived
  <2>2. Received(g, x)'
    <3> DEFINE e == [kind |-> "territory.transfer.received", id |-> x.id, marks |-> x.marks]
    <3>1. ASSUME NEW S, NEW s \in Seq(S), NEW y
          PROVE  Len(s) + 1 \in DOMAIN Append(s, y) /\ Append(s, y)[Len(s) + 1] = y
      OBVIOUS
    <3>2. log'[g] = Append(log[g], e) /\ log[g] \in Seq(Line)
      BY <2>1 DEF TypeOK
    <3> HIDE DEF e
    <3>3. Len(log[g]) + 1 \in DOMAIN log'[g] /\ log'[g][Len(log[g]) + 1] = e
      BY <3>1, <3>2
    <3> QED BY <3>3 DEF Received, e
  <2>3. ASSUME NEW h \in Hubs, h # g, adopting'[h] # Idle
        PROVE  adopting[h] # Idle /\ adopting'[h].record = adopting[h].record
    BY <2>1, <2>3 DEF TypeOK
  <2>4. adopting'[g].record = x
    BY <2>1 DEF TypeOK
  <2>5. Sound(g, x)'
    BY <1>5, <1>a, <2>1, <2>2 DEF Sound
  <2> QED BY <1>b, <1>1, <1>a, <2>3, <2>4, <2>5
<1> QED
  BY <1>2, <1>3, <1>4, <1>5 DEF Next, Persist, PersistRaises, Commit, BuildDone, AckTransfer, Restart,
     BuildRead, Alter, Confirm, Refuse, ReceiveRaises

\* "Contexts are never adopted on trust" (territory.py:20-22, 79).
THEOREM AdoptedCorrect == Spec => AdoptedOnRecord
<1> DEFINE Inv == TypeOK /\ ReceivedInv
           Step == \A h \in Hubs, c \in Ctx : owner'[c].hub = h /\ owner[c].hub # h => OnRecord(h, c)
<1>1. Init => Inv
  <2>1. Init => ReceivedInv
    BY DEF Init, ReceivedInv
  <2> QED BY <2>1, TypeInit
<1>2. Inv /\ [Next]_vars => Inv'
  <2>1. Inv /\ Next => Inv'
    BY TypeMoves, ReceivedMoves
  <2>2. Inv /\ UNCHANGED vars => Inv'
    BY DEF TypeOK, ReceivedInv, Sound, Received, vars, hubs, wire, ghosts
  <2> QED BY <2>1, <2>2
<1>3. Inv /\ [Next]_vars => [Step]_vars
  <2> SUFFICES ASSUME Inv, Next, NEW h \in Hubs, NEW c \in Ctx, owner'[c].hub = h, owner[c].hub # h
               PROVE  OnRecord(h, c)
    OBVIOUS
  <2>1. PICK g \in Hubs : Adopt(g) /\ owner' # owner
    BY DEF Next, Persist, PersistRaises, Commit, BuildDone, AckTransfer, Restart, BuildRead, Alter,
           Confirm, Refuse, Receive, ReceiveRaises, ghosts
  <2> DEFINE r == adopting[g].record
  <2>2. r \in records /\ r.signed /\ Received(g, r) /\ r \in Record
    BY <2>1 DEF ReceivedInv, Sound, Adopt, TypeOK
  <2>3. /\ seq' = [seq EXCEPT ![g] = [k \in Ctx |-> IF k \in DOMAIN r.marks THEN Carried(r, k) ELSE @[k]]]
        /\ owner' = [k \in Ctx |-> IF k \in DOMAIN r.marks THEN [hub |-> g, by |-> r.id] ELSE owner[k]]
    BY <2>1 DEF Adopt
  <2> HIDE DEF r
  <2>4. c \in DOMAIN r.marks /\ g = h
    BY <2>3
  <2>5. seq'[h][c] = r.marks[c]
    BY <2>3, <2>4 DEF TypeOK, Carried
  <2>6. PICK i \in DOMAIN log[h] : log[h][i] = [kind |-> "territory.transfer.received", id |-> r.id,
                                                marks |-> r.marks]
    BY <2>2, <2>4 DEF Received
  <2>7. i \in Entries(h, {"territory.transfer.received"}) /\ r.id = log[h][i].id /\ r.marks = log[h][i].marks
    BY <2>6 DEF Entries
  <2> QED BY <2>2, <2>4, <2>5, <2>7 DEF OnRecord
<1> HIDE DEF Inv, Step
<1>4. Spec => [][Step]_vars
  BY <1>1, <1>2, <1>3, PTL DEF Spec
<1> QED
  BY <1>4 DEF Step, AdoptedOnRecord

----------------------------------------------------------------------------
(* Ids name handoffs *)

IdInv ==
  /\ \A r \in records : r.id <= clock.built
  /\ \A r, x \in records : r.id = x.id => r.from = x.from /\ r.items = x.items
  /\ \A h \in Hubs : drafting[h] # Idle =>
       /\ drafting[h].id <= clock.built
       /\ \A r \in records : r.id # drafting[h].id
       /\ \A g \in Hubs : drafting[g] # Idle /\ drafting[g].id = drafting[h].id => g = h

\* A draft has an id of its own, and so have the records, but for their altered copies.
LEMMA IdMoves ==
  ASSUME TypeOK, IdInv, Next
  PROVE  IdInv'
<1>a. /\ records \subseteq Record /\ clock.built \in Nat
      /\ drafting \in [Hubs -> {Idle} \cup [step : {"build"}, id : Nat \ {0}, marks : AnyMarks]]
      /\ \A r \in records : r.id \in Nat
  BY RecordTypes DEF TypeOK, Clock
<1>1. ASSUME NEW h \in Hubs, NEW cs \in (SUBSET Ctx) \ {{}}, BuildRead(h, cs) PROVE IdInv'
  <2> DEFINE d == [step |-> "build", id |-> clock.built + 1, marks |-> [c \in cs |-> seq[h][c]]]
  <2>1. clock'.built = clock.built + 1
    <3>1. MaxTransfers \in Nat /\ Tick("built", MaxTransfers) /\ clock \in Clock
      BY <1>1, HandoffAssumption DEF BuildRead, TypeOK
    <3> QED BY <3>1, Ticks
  <2>2. drafting' = [drafting EXCEPT ![h] = d] /\ records' = records /\ drafting[h] = Idle
    BY <1>1 DEF BuildRead, wire
  <2>3. d.id = clock.built + 1 /\ d # Idle
    BY DEF Idle
  <2> HIDE DEF d
  <2>4. drafting'[h] = d /\ \A g \in Hubs : g # h => drafting'[g] = drafting[g]
    BY <2>2, <1>a
  <2>5. \A g \in Hubs : drafting[g] # Idle => drafting[g].id \in Nat /\ drafting[g].id <= clock.built
    BY <1>a DEF IdInv
  <2>6. \A r \in records : r.id <= clock.built
    BY DEF IdInv
  <2>7. \A g \in Hubs : drafting'[g] # Idle =>
          /\ drafting'[g].id <= clock'.built
          /\ \A r \in records : r.id # drafting'[g].id
    BY <1>a, <2>1, <2>3, <2>4, <2>5, <2>6 DEF IdInv
  <2>8. \A f, g \in Hubs : drafting'[f] # Idle /\ drafting'[g] # Idle /\ drafting'[g].id = drafting'[f].id => g = f
    BY <1>a, <2>3, <2>4, <2>5 DEF IdInv
  <2>9. \A r \in records' : r.id <= clock'.built
    BY <1>a, <2>1, <2>2, <2>6
  <2>10. \A r, x \in records' : r.id = x.id => r.from = x.from /\ r.items = x.items
    BY <2>2 DEF IdInv
  <2> QED BY <2>2, <2>7, <2>8, <2>9, <2>10 DEF IdInv
<1>2. ASSUME clock'.built = clock.built, records' = records,
             \A h \in Hubs : drafting'[h] # Idle => drafting'[h] = drafting[h]
      PROVE  IdInv'
  BY <1>2 DEF IdInv
<1>3. ASSUME ~\E h \in Hubs, cs \in (SUBSET Ctx) \ {{}} : BuildRead(h, cs)
      PROVE  clock'.built = clock.built
  BY <1>3, TypeMoves
<1>4. ASSUME NEW h \in Hubs, BuildDone(h), clock'.built = clock.built PROVE IdInv'
  <2>1. drafting' = [drafting EXCEPT ![h] = Idle] /\ drafting[h] # Idle
    BY <1>4 DEF BuildDone
  <2>2. \A g \in Hubs : drafting'[g] # Idle => g # h /\ drafting[g] # Idle /\ drafting'[g] = drafting[g]
    BY <2>1, <1>a
  <2> DEFINE b == Built(h)
  <2>3. b.id = drafting[h].id
    BY DEF Built
  <2>4. records' = records \/ records' = records \cup {b}
    BY <1>4 DEF BuildDone
  <2> HIDE DEF b
  <2>5. /\ drafting[h].id <= clock.built
        /\ \A r \in records : r.id # drafting[h].id
        /\ \A g \in Hubs : drafting[g] # Idle /\ drafting[g].id = drafting[h].id => g = h
    BY <2>1 DEF IdInv
  <2>6. \A r \in records' : r.id <= clock'.built
    BY <1>4, <2>3, <2>4, <2>5 DEF IdInv
  <2>7. \A r, x \in records' : r.id = x.id => r.from = x.from /\ r.items = x.items
    BY <2>3, <2>4, <2>5 DEF IdInv
  <2>8. ASSUME NEW g \in Hubs, drafting'[g] # Idle
        PROVE  /\ drafting'[g].id <= clock'.built
               /\ \A r \in records' : r.id # drafting'[g].id
               /\ \A f \in Hubs : drafting'[f] # Idle /\ drafting'[f].id = drafting'[g].id => f = g
    <3>1. g # h /\ drafting[g] # Idle /\ drafting'[g] = drafting[g]
      BY <2>2, <2>8
    <3>2. drafting[g].id # drafting[h].id
      BY <2>5, <3>1
    <3> QED BY <1>4, <2>2, <2>3, <2>4, <3>1, <3>2 DEF IdInv
  <2> QED BY <2>6, <2>7, <2>8 DEF IdInv
<1>5. ASSUME NEW r \in records, Alter(r), clock'.built = clock.built PROVE IdInv'
  <2> DEFINE x == [r EXCEPT !.signed = FALSE, !.marks = [c \in DOMAIN @ |-> 0]]
  <2>1. x.id = r.id /\ x.from = r.from /\ x.items = r.items
    BY <1>a, AlterType
  <2>2. records' = records \cup {x} /\ drafting' = drafting
    BY <1>5 DEF Alter
  <2> HIDE DEF x
  <2>3. \A y \in records' : \E z \in records : y.id = z.id /\ y.from = z.from /\ y.items = z.items
    BY <2>1, <2>2
  <2>4. \A y \in records' : y.id <= clock'.built
    BY <1>5, <2>3 DEF IdInv
  <2>5. \A y, w \in records' : y.id = w.id => y.from = w.from /\ y.items = w.items
    BY <2>3 DEF IdInv
  <2>6. \A h \in Hubs : drafting[h] # Idle => \A y \in records' : y.id # drafting[h].id
    BY <2>3 DEF IdInv
  <2> QED BY <1>5, <2>2, <2>4, <2>5, <2>6 DEF IdInv
<1>6. ASSUME NEW h \in Hubs, Restart(h), clock'.built = clock.built PROVE IdInv'
  <2>1. drafting' = [drafting EXCEPT ![h] = Idle] /\ records' = records
    BY <1>6 DEF Restart, wire
  <2>2. \A g \in Hubs : drafting'[g] # Idle => drafting'[g] = drafting[g]
    BY <2>1, <1>a
  <2> QED BY <1>2, <1>6, <2>1, <2>2
<1>7. CASE \E h \in Hubs, cs \in (SUBSET Ctx) \ {{}} : BuildRead(h, cs)
  BY <1>1, <1>7
<1>8. CASE ~\E h \in Hubs, cs \in (SUBSET Ctx) \ {{}} : BuildRead(h, cs)
  <2>1. clock'.built = clock.built
    BY <1>3, <1>8
  <2>2. CASE UNCHANGED <<records, drafting>>
    BY <1>2, <2>1, <2>2
  <2>3. CASE ~UNCHANGED <<records, drafting>>
    <3>1. \/ \E h \in Hubs : BuildDone(h) \/ Restart(h)
          \/ \E r \in records : Alter(r)
      BY <1>8, <2>3 DEF Next, Persist, PersistRaises, ReceiveRaises,
         Commit, Adopt, AckTransfer, Confirm, Refuse, Receive, wire
    <3> QED BY <1>4, <1>5, <1>6, <2>1, <3>1
  <2> QED BY <2>2, <2>3
<1> QED
  BY <1>7, <1>8

----------------------------------------------------------------------------
(* Handoffs that were overtaken *)

\* The contexts of a record or a draft.
Marked(x) == DOMAIN x.marks

ApartInv ==
  /\ \A h \in Hubs : adopting[h] # Idle =>
       (adopting[h].step = "adopt" <=> adopting[h].record.id \notin spent)
  /\ \A h, g \in Hubs :
       /\ adopting[h] # Idle /\ adopting[h].step = "adopt"
       /\ adopting[g] # Idle /\ adopting[g].step = "adopt"
       => h = g \/ Marked(adopting[h].record) \cap Marked(adopting[g].record) = {}

\* The record of one id, whatever was altered, has one set of contexts.
LEMMA OneMarked ==
  ASSUME TypeOK, IdInv
  PROVE  \A r, x \in records : r.id = x.id => Marked(r) = Marked(x)
  BY RecordTypes DEF TypeOK, IdInv, Marked

\* What an adoption spends: its own id, and every id begun that names one of its contexts.
LEMMA Spends ==
  ASSUME TypeOK, IdInv, ReceivedInv, NEW h \in Hubs, adopting[h] # Idle
  PROVE  LET r == adopting[h].record
         IN  /\ r.id \in Begun(Marked(r))
             /\ \A x \in records : Marked(x) \cap Marked(r) # {} <=> x.id \in Begun(Marked(r))
             /\ \A g \in Hubs : drafting[g] # Idle /\ Marked(drafting[g]) \cap Marked(r) # {} =>
                  drafting[g].id \in Begun(Marked(r))
<1> DEFINE r == adopting[h].record
<1>1. r \in records /\ r \in Record
  BY DEF ReceivedInv, TypeOK
<1>2. Marked(r) # {}
  BY <1>1, RecordTypes, MarksType DEF Marked
<1> HIDE DEF r
<1>3. \A x \in records : Marked(x) \cap Marked(r) # {} => x.id \in Begun(Marked(r))
  BY DEF Begun, Marked
<1>4. ASSUME NEW x \in records, x.id \in Begun(Marked(r)) PROVE Marked(x) \cap Marked(r) # {}
  <2>1. CASE \E y \in records : y.id = x.id /\ Marked(y) \cap Marked(r) # {}
    BY <2>1, OneMarked
  <2>2. CASE \E g \in Hubs : drafting[g] # Idle /\ drafting[g].id = x.id
    BY <2>2 DEF IdInv
  <2> QED BY <1>4, <2>1, <2>2 DEF Begun, Marked
<1>5. \A g \in Hubs : drafting[g] # Idle /\ Marked(drafting[g]) \cap Marked(r) # {} =>
        drafting[g].id \in Begun(Marked(r))
  BY DEF Begun, Marked
<1>6. r.id \in Begun(Marked(r))
  BY <1>1, <1>2, <1>3
<1> QED
  BY <1>3, <1>4, <1>5, <1>6 DEF r

\* A record that is being adopted has not been overtaken, and no other of its
\* contexts is on its way; one that was adopted is spent.
LEMMA ApartMoves ==
  ASSUME TypeOK, IdInv, ReceivedInv, ApartInv, "present" \in Careful, Next
  PROVE  ApartInv'
<1>a. adopting \in [Hubs -> {Idle} \cup [step : {"adopt", "ack"}, record : Record]]
  BY DEF TypeOK
<1>1. ASSUME spent' = spent, \A h \in Hubs : adopting'[h] # Idle => adopting'[h] = adopting[h]
      PROVE  ApartInv'
  BY <1>1 DEF ApartInv, Marked
<1>2. ASSUME NEW h \in Hubs, spent' = spent, adopting' = [adopting EXCEPT ![h] = Idle] PROVE ApartInv'
  <2>1. \A g \in Hubs : adopting'[g] # Idle => adopting'[g] = adopting[g]
    BY <1>2, <1>a
  <2> QED BY <1>1, <1>2, <2>1
<1>3. ASSUME NEW h \in Hubs, NEW r \in records, Receive(h, r) PROVE ApartInv'
  <2> DEFINE a == [step |-> "adopt", record |-> r]
  <2>1. adopting' = [adopting EXCEPT ![h] = a] /\ spent' = spent /\ MayPresent(r)
    BY <1>3 DEF Receive, ghosts
  <2>2. a.step = "adopt" /\ a.record = r /\ a # Idle
    BY DEF Idle
  <2> HIDE DEF a
  <2>3. adopting'[h] = a /\ \A g \in Hubs : g # h => adopting'[g] = adopting[g]
    BY <2>1, <1>a
  <2>4. /\ r.id \notin spent
        /\ \A g \in Hubs : adopting[g] # Idle /\ adopting[g].step = "adopt" =>
             Marked(adopting[g].record) \cap Marked(r) = {}
    BY <2>1 DEF MayPresent, Marked
  <2>5. \A g \in Hubs : adopting'[g] # Idle =>
          (adopting'[g].step = "adopt" <=> adopting'[g].record.id \notin spent')
    BY <2>1, <2>2, <2>3, <2>4 DEF ApartInv
  <2>6. ASSUME NEW f \in Hubs, NEW g \in Hubs, f # g,
               adopting'[f] # Idle, adopting'[f].step = "adopt", adopting'[g] # Idle, adopting'[g].step = "adopt"
        PROVE  Marked(adopting'[f].record) \cap Marked(adopting'[g].record) = {}
    <3>1. CASE f = h
      BY <2>2, <2>3, <2>4, <2>6, <3>1
    <3>2. CASE g = h
      BY <2>2, <2>3, <2>4, <2>6, <3>2
    <3>3. CASE f # h /\ g # h
      BY <2>3, <2>6, <3>3 DEF ApartInv
    <3> QED BY <3>1, <3>2, <3>3
  <2> QED BY <2>5, <2>6 DEF ApartInv, Marked
<1>4. ASSUME NEW h \in Hubs, Adopt(h), spent' # spent PROVE ApartInv'
  <2> DEFINE r == adopting[h].record
  <2>1. /\ adopting[h] # Idle /\ adopting[h].step = "adopt"
        /\ adopting' = [adopting EXCEPT ![h].step = "ack"]
        /\ spent' = spent \cup Begun(Marked(r))
    BY <1>4 DEF Adopt, Marked
  <2>2. /\ r.id \in Begun(Marked(r))
        /\ \A x \in records : Marked(x) \cap Marked(r) # {} <=> x.id \in Begun(Marked(r))
    BY <2>1, Spends
  <2>3. adopting[h] \in [step : {"adopt", "ack"}, record : Record]
    BY <2>1, <1>a
  <2>4. /\ adopting'[h] # Idle /\ adopting'[h].step = "ack" /\ adopting'[h].record = r
        /\ \A g \in Hubs : g # h => adopting'[g] = adopting[g]
    <3>1. adopting'[h] = [adopting[h] EXCEPT !.step = "ack"] /\ \A g \in Hubs : g # h => adopting'[g] = adopting[g]
      BY <2>1, <1>a
    <3>2. [adopting[h] EXCEPT !.step = "ack"].step = "ack" /\ [adopting[h] EXCEPT !.step = "ack"].record = r
      BY <2>3
    <3>3. adopting'[h].step # Idle.step
      BY <3>1, <3>2 DEF Idle
    <3> QED BY <3>1, <3>2, <3>3
  <2> HIDE DEF r
  <2>5. \A g \in Hubs : adopting[g] # Idle => adopting[g].record \in records
    BY DEF ReceivedInv
  <2>6. ASSUME NEW g \in Hubs, g # h, adopting[g] # Idle
        PROVE  adopting[g].step = "adopt" <=> adopting[g].record.id \notin spent'
    <3>1. CASE adopting[g].step = "adopt"
      <4>1. Marked(adopting[g].record) \cap Marked(r) = {}
        BY <2>1, <2>6, <3>1 DEF ApartInv, r
      <4>2. adopting[g].record.id \notin Begun(Marked(r))
        BY <2>2, <2>5, <2>6, <4>1
      <4> QED BY <2>1, <2>6, <3>1, <4>2 DEF ApartInv
    <3>2. CASE adopting[g].step # "adopt"
      BY <2>1, <2>6, <3>2 DEF ApartInv
    <3> QED BY <3>1, <3>2
  <2>7. r.id \in spent'
    BY <2>1, <2>2
  <2>8. \A g \in Hubs : adopting'[g] # Idle =>
          (adopting'[g].step = "adopt" <=> adopting'[g].record.id \notin spent')
    BY <2>4, <2>6, <2>7
  <2>9. \A f, g \in Hubs :
          /\ adopting'[f] # Idle /\ adopting'[f].step = "adopt"
          /\ adopting'[g] # Idle /\ adopting'[g].step = "adopt"
          => f = g \/ Marked(adopting'[f].record) \cap Marked(adopting'[g].record) = {}
    BY <2>4 DEF ApartInv
  <2> QED BY <2>8, <2>9 DEF ApartInv, Marked
<1>5. ASSUME NEW h \in Hubs, Adopt(h), spent' = spent PROVE ApartInv'
  <2> DEFINE r == adopting[h].record
  <2>1. CASE adopting' = [adopting EXCEPT ![h] = Idle]
    BY <1>2, <1>5, <2>1
  <2>2. CASE spent' = spent \cup Begun(Marked(r)) /\ adopting[h] # Idle /\ adopting[h].step = "adopt"
    <3>1. r.id \in spent
      BY <1>5, <2>2, Spends
    <3> QED BY <2>2, <3>1 DEF ApartInv
  <2> QED BY <1>5, <2>1, <2>2 DEF Adopt, Marked
<1>6. CASE UNCHANGED <<adopting, spent>>
  BY <1>1, <1>6
<1> QED
  BY <1>2, <1>3, <1>4, <1>5, <1>6 DEF Next, Persist, PersistRaises, ReceiveRaises,
     Commit, BuildDone, AckTransfer, Restart, BuildRead,
     Alter, Confirm, Refuse, ghosts

\* What an adoption that succeeds changes.
LEMMA AdoptDoes ==
  ASSUME TypeOK, NEW h \in Hubs, Adopt(h), ~UNCHANGED <<seq, items, owner, spent>>
  PROVE  LET r == adopting[h].record
         IN  /\ adopting[h] # Idle /\ adopting[h].step = "adopt"
             /\ spent' = spent \cup Begun(Marked(r))
             /\ \A c \in Ctx : owner'[c] = IF c \in Marked(r) THEN [hub |-> h, by |-> r.id] ELSE owner[c]
             /\ \A c \in Ctx : items'[h][c] = IF c \in Marked(r) THEN items[h][c] + r.items[c] ELSE items[h][c]
             /\ \A g \in Hubs : g # h => items'[g] = items[g]
<1> DEFINE r == adopting[h].record
<1>1. /\ adopting[h] # Idle /\ adopting[h].step = "adopt"
      /\ items' = [items EXCEPT ![h] = [c \in Ctx |->
                     IF c \in DOMAIN r.marks THEN @[c] + r.items[c] ELSE @[c]]]
      /\ owner' = [c \in Ctx |-> IF c \in DOMAIN r.marks THEN [hub |-> h, by |-> r.id] ELSE owner[c]]
      /\ spent' = spent \cup Begun(DOMAIN r.marks)
  BY DEF Adopt
<1> HIDE DEF r
<1>2. items \in [Hubs -> [Ctx -> Nat]]
  BY DEF TypeOK
<1>3. /\ \A c \in Ctx : items'[h][c] = IF c \in Marked(r) THEN items[h][c] + r.items[c] ELSE items[h][c]
      /\ \A g \in Hubs : g # h => items'[g] = items[g]
  BY <1>1, <1>2 DEF Marked
<1>4. \A c \in Ctx : owner'[c] = IF c \in Marked(r) THEN [hub |-> h, by |-> r.id] ELSE owner[c]
  BY <1>1 DEF Marked
<1> QED
  BY <1>1, <1>3, <1>4 DEF r, Marked

----------------------------------------------------------------------------
(* Open items follow their context *)

Sending(c) == \E g \in Hubs : sending[g] # Idle /\ sending[g].ctx = c

\* A send is at the hub that has its context; while a handoff is on its way no
\* send of its contexts is, a draft is at the hub that has them, and a record
\* carries every open item of them.
SendsInv == \A h \in Hubs : sending[h] # Idle => owner[sending[h].ctx].hub = h
DraftsInv ==
  \A h \in Hubs : drafting[h] # Idle /\ drafting[h].id \notin spent =>
    \A c \in Marked(drafting[h]) : owner[c].hub = h /\ ~Sending(c)
CarriedInv ==
  \A r \in records : r.id \notin spent => \A c \in Marked(r) : r.items[c] >= held[c] /\ ~Sending(c)

ItemsInv == OpenItemsFollow /\ SendsInv /\ DraftsInv /\ CarriedInv

HandedWithCare == {"send", "hand over", "present", "restart"} \subseteq Careful

\* A send begins.
LEMMA ItemsPersist ==
  ASSUME TypeOK, ItemsInv, HandedWithCare, NEW h \in Hubs, NEW k \in Ctx, Persist(h, k)
  PROVE  ItemsInv'
<1>1. /\ owner[k].hub = h
      /\ \A r \in records : k \in Marked(r) => r.id \in spent
      /\ \A g \in Hubs : drafting[g] # Idle => k \notin Marked(drafting[g])
  BY DEF Persist, MaySend, HandedWithCare, Marked
<1>2. /\ UNCHANGED <<items, drafting, records, owner, held, spent>>
      /\ sending' = [sending EXCEPT ![h] = [step |-> "commit", ctx |-> k, seq |-> seq[h][k] + 1]]
  BY DEF Persist, wire, ghosts
<1>3. sending'[h].ctx = k /\ \A g \in Hubs : g # h => sending'[g] = sending[g]
  BY <1>2 DEF TypeOK
<1>4. \A c \in Ctx : Sending(c)' => c = k \/ Sending(c)
  BY <1>3 DEF Sending
<1>5. OpenItemsFollow'
  BY <1>2 DEF ItemsInv, OpenItemsFollow
<1>6. SendsInv'
  BY <1>1, <1>2, <1>3 DEF ItemsInv, SendsInv
<1>7. \A g \in Hubs : drafting[g] # Idle => Marked(drafting[g]) \subseteq Ctx
  BY MarksType DEF TypeOK, Marked, Idle
<1>8. \A r \in records : Marked(r) \subseteq Ctx
  BY MarksType, RecordTypes DEF TypeOK, Marked
<1>9. DraftsInv'
  BY <1>1, <1>2, <1>4, <1>7 DEF ItemsInv, DraftsInv, Marked
<1>10. CarriedInv'
  BY <1>1, <1>2, <1>4, <1>8 DEF ItemsInv, CarriedInv, Marked
<1> QED
  BY <1>5, <1>6, <1>9, <1>10 DEF ItemsInv

\* A send ends, with an open item or without.
LEMMA ItemsCommit ==
  ASSUME TypeOK, ItemsInv, NEW h \in Hubs, Commit(h)
  PROVE  ItemsInv'
<1> DEFINE k == sending[h].ctx
<1>1. k \in Ctx /\ sending[h] # Idle
  BY DEF Commit, TypeOK, Idle
<1>2. PICK n \in {0, 1} : /\ items' = [items EXCEPT ![h][k] = @ + n]
                          /\ held' = [held EXCEPT ![k] = @ + n]
  BY DEF Commit
<1>3. UNCHANGED <<drafting, records, owner, spent>> /\ sending' = [sending EXCEPT ![h] = Idle]
  BY DEF Commit, wire
<1>4. owner[k].hub = h /\ Sending(k)
  BY <1>1 DEF ItemsInv, SendsInv, Sending
<1> HIDE DEF k
<1>5. /\ items'[h][k] = items[h][k] + n /\ held'[k] = held[k] + n
      /\ \A c \in Ctx : c # k => held'[c] = held[c] /\ \A g \in Hubs : items'[g][c] = items[g][c]
  BY <1>1, <1>2 DEF TypeOK
<1>6. \A g \in Hubs : sending'[g] # Idle => sending'[g] = sending[g]
  BY <1>3 DEF TypeOK
<1>7. \A c \in Ctx : Sending(c)' => Sending(c)
  BY <1>6 DEF Sending
<1>8. OpenItemsFollow'
  <2> SUFFICES ASSUME NEW c \in Ctx PROVE items'[owner[c].hub][c] >= held'[c]
    BY <1>3 DEF OpenItemsFollow
  <2>1. items[owner[c].hub][c] >= held[c] /\ owner[c].hub \in Hubs
    BY DEF ItemsInv, OpenItemsFollow, TypeOK
  <2>2. items[owner[c].hub][c] \in Nat /\ held[c] \in Nat /\ n \in Nat
    BY <2>1 DEF TypeOK
  <2> QED BY <1>4, <1>5, <2>1, <2>2
<1>9. SendsInv'
  BY <1>3, <1>6 DEF ItemsInv, SendsInv
<1>10. \A g \in Hubs : drafting[g] # Idle => Marked(drafting[g]) \subseteq Ctx
  BY MarksType DEF TypeOK, Marked, Idle
<1>11. \A r \in records : Marked(r) \subseteq Ctx
  BY MarksType, RecordTypes DEF TypeOK, Marked
<1>12. DraftsInv'
  BY <1>3, <1>7, <1>10 DEF ItemsInv, DraftsInv, Marked
<1>13. CarriedInv'
  <2> SUFFICES ASSUME NEW r \in records, r.id \notin spent, NEW c \in Marked(r)
               PROVE  r.items[c] >= held'[c] /\ ~Sending(c)'
    BY <1>3 DEF CarriedInv, Marked
  <2>1. r.items[c] >= held[c] /\ ~Sending(c) /\ c \in Ctx
    BY <1>11 DEF ItemsInv, CarriedInv
  <2>2. c # k
    BY <1>4, <2>1
  <2> QED BY <1>5, <1>7, <2>1, <2>2
<1> QED
  BY <1>8, <1>9, <1>12, <1>13 DEF ItemsInv

\* A handoff begins.
LEMMA ItemsBuildRead ==
  ASSUME TypeOK, ItemsInv, HandedWithCare, NEW h \in Hubs, NEW cs \in (SUBSET Ctx) \ {{}}, BuildRead(h, cs)
  PROVE  ItemsInv'
<1> DEFINE d == [step |-> "build", id |-> clock.built + 1, marks |-> [c \in cs |-> seq[h][c]]]
<1>1. /\ UNCHANGED <<items, sending, records, owner, held, spent>>
      /\ drafting' = [drafting EXCEPT ![h] = d]
  BY DEF BuildRead, hubs, wire, ghosts
<1>2. \A c \in cs : owner[c].hub = h /\ c \notin {x.ctx : x \in {sending[h]} \ {Idle}}
  BY DEF BuildRead, HandedWithCare, MayHandOff
<1>3. \A c \in cs : ~Sending(c)
  BY <1>2 DEF Sending, ItemsInv, SendsInv
<1>4. Marked(d) = cs
  BY DEF Marked
<1> HIDE DEF d
<1>5. drafting'[h] = d /\ \A g \in Hubs : g # h => drafting'[g] = drafting[g]
  BY <1>1 DEF TypeOK
<1>6. \A c \in Ctx : Sending(c)' = Sending(c)
  BY <1>1 DEF Sending
<1>7. DraftsInv'
  <2> SUFFICES ASSUME NEW g \in Hubs, drafting'[g] # Idle, drafting'[g].id \notin spent,
                      NEW c \in Marked(drafting'[g])
               PROVE  owner[c].hub = g /\ ~Sending(c)
    BY <1>1 DEF DraftsInv, Marked, Sending
  <2>1. CASE g = h
    BY <1>2, <1>3, <1>4, <1>5, <2>1
  <2>2. CASE g # h
    BY <1>5, <2>2 DEF ItemsInv, DraftsInv
  <2> QED BY <2>1, <2>2
<1>8. OpenItemsFollow' /\ SendsInv' /\ CarriedInv'
  BY <1>1 DEF ItemsInv, OpenItemsFollow, SendsInv, CarriedInv, Sending, Marked
<1> QED
  BY <1>7, <1>8 DEF ItemsInv

\* The record comes out, with the open items of the hub that has the contexts.
LEMMA ItemsBuildDone ==
  ASSUME TypeOK, ItemsInv, NEW h \in Hubs, BuildDone(h)
  PROVE  ItemsInv'
<1> DEFINE b == Built(h)
<1>1. /\ UNCHANGED <<items, sending, owner, held, spent>> /\ drafting[h] # Idle
      /\ drafting' = [drafting EXCEPT ![h] = Idle]
      /\ records' \subseteq records \cup {b}
  BY DEF BuildDone, ghosts
<1>2. /\ b.id = drafting[h].id /\ Marked(b) = Marked(drafting[h])
      /\ \A c \in Marked(b) : b.items[c] = items[h][c]
  BY DEF Built, Marked
<1> HIDE DEF b
<1>3. Marked(drafting[h]) \subseteq Ctx
  BY <1>1, MarksType DEF TypeOK, Marked, Idle
<1>4. ASSUME b.id \notin spent, NEW c \in Marked(b)
      PROVE  b.items[c] >= held[c] /\ ~Sending(c)
  <2>1. owner[c].hub = h /\ ~Sending(c) /\ c \in Ctx
    BY <1>1, <1>2, <1>3, <1>4 DEF ItemsInv, DraftsInv
  <2> QED BY <1>2, <1>4, <2>1 DEF ItemsInv, OpenItemsFollow
<1>5. CarriedInv'
  <2> SUFFICES ASSUME NEW r \in records', r.id \notin spent, NEW c \in Marked(r)
               PROVE  r.items[c] >= held[c] /\ ~Sending(c)
    BY <1>1 DEF CarriedInv, Marked, Sending
  <2> QED BY <1>1, <1>4 DEF ItemsInv, CarriedInv
<1>6. \A g \in Hubs : drafting'[g] # Idle => drafting'[g] = drafting[g]
  BY <1>1 DEF TypeOK
<1>7. OpenItemsFollow' /\ SendsInv' /\ DraftsInv'
  BY <1>1, <1>6 DEF ItemsInv, OpenItemsFollow, SendsInv, DraftsInv, Sending, Marked
<1> QED
  BY <1>5, <1>7 DEF ItemsInv

\* The contexts move to another hub, and their items with them.
LEMMA ItemsAdopt ==
  ASSUME TypeOK, IdInv, ReceivedInv, ApartInv, ItemsInv, NEW h \in Hubs, Adopt(h)
  PROVE  ItemsInv'
<1>1. UNCHANGED <<sending, drafting, records, held>>
  BY DEF Adopt, wire
<1>2. CASE UNCHANGED <<seq, items, owner, spent>>
  BY <1>1, <1>2 DEF ItemsInv, OpenItemsFollow, SendsInv, DraftsInv, CarriedInv, Sending, Marked
<1>3. CASE ~UNCHANGED <<seq, items, owner, spent>>
  <2> DEFINE r == adopting[h].record
  <2>1. /\ adopting[h] # Idle /\ adopting[h].step = "adopt"
        /\ spent' = spent \cup Begun(Marked(r))
        /\ \A c \in Ctx : owner'[c] = IF c \in Marked(r) THEN [hub |-> h, by |-> r.id] ELSE owner[c]
        /\ \A c \in Ctx : items'[h][c] = IF c \in Marked(r) THEN items[h][c] + r.items[c] ELSE items[h][c]
        /\ \A g \in Hubs : g # h => items'[g] = items[g]
    BY <1>3, AdoptDoes
  <2>2. r \in records /\ r \in Record /\ r.id \notin spent
    BY <2>1 DEF ReceivedInv, ApartInv, TypeOK
  <2>3. \A g \in Hubs : drafting[g] # Idle /\ Marked(drafting[g]) \cap Marked(r) # {} =>
          drafting[g].id \in spent'
    BY <2>1, Spends
  <2> HIDE DEF r
  <2>4. \A c \in Marked(r) : c \in Ctx /\ r.items[c] >= held[c] /\ r.items[c] \in Nat /\ ~Sending(c)
    <3>1. Marked(r) \subseteq Ctx /\ \A c \in Marked(r) : r.items[c] \in Nat
      BY <2>2, MarksType, RecordTypes DEF Marked
    <3> QED BY <2>2, <3>1 DEF ItemsInv, CarriedInv
  <2>5. OpenItemsFollow'
    <3> SUFFICES ASSUME NEW c \in Ctx PROVE items'[owner'[c].hub][c] >= held[c]
      BY <1>1 DEF OpenItemsFollow
    <3>1. /\ items[h][c] \in Nat /\ held[c] \in Nat /\ owner[c].hub \in Hubs
          /\ items[owner[c].hub][c] >= held[c]
      BY DEF TypeOK, ItemsInv, OpenItemsFollow
    <3>2. CASE c \in Marked(r)
      BY <2>1, <2>4, <3>1, <3>2
    <3>3. CASE c \notin Marked(r)
      BY <2>1, <3>1, <3>3
    <3> QED BY <3>2, <3>3
  <2>6. SendsInv'
    <3> SUFFICES ASSUME NEW g \in Hubs, sending[g] # Idle PROVE owner'[sending[g].ctx].hub = g
      BY <1>1 DEF SendsInv
    <3>1. sending[g].ctx \in Ctx /\ Sending(sending[g].ctx) /\ owner[sending[g].ctx].hub = g
      BY DEF TypeOK, Idle, Sending, ItemsInv, SendsInv
    <3> QED BY <2>1, <2>4, <3>1
  <2>7. \A g \in Hubs : drafting[g] # Idle => Marked(drafting[g]) \subseteq Ctx
    BY MarksType DEF TypeOK, Marked, Idle
  <2>8. DraftsInv'
    <3> SUFFICES ASSUME NEW g \in Hubs, drafting[g] # Idle, drafting[g].id \notin spent',
                        NEW c \in Marked(drafting[g])
                 PROVE  owner'[c].hub = g /\ ~Sending(c)
      BY <1>1 DEF DraftsInv, Marked, Sending
    <3>1. owner[c].hub = g /\ ~Sending(c) /\ c \in Ctx
      BY <2>1, <2>7 DEF ItemsInv, DraftsInv
    <3>2. c \notin Marked(r)
      BY <2>3
    <3> QED BY <2>1, <3>1, <3>2
  <2>9. CarriedInv'
    <3> SUFFICES ASSUME NEW x \in records, x.id \notin spent', NEW c \in Marked(x)
                 PROVE  x.items[c] >= held[c] /\ ~Sending(c)
      BY <1>1 DEF CarriedInv, Marked, Sending
    <3> QED BY <2>1 DEF ItemsInv, CarriedInv
  <2> QED BY <2>5, <2>6, <2>8, <2>9 DEF ItemsInv
<1> QED
  BY <1>2, <1>3

\* Every step keeps a context's open items where the context is.
LEMMA ItemsMoves ==
  ASSUME TypeOK, IdInv, ReceivedInv, ApartInv, ItemsInv, HandedWithCare, Next
  PROVE  ItemsInv'
<1>1. ASSUME NEW h \in Hubs, Restart(h) PROVE ItemsInv'
  <2>1. /\ UNCHANGED <<records, owner, held, spent>>
        /\ items' = [items EXCEPT ![h] = [c \in Ctx |-> 0]]
        /\ sending' = [sending EXCEPT ![h] = Idle] /\ drafting' = [drafting EXCEPT ![h] = Idle]
        /\ \A c \in Ctx : owner[c].hub # h
    BY <1>1 DEF Restart, HandedWithCare, wire, ghosts
  <2>2. /\ \A g \in Hubs : sending'[g] # Idle => sending'[g] = sending[g]
        /\ \A g \in Hubs : drafting'[g] # Idle => drafting'[g] = drafting[g]
        /\ \A g \in Hubs : g # h => items'[g] = items[g]
    BY <2>1 DEF TypeOK
  <2>3. \A c : Sending(c)' => Sending(c)
    BY <2>2 DEF Sending
  <2>4. OpenItemsFollow'
    <3>1. \A c \in Ctx : owner[c].hub \in Hubs /\ owner[c].hub # h
      BY <2>1 DEF TypeOK
    <3> QED BY <2>1, <2>2, <3>1 DEF ItemsInv, OpenItemsFollow
  <2>5. SendsInv'
    BY <2>1, <2>2 DEF ItemsInv, SendsInv
  <2>6. DraftsInv'
    BY <2>1, <2>2, <2>3 DEF ItemsInv, DraftsInv, Marked
  <2>7. CarriedInv'
    BY <2>1, <2>3 DEF ItemsInv, CarriedInv, Marked
  <2> QED BY <2>4, <2>5, <2>6, <2>7 DEF ItemsInv
<1>2. ASSUME NEW r \in records, Alter(r) PROVE ItemsInv'
  <2> DEFINE x == [r EXCEPT !.signed = FALSE, !.marks = [c \in DOMAIN @ |-> 0]]
  <2>1. x.id = r.id /\ Marked(x) = Marked(r) /\ x.items = r.items
    BY AlterType DEF TypeOK, Marked
  <2>2. records' = records \cup {x} /\ UNCHANGED <<items, sending, drafting, owner, held, spent>>
    BY <1>2 DEF Alter, hubs, ghosts
  <2> HIDE DEF x
  <2>3. CarriedInv'
    <3> SUFFICES ASSUME NEW y \in records', y.id \notin spent, NEW c \in Marked(y)
                 PROVE  y.items[c] >= held[c] /\ ~Sending(c)
      BY <2>2 DEF CarriedInv, Marked, Sending
    <3> QED BY <2>1, <2>2 DEF ItemsInv, CarriedInv
  <2>4. OpenItemsFollow' /\ SendsInv' /\ DraftsInv'
    BY <2>2 DEF ItemsInv, OpenItemsFollow, SendsInv, DraftsInv, Sending, Marked
  <2> QED BY <2>3, <2>4 DEF ItemsInv
<1>3. ASSUME UNCHANGED <<items, sending, drafting, records, owner, held, spent>> PROVE ItemsInv'
  BY <1>3 DEF ItemsInv, OpenItemsFollow, SendsInv, DraftsInv, CarriedInv, Sending, Marked
<1>4. ASSUME NEW h \in Hubs, AckTransfer(h) PROVE ItemsInv'
  BY <1>3, <1>4 DEF AckTransfer, ghosts
<1>5. ASSUME NEW r \in records, Confirm(r) PROVE ItemsInv'
  BY <1>3, <1>5 DEF Confirm, ghosts
<1>6. ASSUME NEW h \in Hubs, NEW r \in records, Refuse(h, r) \/ Receive(h, r) \/ ReceiveRaises(h, r)
      PROVE  ItemsInv'
  BY <1>3, <1>6 DEF Refuse, Receive, ReceiveRaises, wire, ghosts
<1>7. ASSUME NEW h \in Hubs, NEW c \in Ctx, PersistRaises(h, c) PROVE ItemsInv'
  BY <1>3, <1>7 DEF PersistRaises, wire, ghosts
<1> QED
  BY <1>1, <1>2, <1>4, <1>5, <1>6, <1>7, ItemsPersist, ItemsCommit, ItemsBuildRead, ItemsBuildDone, ItemsAdopt DEF Next

\* Nothing is open, sent or handed over as the hubs begin.
LEMMA ItemsInit ==
  ASSUME Init
  PROVE  ItemsInv
<1>1. SendsInv /\ DraftsInv /\ CarriedInv
  BY DEF Init, SendsInv, DraftsInv, CarriedInv
<1>2. OpenItemsFollow
  <2> SUFFICES ASSUME NEW c \in Ctx PROVE items[owner[c].hub][c] >= held[c]
    BY DEF OpenItemsFollow
  <2>1. owner[c].hub = Home[c] /\ Home[c] \in Hubs /\ held[c] = 0
    BY HandoffAssumption DEF Init
  <2>2. items[Home[c]][c] = 0
    BY <2>1 DEF Init
  <2> QED BY <2>1, <2>2
<1> QED
  BY <1>1, <1>2 DEF ItemsInv

\* "Any open queue items referencing the context hand over" (territory.py:18-19).
THEOREM OpenItemsCorrect ==
  HandedWithCare => (Spec => []OpenItemsFollow)
<1> DEFINE Inv == TypeOK /\ IdInv /\ ReceivedInv /\ ApartInv /\ ItemsInv
<1> SUFFICES ASSUME HandedWithCare PROVE Spec => []OpenItemsFollow
  OBVIOUS
<1>1. Init => Inv
  BY TypeInit, ItemsInit DEF Init, IdInv, ReceivedInv, ApartInv
<1>2. Inv /\ [Next]_vars => Inv'
  <2>1. "present" \in Careful
    BY DEF HandedWithCare
  <2>2. Inv /\ Next => Inv'
    BY <2>1, TypeMoves, IdMoves, ReceivedMoves, ApartMoves, ItemsMoves
  <2>3. ASSUME Inv, UNCHANGED vars PROVE Inv'
    <3>1. UNCHANGED <<seq, items, log, sending, drafting, adopting, records, acked, confirmed, clock, owner,
                      held, spent>>
      BY <2>3 DEF vars, hubs, wire, ghosts
    <3>2. TypeOK' /\ ReceivedInv'
      BY <2>3, <3>1 DEF TypeOK, ReceivedInv, Sound, Received
    <3>3. IdInv' /\ ApartInv'
      BY <2>3, <3>1 DEF IdInv, ApartInv, Marked
    <3>4. ItemsInv'
      BY <2>3, <3>1 DEF ItemsInv, OpenItemsFollow, SendsInv, DraftsInv, CarriedInv, Sending, Marked
    <3> QED BY <3>2, <3>3, <3>4
  <2> QED BY <2>2, <2>3
<1>3. Inv => OpenItemsFollow
  BY DEF ItemsInv
<1> QED
  BY <1>1, <1>2, <1>3, PTL DEF Spec

----------------------------------------------------------------------------
(* Every context is in some region *)

\* HasContext as what one log, of the hub h, says.
Turns(s, c) == {i \in DOMAIN s : /\ s[i].kind \in {"territory.transfer.ack", "territory.transfer.released"}
                                 /\ c \in DOMAIN s[i].marks}
Has(s, h, c) ==
  IF Turns(s, c) = {} THEN Home[c] = h
  ELSE \E i \in Turns(s, c) : s[i].kind = "territory.transfer.ack" /\ \A j \in Turns(s, c) : j <= i

HasAll == \A h \in Hubs, c \in Ctx : HasContext(h, c) <=> Has(log[h], h, c)

\* It is what HasContext says, now
LEMMA HasIs == HasAll
<1> SUFFICES ASSUME NEW h \in Hubs, NEW c \in Ctx PROVE HasContext(h, c) <=> Has(log[h], h, c)
  BY DEF HasAll
<1> DEFINE E == {i \in Entries(h, {"territory.transfer.ack", "territory.transfer.released"}) :
                   c \in DOMAIN log[h][i].marks}
<1>1. E = Turns(log[h], c)
  BY DEF Entries, Turns
<1> QED
  BY <1>1 DEF HasContext, Has

\* and after a step.
LEMMA HasIsNext == HasAll'
  BY HasIs, PTL

\* Lines of other kinds say nothing of it.
LEMMA HasPlain ==
  ASSUME NEW s \in Seq(Line), NEW t \in Seq(Plain), NEW h \in Hubs, NEW c \in Ctx
  PROVE  Has(s \o t, h, c) <=> Has(s, h, c)
<1>1. ASSUME NEW S, NEW a \in Seq(S), NEW b \in Seq(S)
      PROVE  /\ \A i \in DOMAIN a : i \in DOMAIN (a \o b) /\ (a \o b)[i] = a[i]
             /\ \A i \in DOMAIN (a \o b) : i \in DOMAIN a \/ \E j \in DOMAIN b : (a \o b)[i] = b[j]
  <2>1. \A i \in DOMAIN (a \o b) : i \in DOMAIN a \/ (i - Len(a) \in DOMAIN b /\ (a \o b)[i] = b[i - Len(a)])
    OBVIOUS
  <2> QED BY <2>1
<1>2. t \in Seq(Line)
  <2>1. ASSUME NEW S, NEW T \in SUBSET S PROVE Seq(T) \subseteq Seq(S)
    OBVIOUS
  <2>2. Plain \in SUBSET Line
    BY DEF Plain
  <2> QED BY <2>1, <2>2
<1> DEFINE u == s \o t
<1>3. /\ \A i \in DOMAIN s : i \in DOMAIN u /\ u[i] = s[i]
      /\ \A i \in DOMAIN u : i \in DOMAIN s \/ \E j \in DOMAIN t : u[i] = t[j]
  BY <1>1, <1>2
<1>4. \A j \in DOMAIN t : t[j].kind \notin {"territory.transfer.ack", "territory.transfer.released"}
  <2>1. ASSUME NEW S, NEW a \in Seq(S), NEW j \in DOMAIN a PROVE a[j] \in S
    OBVIOUS
  <2>2. \A j \in DOMAIN t : t[j] \in Plain
    BY <2>1
  <2> QED BY <2>2 DEF Plain
<1> HIDE DEF u
<1>5. Turns(u, c) = Turns(s, c) /\ \A i \in Turns(s, c) : u[i] = s[i]
  BY <1>3, <1>4 DEF Turns
<1>6. Has(u, h, c) <=> Has(s, h, c)
  BY <1>5 DEF Has
<1> QED
  BY <1>6 DEF u

\* An ack or a release decides for the contexts it names, and for no other.
LEMMA HasTurn ==
  ASSUME NEW s \in Seq(Line), NEW e \in Line, NEW h \in Hubs, NEW c \in Ctx,
         e.kind \in {"territory.transfer.ack", "territory.transfer.released"}
  PROVE  /\ c \in DOMAIN e.marks => (Has(s \o <<e>>, h, c) <=> e.kind = "territory.transfer.ack")
         /\ c \notin DOMAIN e.marks => (Has(s \o <<e>>, h, c) <=> Has(s, h, c))
<1> DEFINE u == s \o <<e>>
           n == Len(s) + 1
<1>1. ASSUME NEW S, NEW a \in Seq(S), NEW x \in S
      PROVE  /\ Len(a) \in Nat /\ DOMAIN a = 1 .. Len(a) /\ DOMAIN (a \o <<x>>) = 1 .. Len(a) + 1
             /\ \A i \in DOMAIN a : (a \o <<x>>)[i] = a[i]
             /\ (a \o <<x>>)[Len(a) + 1] = x
  OBVIOUS
<1>2. /\ Len(s) \in Nat /\ DOMAIN s = 1 .. Len(s) /\ DOMAIN u = 1 .. Len(s) + 1
      /\ \A i \in DOMAIN s : u[i] = s[i]
      /\ u[n] = e
  BY <1>1
<1> HIDE DEF u
<1>3. \A i \in DOMAIN s : i \in Nat /\ i < n /\ i # n /\ ~(n <= i)
  BY <1>2
<1>4. n \in Nat /\ n <= n /\ n \in DOMAIN u /\ \A i \in DOMAIN u : i = n \/ i \in DOMAIN s
  BY <1>2
<1>5. \A i \in DOMAIN s : i \in DOMAIN u /\ i <= n
  BY <1>2
<1> HIDE DEF n
<1>6. CASE c \in DOMAIN e.marks
  <2>1. n \in Turns(u, c) /\ \A i \in Turns(u, c) : i <= n
    BY <1>2, <1>4, <1>5, <1>6 DEF Turns
  <2>2. \A i \in Turns(u, c) : (\A j \in Turns(u, c) : j <= i) => i = n
    BY <1>3, <1>4, <2>1 DEF Turns
  <2> QED BY <1>2, <1>6, <2>1, <2>2 DEF Has, u
<1>7. CASE c \notin DOMAIN e.marks
  <2>1. Turns(u, c) = Turns(s, c) /\ \A i \in Turns(s, c) : u[i] = s[i]
    BY <1>2, <1>4, <1>5, <1>7 DEF Turns
  <2> QED BY <1>7, <2>1 DEF Has, u
<1> QED
  BY <1>6, <1>7

\* What a step that writes no ack and no release leaves.
LEMMA HasStays ==
  ASSUME TypeOK, NEW g \in Hubs, NEW t \in Seq(Plain), LogStep(g, t)
  PROVE  \A h \in Hubs, c \in Ctx : HasContext(h, c)' <=> HasContext(h, c)
<1> SUFFICES ASSUME NEW h \in Hubs, NEW c \in Ctx PROVE HasContext(h, c)' <=> HasContext(h, c)
  OBVIOUS
<1>1. log \in [Hubs -> Seq(Line)]
  BY DEF TypeOK
<1>2. log[h] \in Seq(Line)
  BY <1>1
<1>3. log'[h] = log[h] \/ log'[h] = log[h] \o t
  BY <1>1 DEF LogStep
<1>4. Has(log'[h], h, c) <=> Has(log[h], h, c)
  <2>1. Has(log[h] \o t, h, c) <=> Has(log[h], h, c)
    BY <1>2, HasPlain
  <2>2. CASE log'[h] = log[h]
    BY <2>2
  <2>3. CASE log'[h] = log[h] \o t
    BY <2>1, <2>3
  <2> QED BY <1>3, <2>2, <2>3
<1>5. (HasContext(h, c) <=> Has(log[h], h, c)) /\ (HasContext(h, c)' <=> Has(log'[h], h, c))
  <2>1. HasContext(h, c) <=> Has(log[h], h, c)
    BY HasIs DEF HasAll
  <2>2. HasContext(h, c)' <=> Has(log'[h], h, c)
    BY HasIsNext DEF HasAll
  <2> QED BY <2>1, <2>2
<1> QED
  BY <1>4, <1>5

\* The record a context was adopted by is a record that came from elsewhere, was
\* begun before, and says so still while its ack is on the way.
OwnerInv ==
  /\ \A c \in Ctx : owner[c].by # 0 =>
       owner[c].by \in spent /\ \E r \in records : r.id = owner[c].by
  /\ \A c \in Ctx, r \in records : owner[c].by = r.id => owner[c].hub # r.from
  /\ \A h \in Hubs : adopting[h] # Idle /\ adopting[h].step = "ack" =>
       \A c \in Ctx : owner[c].by = adopting[h].record.id =>
         owner[c].hub = h /\ c \in Marked(adopting[h].record)

\* Every step keeps it.
LEMMA OwnerMoves ==
  ASSUME TypeOK, IdInv, ReceivedInv, ApartInv, OwnerInv, Next
  PROVE  OwnerInv'
<1>a. /\ adopting \in [Hubs -> {Idle} \cup [step : {"adopt", "ack"}, record : Record]]
      /\ records \subseteq Record /\ \A r \in Record : r.id \in Nat \ {0}
      /\ drafting \in [Hubs -> {Idle} \cup [step : {"build"}, id : Nat \ {0}, marks : AnyMarks]]
  BY RecordTypes DEF TypeOK
<1>1. ASSUME UNCHANGED <<owner, spent, records>>,
             \A h \in Hubs : adopting'[h] # Idle /\ adopting'[h].step = "ack" => adopting'[h] = adopting[h]
      PROVE  OwnerInv'
  BY <1>1 DEF OwnerInv, Marked
<1>2. ASSUME NEW h \in Hubs, UNCHANGED <<owner, spent, records>>, adopting' = [adopting EXCEPT ![h] = Idle]
      PROVE  OwnerInv'
  <2>1. \A g \in Hubs : adopting'[g] # Idle => adopting'[g] = adopting[g]
    BY <1>2, <1>a
  <2> QED BY <1>1, <1>2, <2>1
<1>3. ASSUME NEW h \in Hubs, NEW r \in records, Receive(h, r) PROVE OwnerInv'
  <2> DEFINE a == [step |-> "adopt", record |-> r]
  <2>1. adopting' = [adopting EXCEPT ![h] = a] /\ UNCHANGED <<owner, spent, records>>
    BY <1>3 DEF Receive, ghosts, wire
  <2>2. a.step # "ack"
    OBVIOUS
  <2> HIDE DEF a
  <2>3. \A g \in Hubs : adopting'[g] # Idle /\ adopting'[g].step = "ack" => adopting'[g] = adopting[g]
    BY <2>1, <2>2, <1>a
  <2> QED BY <1>1, <2>1, <2>3
<1>4. ASSUME NEW h \in Hubs, Adopt(h), ~UNCHANGED <<seq, items, owner, spent>> PROVE OwnerInv'
  <2> DEFINE r == adopting[h].record
  <2>1. /\ adopting[h] # Idle /\ adopting[h].step = "adopt"
        /\ spent' = spent \cup Begun(Marked(r))
        /\ \A c \in Ctx : owner'[c] = IF c \in Marked(r) THEN [hub |-> h, by |-> r.id] ELSE owner[c]
    BY <1>4, AdoptDoes
  <2>2. /\ r.id \in spent' /\ r.id \notin spent /\ r \in records /\ r.from # h
        /\ records' = records
    BY <1>4, <2>1, Spends DEF ReceivedInv, Sound, ApartInv, Adopt, wire
  <2>3. r.id # 0
    BY <2>2, <1>a
  <2>4. /\ adopting'[h].record = r
        /\ \A g \in Hubs : g # h => adopting'[g] = adopting[g]
    <3>1. adopting' = [adopting EXCEPT ![h].step = "ack"]
      BY <1>4 DEF Adopt
    <3>2. adopting[h] \in [step : {"adopt", "ack"}, record : Record]
      BY <2>1, <1>a
    <3>3. [adopting[h] EXCEPT !.step = "ack"].record = r
      BY <3>2
    <3>4. adopting'[h] = [adopting[h] EXCEPT !.step = "ack"] /\ \A g \in Hubs : g # h => adopting'[g] = adopting[g]
      BY <3>1, <1>a
    <3> QED BY <3>3, <3>4
  <2> HIDE DEF r
  <2>5. \A c \in Ctx : /\ c \in Marked(r) => owner'[c].hub = h /\ owner'[c].by = r.id
                       /\ c \notin Marked(r) => owner'[c] = owner[c]
    BY <2>1
  <2>6. \A c \in Ctx : owner[c].by # r.id
    BY <2>2, <2>3 DEF OwnerInv
  <2>7. \A c \in Ctx : owner'[c].by # 0 =>
          owner'[c].by \in spent' /\ \E x \in records' : x.id = owner'[c].by
    BY <2>1, <2>2, <2>5 DEF OwnerInv
  <2>8. \A c \in Ctx, x \in records' : owner'[c].by = x.id => owner'[c].hub # x.from
    BY <2>2, <2>5 DEF OwnerInv, IdInv
  <2>9. ASSUME NEW g \in Hubs, adopting'[g] # Idle, adopting'[g].step = "ack",
               NEW c \in Ctx, owner'[c].by = adopting'[g].record.id
        PROVE  owner'[c].hub = g /\ c \in Marked(adopting'[g].record)
    <3>1. CASE g = h
      BY <2>4, <2>5, <2>6, <2>9, <3>1
    <3>2. CASE g # h
      <4>1. adopting'[g] = adopting[g] /\ adopting[g].record.id \in spent
        BY <2>4, <2>9, <3>2 DEF ApartInv
      <4>2. c \notin Marked(r)
        BY <2>2, <2>5, <2>9, <4>1
      <4> QED BY <2>5, <2>9, <4>1, <4>2 DEF OwnerInv
    <3> QED BY <3>1, <3>2
  <2> QED BY <2>7, <2>8, <2>9 DEF OwnerInv, Marked
<1>5. ASSUME NEW h \in Hubs, Adopt(h), UNCHANGED <<seq, items, owner, spent>> PROVE OwnerInv'
  <2> DEFINE r == adopting[h].record
  <2>1. CASE adopting' = [adopting EXCEPT ![h] = Idle]
    BY <1>2, <1>5, <2>1 DEF Adopt, wire
  <2>2. CASE spent' = spent \cup Begun(Marked(r)) /\ adopting[h] # Idle /\ adopting[h].step = "adopt"
    <3>1. r.id \in spent
      BY <1>5, <2>2, Spends
    <3> QED BY <2>2, <3>1 DEF ApartInv
  <2> QED BY <1>5, <2>1, <2>2 DEF Adopt, Marked
<1>6. ASSUME NEW h \in Hubs, BuildDone(h) PROVE OwnerInv'
  <2> DEFINE b == Built(h)
  <2>1. /\ UNCHANGED <<owner, spent, adopting>> /\ drafting[h] # Idle
        /\ records' = records \/ records' = records \cup {b}
    BY <1>6 DEF BuildDone, ghosts
  <2>2. b.id = drafting[h].id
    BY DEF Built
  <2> HIDE DEF b
  <2>3. b.id # 0 /\ \A r \in records : r.id # b.id
    BY <2>1, <2>2, <1>a DEF IdInv
  <2>4. \A c \in Ctx : owner[c].by # b.id
    BY <2>3 DEF OwnerInv
  <2>5. records \subseteq records' /\ records' \subseteq records \cup {b}
    BY <2>1
  <2> QED BY <2>1, <2>4, <2>5 DEF OwnerInv, Marked
<1>7. ASSUME NEW r \in records, Alter(r) PROVE OwnerInv'
  <2> DEFINE x == [r EXCEPT !.signed = FALSE, !.marks = [c \in DOMAIN @ |-> 0]]
  <2>1. x.id = r.id /\ x.from = r.from
    BY <1>a, AlterType
  <2>2. records' = records \cup {x} /\ UNCHANGED <<owner, spent, adopting>>
    BY <1>7 DEF Alter, ghosts
  <2> HIDE DEF x
  <2> QED BY <2>1, <2>2 DEF OwnerInv, Marked
<1>8. CASE UNCHANGED <<owner, spent, records, adopting>>
  BY <1>1, <1>8
<1>9. ASSUME NEW h \in Hubs, AckTransfer(h) \/ Restart(h) PROVE OwnerInv'
  <2>1. UNCHANGED <<owner, spent, records>> /\ adopting' = [adopting EXCEPT ![h] = Idle]
    BY <1>9 DEF AckTransfer, Restart, ghosts, wire
  <2> QED BY <1>2, <2>1
<1>10. ASSUME UNCHANGED vars PROVE OwnerInv'
  BY <1>8, <1>10 DEF vars, wire, ghosts
<1>11. ASSUME NEW h \in Hubs, NEW c \in Ctx, Persist(h, c) \/ PersistRaises(h, c) PROVE OwnerInv'
  BY <1>8, <1>11 DEF Persist, PersistRaises, wire, ghosts
<1>12. ASSUME NEW h \in Hubs, Commit(h) PROVE OwnerInv'
  BY <1>8, <1>12 DEF Commit, wire
<1>13. ASSUME NEW h \in Hubs, NEW cs \in (SUBSET Ctx) \ {{}}, BuildRead(h, cs) PROVE OwnerInv'
  BY <1>8, <1>13 DEF BuildRead, wire, ghosts
<1>14. ASSUME NEW r \in records, Confirm(r) PROVE OwnerInv'
  BY <1>8, <1>14 DEF Confirm, ghosts
<1>15. ASSUME NEW h \in Hubs, NEW r \in records, Refuse(h, r) \/ ReceiveRaises(h, r) PROVE OwnerInv'
  BY <1>8, <1>15 DEF Refuse, ReceiveRaises, wire, ghosts
<1> QED
  BY <1>3, <1>4, <1>5, <1>6, <1>7, <1>9, <1>11, <1>12, <1>13, <1>14, <1>15 DEF Next

\* An ack that is out is of a record that was adopted, and the hub it came from has
\* every context that was adopted by that record last.
AckedInv ==
  /\ acked \subseteq spent
  /\ \A h \in Hubs, c \in Ctx : owner[c].by \in acked /\ owner[c].hub = h => HasContext(h, c)

RegionInv == NeverInNone /\ AckedInv

ConfirmedWithCare == {"present", "confirm"} \subseteq Careful

\* An ack of a record names its hub for the record's contexts.
LEMMA RegionAck ==
  ASSUME TypeOK, ReceivedInv, ApartInv, OwnerInv, RegionInv, NEW h \in Hubs, AckTransfer(h)
  PROVE  RegionInv'
<1> DEFINE r == adopting[h].record
<1>1. /\ adopting[h] # Idle /\ adopting[h].step = "ack" /\ UNCHANGED <<owner, spent>>
      /\ \E n \in 0 .. 1 :
           /\ Writes(h, <<[kind |-> "territory.transfer.ack", id |-> r.id, marks |-> r.marks]>>, n)
           /\ acked' = acked \cup (IF n = 1 THEN {r.id} ELSE {})
  BY DEF AckTransfer, ghosts
<1>2. r.id \in spent /\ r.id \in Nat /\ r.marks \in AnyMarks
  BY <1>1, RecordTypes DEF ApartInv, TypeOK, Idle
<1>3. \A c \in Ctx : owner[c].by = r.id => owner[c].hub = h /\ c \in Marked(r)
  BY <1>1 DEF OwnerInv
<1> HIDE DEF r
<1> DEFINE e == [kind |-> "territory.transfer.ack", id |-> r.id, marks |-> r.marks]
<1>4. e \in Line /\ e.kind = "territory.transfer.ack" /\ DOMAIN e.marks = Marked(r)
  BY <1>2, LineTypes DEF Marked
<1>5. PICK n \in 0 .. 1 : Writes(h, <<e>>, n) /\ acked' = acked \cup (IF n = 1 THEN {r.id} ELSE {})
  BY <1>1
<1> HIDE DEF e
<1>6. log \in [Hubs -> Seq(Line)] /\ \A c \in Ctx : owner[c].hub \in Hubs
  BY DEF TypeOK
<1>w. <<e>> \in Seq(Line) /\ Len(<<e>>) = 1
  BY <1>4
<1>7. CASE UNCHANGED log /\ n = 0
  <2>1. <<>> \in Seq(Plain)
    OBVIOUS
  <2>2. LogStep(h, <<>>)
    BY <1>6, <1>7, NoLogStep
  <2>3. \A g \in Hubs, c \in Ctx : HasContext(g, c)' <=> HasContext(g, c)
    BY <2>1, <2>2, HasStays
  <2>4. acked' = acked
    BY <1>5, <1>7
  <2>5. NeverInNone'
    BY <2>3 DEF RegionInv, NeverInNone
  <2>6. AckedInv'
    BY <1>1, <2>3, <2>4 DEF RegionInv, AckedInv
  <2> QED BY <2>5, <2>6 DEF RegionInv
<1>8. CASE LogStep(h, <<e>>)
  <2>2. log' = [log EXCEPT ![h] = @ \o <<e>>]
    BY <1>8 DEF LogStep
  <2>3. log[h] \in Seq(Line) /\ log'[h] = log[h] \o <<e>> /\ \A g \in Hubs : g # h => log'[g] = log[g]
    BY <2>2, <1>6
  <2>4. /\ \A g \in Hubs, c \in Ctx : HasContext(g, c) <=> Has(log[g], g, c)
        /\ \A g \in Hubs, c \in Ctx : HasContext(g, c)' <=> Has(log'[g], g, c)
    BY HasIs, HasIsNext DEF HasAll
  <2>5. \A c \in Ctx : /\ c \in Marked(r) => Has(log[h] \o <<e>>, h, c)
                       /\ c \notin Marked(r) => (Has(log[h] \o <<e>>, h, c) <=> Has(log[h], h, c))
    BY <1>4, <2>3, HasTurn
  <2>6. \A c \in Ctx : c \in Marked(r) => HasContext(h, c)'
    BY <2>3, <2>4, <2>5
  <2>7. \A g \in Hubs, c \in Ctx : HasContext(g, c) => HasContext(g, c)'
    BY <2>3, <2>4, <2>5
  <2>8. NeverInNone'
    BY <2>7 DEF RegionInv, NeverInNone
  <2>9. AckedInv'
    <3>1. acked' \subseteq acked \cup {r.id}
      BY <1>5
    <3>2. acked' \subseteq spent'
      BY <1>1, <1>2, <3>1 DEF RegionInv, AckedInv
    <3>3. ASSUME NEW g \in Hubs, NEW c \in Ctx, owner[c].by \in acked', owner[c].hub = g
          PROVE  HasContext(g, c)'
      <4>1. CASE owner[c].by = r.id
        BY <1>3, <2>6, <3>3, <4>1
      <4>2. CASE owner[c].by \in acked
        BY <2>7, <3>3, <4>2 DEF RegionInv, AckedInv
      <4> QED BY <3>1, <3>3, <4>1, <4>2
    <3> QED BY <1>1, <3>2, <3>3 DEF AckedInv
  <2> QED BY <2>8, <2>9 DEF RegionInv
<1> QED
  BY <1>5, <1>6, <1>7, <1>8, <1>w, OneWrite

\* A release takes contexts from the hub that sent them, and another has them.
LEMMA RegionConfirm ==
  ASSUME TypeOK, OwnerInv, RegionInv, "confirm" \in Careful, NEW r \in records, Confirm(r)
  PROVE  RegionInv'
<1> DEFINE h == r.from
           e == [kind |-> "territory.transfer.released", id |-> r.id, marks |-> r.marks]
<1>1. /\ UNCHANGED <<owner, spent, acked>> /\ r.id \in acked
      /\ \A c \in Marked(r) : owner[c].by = r.id
  BY DEF Confirm, MayConfirm, ghosts, Marked
<1>2. h \in Hubs /\ r.id \in Nat /\ r.marks \in AnyMarks
  BY RecordTypes DEF TypeOK
<1>3. e \in Line /\ e.kind = "territory.transfer.released" /\ DOMAIN e.marks = Marked(r)
  BY <1>2, LineTypes DEF Marked
<1>4. PICK n \in 0 .. 1 : Writes(h, <<e>>, n)
  BY DEF Confirm
<1>5. \A c \in Ctx : c \in Marked(r) => owner[c].hub # h
  BY <1>1 DEF OwnerInv
<1> HIDE DEF e, h
<1>6. log \in [Hubs -> Seq(Line)] /\ \A c \in Ctx : owner[c].hub \in Hubs
  BY DEF TypeOK
<1>w. <<e>> \in Seq(Line) /\ Len(<<e>>) = 1
  BY <1>3
<1>7. CASE UNCHANGED log
  <2>1. <<>> \in Seq(Plain)
    OBVIOUS
  <2>2. LogStep(h, <<>>)
    BY <1>2, <1>6, <1>7, NoLogStep
  <2>3. \A g \in Hubs, c \in Ctx : HasContext(g, c)' <=> HasContext(g, c)
    BY <1>2, <2>1, <2>2, HasStays
  <2> QED BY <1>1, <2>3 DEF RegionInv, AckedInv, NeverInNone
<1>8. CASE LogStep(h, <<e>>)
  <2>2. log' = [log EXCEPT ![h] = @ \o <<e>>]
    BY <1>8 DEF LogStep
  <2>3. log[h] \in Seq(Line) /\ log'[h] = log[h] \o <<e>> /\ \A g \in Hubs : g # h => log'[g] = log[g]
    BY <2>2, <1>2, <1>6
  <2>4. /\ \A g \in Hubs, c \in Ctx : HasContext(g, c) <=> Has(log[g], g, c)
        /\ \A g \in Hubs, c \in Ctx : HasContext(g, c)' <=> Has(log'[g], g, c)
    BY HasIs, HasIsNext DEF HasAll
  <2>5. \A c \in Ctx : c \notin Marked(r) => (Has(log[h] \o <<e>>, h, c) <=> Has(log[h], h, c))
    BY <1>2, <1>3, <2>3, HasTurn
  <2>6. \A g \in Hubs, c \in Ctx : c \notin Marked(r) \/ g # h => (HasContext(g, c)' <=> HasContext(g, c))
    BY <2>3, <2>4, <2>5
  <2>7. NeverInNone'
    <3> SUFFICES ASSUME NEW c \in Ctx PROVE \E g \in Hubs : HasContext(g, c)'
      BY DEF NeverInNone
    <3>1. CASE c \in Marked(r)
      <4>1. PICK g \in Hubs : g = owner[c].hub
        BY <1>6
      <4>2. HasContext(g, c)
        BY <1>1, <3>1, <4>1 DEF RegionInv, AckedInv
      <4> QED BY <1>5, <2>6, <3>1, <4>1, <4>2
    <3>2. CASE c \notin Marked(r)
      <4>1. PICK g \in Hubs : HasContext(g, c)
        BY DEF RegionInv, NeverInNone
      <4> QED BY <2>6, <3>2, <4>1
    <3> QED BY <3>1, <3>2
  <2>8. AckedInv'
    <3>1. ASSUME NEW g \in Hubs, NEW c \in Ctx, owner[c].by \in acked, owner[c].hub = g
          PROVE  HasContext(g, c)'
      <4>1. HasContext(g, c) /\ (c \notin Marked(r) \/ g # h)
        BY <1>5, <3>1 DEF RegionInv, AckedInv
      <4> QED BY <2>6, <4>1
    <3> QED BY <1>1, <3>1 DEF RegionInv, AckedInv
  <2> QED BY <2>7, <2>8 DEF RegionInv
<1> QED
  BY <1>2, <1>4, <1>6, <1>7, <1>8, <1>w, OneWrite

\* Every step leaves every context in some region.
LEMMA RegionMoves ==
  ASSUME TypeOK, IdInv, ReceivedInv, ApartInv, OwnerInv, RegionInv, ConfirmedWithCare, Next
  PROVE  RegionInv'
<1>a. "confirm" \in Careful
  BY DEF ConfirmedWithCare
<1>1. CASE \E h \in Hubs : AckTransfer(h)
  BY <1>1, RegionAck
<1>2. CASE \E r \in records : Confirm(r)
  BY <1>2, <1>a, RegionConfirm
<1>3. CASE (~\E h \in Hubs : AckTransfer(h)) /\ ~\E r \in records : Confirm(r)
  <2>1. PICK g \in Hubs, s \in Seq(Line) : LogStep(g, s) /\ s \in Seq(Plain)
    BY <1>3, LogMoves
  <2>2. \A h \in Hubs, c \in Ctx : HasContext(h, c)' <=> HasContext(h, c)
    BY <2>1, HasStays
  <2>3. NeverInNone'
    BY <2>2 DEF RegionInv, NeverInNone
  <2>4. acked' = acked
    BY <1>3 DEF Next, Persist, PersistRaises, ReceiveRaises,
       Commit, BuildDone, Adopt, Restart, BuildRead, Alter, Refuse, Receive, wire
  <2>5. CASE UNCHANGED <<owner, spent>>
    BY <2>2, <2>3, <2>4, <2>5 DEF RegionInv, AckedInv
  <2>6. CASE ~UNCHANGED <<owner, spent>>
    <3>1. PICK k \in Hubs : Adopt(k)
      BY <1>3, <2>6 DEF Next, Persist, PersistRaises, ReceiveRaises,
         Commit, BuildDone, Restart, BuildRead, Alter, Refuse, Receive, ghosts
    <3> DEFINE r == adopting[k].record
    <3>2. /\ adopting[k] # Idle /\ adopting[k].step = "adopt"
          /\ spent' = spent \cup Begun(Marked(r))
          /\ \A c \in Ctx : owner'[c] = IF c \in Marked(r) THEN [hub |-> k, by |-> r.id] ELSE owner[c]
      BY <2>6, <3>1, AdoptDoes
    <3>3. r.id \notin acked
      BY <3>2 DEF ApartInv, RegionInv, AckedInv
    <3> HIDE DEF r
    <3>4. acked' \subseteq spent'
      BY <2>4, <3>2 DEF RegionInv, AckedInv
    <3>5. \A c \in Ctx : owner'[c].by \in acked => owner'[c] = owner[c]
      BY <3>2, <3>3
    <3>6. \A h \in Hubs, c \in Ctx : owner'[c].by \in acked' /\ owner'[c].hub = h => HasContext(h, c)'
      BY <2>2, <2>4, <3>5 DEF RegionInv, AckedInv
    <3> QED BY <2>3, <3>4, <3>6 DEF RegionInv, AckedInv
  <2> QED BY <2>3, <2>5, <2>6 DEF RegionInv
<1> QED
  BY <1>1, <1>2, <1>3

\* "The sender marks contexts released only on the receiver's ack"
\* (territory.py:24-26): so no context is in nobody's region.
THEOREM InRegionCorrect ==
  ConfirmedWithCare => (Spec => []NeverInNone)
<1> DEFINE Inv == TypeOK /\ IdInv /\ ReceivedInv /\ ApartInv /\ OwnerInv /\ RegionInv
<1> SUFFICES ASSUME ConfirmedWithCare PROVE Spec => []NeverInNone
  OBVIOUS
<1>1. Init => Inv
  <2> SUFFICES ASSUME Init PROVE Inv
    OBVIOUS
  <2>1. TypeOK
    BY TypeInit
  <2>2. IdInv /\ ReceivedInv /\ ApartInv /\ OwnerInv /\ AckedInv
    BY DEF Init, IdInv, ReceivedInv, ApartInv, OwnerInv, AckedInv
  <2>3. NeverInNone
    <3> SUFFICES ASSUME NEW c \in Ctx PROVE HasContext(Home[c], c)
      BY HandoffAssumption DEF NeverInNone
    <3>1. Home[c] \in Hubs
      BY HandoffAssumption
    <3>2. log[Home[c]] = <<[kind |-> "hub.boot"]>>
      BY <3>1 DEF Init
    <3>3. \A i \in DOMAIN log[Home[c]] :
            log[Home[c]][i].kind \notin {"territory.transfer.ack", "territory.transfer.released"}
      BY <3>2
    <3> QED BY <3>3 DEF HasContext, Entries
  <2> QED BY <2>1, <2>2, <2>3 DEF RegionInv
<1>2. Inv /\ [Next]_vars => Inv'
  <2>1. "present" \in Careful
    BY DEF ConfirmedWithCare
  <2>2. Inv /\ Next => Inv'
    BY <2>1, TypeMoves, IdMoves, ReceivedMoves, ApartMoves, OwnerMoves, RegionMoves
  <2>3. ASSUME Inv, UNCHANGED vars PROVE Inv'
    <3>1. UNCHANGED <<seq, items, log, sending, drafting, adopting, records, acked, confirmed, clock, owner,
                      held, spent>>
      BY <2>3 DEF vars, hubs, wire, ghosts
    <3>2. TypeOK' /\ ReceivedInv'
      BY <2>3, <3>1 DEF TypeOK, ReceivedInv, Sound, Received
    <3>3. IdInv' /\ ApartInv' /\ OwnerInv'
      BY <2>3, <3>1 DEF IdInv, ApartInv, OwnerInv, Marked
    <3>4. \A h \in Hubs, c \in Ctx : HasContext(h, c)' <=> HasContext(h, c)
      BY <3>1 DEF HasContext, Entries
    <3>5. RegionInv'
      BY <2>3, <3>1, <3>4 DEF RegionInv, NeverInNone, AckedInv
    <3> QED BY <3>2, <3>3, <3>5
  <2> QED BY <2>2, <2>3
<1>3. Inv => NeverInNone
  BY DEF RegionInv
<1> QED
  BY <1>1, <1>2, <1>3, PTL DEF Spec

----------------------------------------------------------------------------
(* What a walk over a log that grows reads *)

\* A walk over the log L, number by number.
Walked(g, L, C) ==
  g = [n \in 0 .. Len(L) |-> IF n = 0 THEN K!Departure(C) ELSE K!Pass(g[n - 1], L[n])]

\* There is a walk over every log,
LEMMA WalkBuilds ==
  ASSUME NEW L, Len(L) \in Nat, NEW C
  PROVE  \E g : Walked(g, L, C)
<1> DEFINE F(g, m) == [n \in 0 .. m |-> IF n = 0 THEN K!Departure(C) ELSE K!Pass(g[n - 1], L[n])]
           Good(m) == \E g : g = F(g, m)
           S == {m \in 1 .. Len(L) : ~Good(m)}
<1>1. Good(0)
  <2> DEFINE g == [n \in 0 .. 0 |-> K!Departure(C)]
  <2>1. g = F(g, 0)
    OBVIOUS
  <2> QED BY <2>1
<1>2. ASSUME NEW m \in 1 .. Len(L), Good(m - 1) PROVE Good(m)
  <2>1. PICK g : g = F(g, m - 1)
    BY <1>2
  <2> DEFINE x == K!Pass(g[m - 1], L[m])
             h == [n \in 0 .. m |-> IF n = m THEN x ELSE g[n]]
  <2>2. /\ DOMAIN g = 0 .. m - 1
        /\ \A n \in 0 .. m - 1 : g[n] = IF n = 0 THEN K!Departure(C) ELSE K!Pass(g[n - 1], L[n])
    BY <2>1
  <2>3. ASSUME NEW n \in 0 .. m
        PROVE  h[n] = IF n = 0 THEN K!Departure(C) ELSE K!Pass(h[n - 1], L[n])
    <3>1. CASE n = m
      <4>1. n - 1 \in 0 .. m /\ n - 1 # m /\ n # 0
        BY <3>1
      <4>2. h[n - 1] = g[m - 1] /\ h[n] = x
        BY <3>1, <4>1
      <4> QED BY <3>1, <4>1, <4>2
    <3>2. CASE n # m
      <4>1. n \in 0 .. m - 1 /\ h[n] = g[n]
        BY <3>2
      <4>2. n # 0 => n - 1 \in 0 .. m /\ n - 1 # m /\ h[n - 1] = g[n - 1]
        BY <3>2
      <4> HIDE DEF h
      <4> QED BY <2>2, <4>1, <4>2
    <3> QED BY <3>1, <3>2
  <2>4. h = [n \in 0 .. m |-> h[n]]
    OBVIOUS
  <2> HIDE DEF h
  <2>5. h = F(h, m)
    BY <2>3, <2>4
  <2> QED BY <2>5
<1> HIDE DEF Good
<1>3. S = {}
  <2> SUFFICES ASSUME S # {} PROVE FALSE
    OBVIOUS
  <2>1. PICK n \in S : \A k \in S : n <= k
    BY LeastOf
  <2>2. n \in 1 .. Len(L) /\ ~Good(n)
    BY <2>1
  <2>3. CASE n = 1
    BY <1>1, <1>2, <2>2, <2>3
  <2>4. CASE n # 1
    <3>1. n - 1 \in 1 .. Len(L) /\ n - 1 \notin S
      BY <2>1, <2>2, <2>4
    <3> QED BY <1>2, <2>2, <3>1
  <2> QED BY <2>3, <2>4
<1>4. Good(Len(L))
  <2>1. CASE Len(L) = 0
    BY <1>1, <2>1
  <2>2. CASE Len(L) # 0
    <3>1. Len(L) \in 1 .. Len(L)
      BY <2>2
    <3> QED BY <1>3, <3>1
  <2> QED BY <2>1, <2>2
<1> QED
  BY <1>4 DEF Good, Walked

\* which ends with what K!Walk reads.
LEMMA WalkEnds ==
  ASSUME NEW L, Len(L) \in Nat, NEW C
  PROVE  \E g : Walked(g, L, C) /\ K!Walk(L, C) = g[Len(L)]
<1> DEFINE h == CHOOSE g : Walked(g, L, C)
<1>1. K!Walk(L, C) = h[Len(L)]
  BY DEF K!Walk, Walked
<1>2. Walked(h, L, C)
  BY WalkBuilds
<1> HIDE DEF h
<1> QED
  BY <1>1, <1>2

\* Walks over two logs agree as long as the logs do.
LEMMA WalkAgrees ==
  ASSUME NEW L, NEW M, Len(L) \in Nat, Len(M) \in Nat, Len(L) <= Len(M), \A i \in 1 .. Len(L) : M[i] = L[i],
         NEW C, NEW g, NEW h, Walked(g, L, C), Walked(h, M, C)
  PROVE  \A n \in 0 .. Len(L) : h[n] = g[n]
<1>1. /\ g[0] = K!Departure(C) /\ \A n \in 1 .. Len(L) : g[n] = K!Pass(g[n - 1], L[n])
      /\ h[0] = K!Departure(C) /\ \A n \in 1 .. Len(M) : h[n] = K!Pass(h[n - 1], M[n])
  <2>1. ASSUME NEW f, NEW N, Len(N) \in Nat, Walked(f, N, C)
        PROVE  f[0] = K!Departure(C) /\ \A n \in 1 .. Len(N) : f[n] = K!Pass(f[n - 1], N[n])
    BY <2>1 DEF Walked
  <2> QED BY <2>1
<1> DEFINE S == {n \in 1 .. Len(L) : h[n] # g[n]}
<1>2. S = {}
  <2> SUFFICES ASSUME S # {} PROVE FALSE
    OBVIOUS
  <2>1. PICK n \in S : \A k \in S : n <= k
    BY LeastOf
  <2>2. n \in 1 .. Len(L) /\ n \in 1 .. Len(M) /\ h[n] # g[n]
    BY <2>1
  <2>3. h[n - 1] = g[n - 1]
    <3>1. CASE n = 1
      BY <1>1, <3>1
    <3>2. CASE n # 1
      <4>1. n - 1 \in 1 .. Len(L) /\ n - 1 \notin S
        BY <2>1, <2>2, <3>2
      <4> QED BY <4>1
    <3> QED BY <3>1, <3>2
  <2> QED BY <1>1, <2>2, <2>3
<1> QED
  BY <1>1, <1>2

\* An entry appended is one more entry passed.
LEMMA WalkNext ==
  ASSUME NEW T, NEW L \in Seq(T), NEW e \in T, NEW C
  PROVE  K!Walk(L \o <<e>>, C) = K!Pass(K!Walk(L, C), e)
<1> DEFINE M == L \o <<e>>
<1>1. /\ Len(L) \in Nat /\ Len(M) = Len(L) + 1 /\ M[Len(L) + 1] = e
      /\ \A i \in 1 .. Len(L) : M[i] = L[i]
  OBVIOUS
<1> HIDE DEF M
<1>2. PICK g : Walked(g, L, C) /\ K!Walk(L, C) = g[Len(L)]
  BY <1>1, WalkEnds
<1>3. PICK h : Walked(h, M, C) /\ K!Walk(M, C) = h[Len(M)]
  BY <1>1, WalkEnds
<1>4. h[Len(L)] = g[Len(L)]
  <2>1. Len(L) <= Len(M) /\ Len(M) \in Nat /\ Len(L) \in 0 .. Len(L)
    BY <1>1
  <2> QED BY <1>1, <1>2, <1>3, <2>1, WalkAgrees
<1>5. h[Len(M)] = K!Pass(h[Len(L)], e)
  BY <1>1, <1>3 DEF Walked
<1> QED
  BY <1>2, <1>3, <1>4, <1>5 DEF M

\* Entries a walk does not look at change nothing.
LEMMA WalkOver ==
  ASSUME NEW L \in Seq(Line), NEW s \in Seq(Quiet), NEW C
  PROVE  K!Walk(L \o s, C) = K!Walk(L, C)
<1> DEFINE M == L \o s
<1>0. s \in Seq(Line)
  <2>1. ASSUME NEW U, NEW T \in SUBSET U PROVE Seq(T) \subseteq Seq(U)
    OBVIOUS
  <2>2. Quiet \in SUBSET Line
    BY DEF Quiet
  <2> QED BY <2>1, <2>2
<1>1. /\ Len(L) \in Nat /\ Len(M) \in Nat /\ Len(L) <= Len(M)
      /\ \A i \in 1 .. Len(L) : M[i] = L[i]
      /\ \A i \in Len(L) + 1 .. Len(M) : M[i] \in Quiet
  <2>1. ASSUME NEW U, NEW a \in Seq(U), NEW b \in Seq(U)
        PROVE  /\ Len(a) \in Nat /\ Len(b) \in Nat /\ Len(a \o b) = Len(a) + Len(b)
               /\ \A i \in 1 .. Len(a) : (a \o b)[i] = a[i]
               /\ \A i \in Len(a) + 1 .. Len(a) + Len(b) : i - Len(a) \in 1 .. Len(b) /\ (a \o b)[i] = b[i - Len(a)]
    OBVIOUS
  <2>2. \A i \in 1 .. Len(s) : s[i] \in Quiet
    OBVIOUS
  <2> QED BY <1>0, <2>1, <2>2
<1> HIDE DEF M
<1>2. PICK g : Walked(g, L, C) /\ K!Walk(L, C) = g[Len(L)]
  BY <1>1, WalkEnds
<1>3. PICK h : Walked(h, M, C) /\ K!Walk(M, C) = h[Len(M)]
  BY <1>1, WalkEnds
<1>4. h[Len(L)] = g[Len(L)]
  BY <1>1, <1>2, <1>3, WalkAgrees
<1>5. ASSUME NEW i \in Len(L) + 1 .. Len(M) PROVE h[i] = h[i - 1]
  <2>1. M[i].kind \notin {"territory.transfer.received", "envelope.persisted"} \cup K!BootKinds
    BY <1>1 DEF Quiet, Line, K!BootKinds
  <2>2. h[i] = K!Pass(h[i - 1], M[i])
    BY <1>1, <1>3 DEF Walked
  <2> QED BY <2>1, <2>2 DEF K!Pass
<1> DEFINE S == {i \in 1 .. Len(M) : i > Len(L) /\ h[i] # h[Len(L)]}
<1>6. S = {}
  <2> SUFFICES ASSUME S # {} PROVE FALSE
    OBVIOUS
  <2>1. PICK n \in S : \A k \in S : n <= k
    BY <1>1, LeastOf
  <2>2. n \in Len(L) + 1 .. Len(M) /\ h[n] # h[Len(L)] /\ n - 1 \notin S
    BY <1>1, <2>1
  <2>3. n - 1 = Len(L) \/ (n - 1 \in 1 .. Len(M) /\ n - 1 > Len(L))
    BY <1>1, <2>2
  <2> QED BY <1>5, <2>2, <2>3
<1>7. h[Len(M)] = h[Len(L)]
  <2>1. Len(M) = Len(L) \/ (Len(M) \in 1 .. Len(M) /\ Len(M) > Len(L))
    BY <1>1
  <2> QED BY <1>6, <2>1
<1> QED
  BY <1>2, <1>3, <1>4, <1>7 DEF M

Walks == [gaps : Nat, restarts : Nat, expected : [Ctx -> Nat], booted : SUBSET Ctx]

\* What a boot, a record received and an envelope, of a number that fits or not, do to a walk.
LEMMA PassDoes ==
  ASSUME NEW w \in Walks
  PROVE  /\ LET v == K!Pass(w, [kind |-> "hub.boot"])
            IN  v \in Walks /\ v.gaps = w.gaps /\ v.expected = w.expected
         /\ \A n \in Nat, m \in AnyMarks :
              LET v == K!Pass(w, [kind |-> "territory.transfer.received", id |-> n, marks |-> m])
              IN  /\ v \in Walks /\ v.gaps = w.gaps /\ v.booted = w.booted \ DOMAIN m
                  /\ \A c \in Ctx : v.expected[c] = IF c \in DOMAIN m THEN m[c] + 1 ELSE w.expected[c]
         /\ \A c \in Ctx \ w.booted, n \in Nat \ {0}, b \in BOOLEAN :
              LET v == K!Pass(w, [kind |-> "envelope.persisted", ctx |-> c, seq |-> n, returned |-> b])
              IN  /\ v \in Walks /\ v.booted = w.booted \ {c}
                  /\ v.gaps = w.gaps + (IF n = w.expected[c] \/ (n = 1 /\ w.expected[c] = 0) THEN 0 ELSE 1)
                  /\ \A k \in Ctx : v.expected[k] = IF k = c THEN n + 1 ELSE w.expected[k]
<1>1. /\ w.gaps \in Nat /\ w.restarts \in Nat /\ w.expected \in [Ctx -> Nat] /\ w.booted \subseteq Ctx
      /\ w = [gaps |-> w.gaps, restarts |-> w.restarts, expected |-> w.expected, booted |-> w.booted]
  BY DEF Walks
<1>2. LET v == K!Pass(w, [kind |-> "hub.boot"])
      IN  v \in Walks /\ v.gaps = w.gaps /\ v.expected = w.expected
  <2> DEFINE e == [kind |-> "hub.boot"]
             B == {c \in DOMAIN w.expected : w.expected[c] # 0}
  <2>1. K!Pass(w, e) = K!PassBoot(w)
    BY DEF K!Pass, K!BootKinds
  <2>2. K!PassBoot(w) = [gaps |-> w.gaps, restarts |-> w.restarts, expected |-> w.expected, booted |-> B]
    BY <1>1 DEF K!PassBoot
  <2>3. B \subseteq Ctx
    BY <1>1
  <2> HIDE DEF B, e
  <2> QED BY <1>1, <2>1, <2>2, <2>3 DEF Walks, e
<1>3. ASSUME NEW n \in Nat, NEW m \in AnyMarks
      PROVE  LET v == K!Pass(w, [kind |-> "territory.transfer.received", id |-> n, marks |-> m])
             IN  /\ v \in Walks /\ v.gaps = w.gaps /\ v.booted = w.booted \ DOMAIN m
                 /\ \A c \in Ctx : v.expected[c] = IF c \in DOMAIN m THEN m[c] + 1 ELSE w.expected[c]
  <2> DEFINE e == [kind |-> "territory.transfer.received", id |-> n, marks |-> m]
             F == [c \in Ctx |-> IF c \in DOMAIN m THEN m[c] + 1 ELSE w.expected[c]]
             B == w.booted \ DOMAIN m
  <2>1. K!Pass(w, e) = K!PassTransfer(w, m)
    BY DEF K!Pass, K!BootKinds
  <2>2. DOMAIN w.expected = Ctx
    BY <1>1
  <2>3. K!PassTransfer(w, m) = [gaps |-> w.gaps, restarts |-> w.restarts, expected |-> F, booted |-> B]
    <3>1. K!PassTransfer(w, m) = [w EXCEPT !.expected = F, !.booted = B]
      BY <2>2 DEF K!PassTransfer
    <3> HIDE DEF F, B
    <3> QED BY <1>1, <3>1
  <2>4. \A c \in DOMAIN m : m[c] \in Nat
    BY MarksType
  <2>5. F \in [Ctx -> Nat] /\ B \subseteq Ctx
    BY <1>1, <2>4
  <2>6. /\ \A c \in Ctx : F[c] = IF c \in DOMAIN m THEN m[c] + 1 ELSE w.expected[c]
        /\ B = w.booted \ DOMAIN m
    OBVIOUS
  <2> HIDE DEF F, B, e
  <2> QED BY <1>1, <2>1, <2>3, <2>5, <2>6 DEF Walks, e
<1>4. ASSUME NEW c \in Ctx \ w.booted, NEW n \in Nat \ {0}, NEW b \in BOOLEAN
      PROVE  LET v == K!Pass(w, [kind |-> "envelope.persisted", ctx |-> c, seq |-> n, returned |-> b])
             IN  /\ v \in Walks /\ v.booted = w.booted \ {c}
                 /\ v.gaps = w.gaps + (IF n = w.expected[c] \/ (n = 1 /\ w.expected[c] = 0) THEN 0 ELSE 1)
                 /\ \A k \in Ctx : v.expected[k] = IF k = c THEN n + 1 ELSE w.expected[k]
  <2> DEFINE e == [kind |-> "envelope.persisted", ctx |-> c, seq |-> n, returned |-> b]
             G == [w.expected EXCEPT ![c] = n + 1]
             B == w.booted \ {c}
             one == IF n = w.expected[c] \/ (n = 1 /\ w.expected[c] = 0) THEN 0 ELSE 1
  <2>1. K!Pass(w, e) = K!PassPersist(w, c, n)
    BY DEF K!Pass, K!BootKinds
  <2>2. (n = IF w.expected[c] = 0 THEN 1 ELSE w.expected[c]) <=> (n = w.expected[c] \/ (n = 1 /\ w.expected[c] = 0))
    BY <1>1
  <2>3. K!PassPersist(w, c, n) = [w EXCEPT !.gaps = w.gaps + one, !.restarts = w.restarts + 0,
                                           !.expected = G, !.booted = B]
    BY <1>1, <2>2 DEF K!PassPersist
  <2>4. K!PassPersist(w, c, n) = [gaps |-> w.gaps + one, restarts |-> w.restarts, expected |-> G, booted |-> B]
    <3>1. w.restarts + 0 = w.restarts
      BY <1>1
    <3> HIDE DEF G, B, one
    <3> QED BY <1>1, <2>3, <3>1
  <2>5. /\ G \in [Ctx -> Nat] /\ B \subseteq Ctx /\ \A k \in Ctx : G[k] = IF k = c THEN n + 1 ELSE w.expected[k]
        /\ w.gaps + one \in Nat /\ B = w.booted \ {c}
        /\ one = IF n = w.expected[c] \/ (n = 1 /\ w.expected[c] = 0) THEN 0 ELSE 1
    BY <1>1
  <2> HIDE DEF G, B, e, one
  <2> QED BY <1>1, <2>1, <2>4, <2>5 DEF Walks, e
<1> QED
  BY <1>2, <1>3, <1>4

----------------------------------------------------------------------------
(* The envelopes that repeat a number *)

\* The last line of L that gives c a number, or a mark, is an envelope whose append
\* raised: the next envelope repeats its number.
Doubtful(L, c) ==
  \E j \in DOMAIN L : /\ L[j].kind = "envelope.persisted" /\ L[j].ctx = c /\ ~L[j].returned
                      /\ \A k \in j + 1 .. Len(L) : ~Sets(L[k], c)

\* What a log that goes on says of the envelopes it had.
LEMMA RepeatsPrefix ==
  ASSUME NEW L, NEW M, NEW l \in Nat, NEW m \in Nat, DOMAIN L = 1 .. l, DOMAIN M = 1 .. m, l <= m,
         \A i \in 1 .. l : M[i] = L[i]
  PROVE  \A i \in 1 .. l : i \in Repeats(M) <=> i \in Repeats(L)
<1> SUFFICES ASSUME NEW i \in 1 .. l PROVE i \in Repeats(M) <=> i \in Repeats(L)
  OBVIOUS
<1>1. i \in DOMAIN L /\ i \in DOMAIN M /\ M[i] = L[i]
  OBVIOUS
<1>2. \A j \in 1 .. i - 1 : M[j] = L[j] /\ \A k \in j + 1 .. i - 1 : M[k] = L[k]
  OBVIOUS
<1>3. i \in Repeats(M) <=>
        /\ M[i].kind = "envelope.persisted"
        /\ \E j \in 1 .. i - 1 : /\ M[j].kind = "envelope.persisted" /\ M[j].ctx = M[i].ctx /\ ~M[j].returned
                                 /\ \A k \in j + 1 .. i - 1 : ~Sets(M[k], M[i].ctx)
  BY <1>1 DEF Repeats
<1>4. i \in Repeats(L) <=>
        /\ L[i].kind = "envelope.persisted"
        /\ \E j \in 1 .. i - 1 : /\ L[j].kind = "envelope.persisted" /\ L[j].ctx = L[i].ctx /\ ~L[j].returned
                                 /\ \A k \in j + 1 .. i - 1 : ~Sets(L[k], L[i].ctx)
  BY <1>1 DEF Repeats
<1>5. \A c : \A j \in 1 .. i - 1 :
       (\A k \in j + 1 .. i - 1 : ~Sets(M[k], c)) <=> (\A k \in j + 1 .. i - 1 : ~Sets(L[k], c))
  BY <1>2
<1> QED
  BY <1>1, <1>2, <1>3, <1>4, <1>5

\* A line appended repeats a number if the one before it is in doubt,
LEMMA RepeatsNext ==
  ASSUME NEW T, NEW L \in Seq(T), NEW e
  PROVE  /\ Repeats(L \o <<e>>) =
              Repeats(L) \cup (IF e.kind = "envelope.persisted" /\ Doubtful(L, e.ctx) THEN {Len(L) + 1} ELSE {})
         /\ Len(L) + 1 \notin Repeats(L)
         /\ \A c : Doubtful(L \o <<e>>, c) <=>
              IF Sets(e, c) THEN e.kind = "envelope.persisted" /\ e.ctx = c /\ ~e.returned ELSE Doubtful(L, c)
<1> DEFINE M == L \o <<e>>
           l == Len(L)
<1>1. /\ l \in Nat /\ DOMAIN L = 1 .. l /\ DOMAIN M = 1 .. l + 1 /\ Len(M) = l + 1 /\ M[l + 1] = e
      /\ \A i \in 1 .. l : M[i] = L[i]
  OBVIOUS
<1> HIDE DEF M, l
<1>2. \A i \in 1 .. l : i \in Repeats(M) <=> i \in Repeats(L)
  <2>1. l + 1 \in Nat /\ l <= l + 1
    BY <1>1
  <2> QED BY <1>1, <2>1, RepeatsPrefix
<1>3. l + 1 \in Repeats(M) <=> e.kind = "envelope.persisted" /\ Doubtful(L, e.ctx)
  <2>1. l + 1 \in DOMAIN M /\ (l + 1) - 1 = l
    BY <1>1
  <2>2. l + 1 \in Repeats(M) <=>
          /\ e.kind = "envelope.persisted"
          /\ \E j \in 1 .. l : /\ M[j].kind = "envelope.persisted" /\ M[j].ctx = e.ctx /\ ~M[j].returned
                               /\ \A k \in j + 1 .. l : ~Sets(M[k], e.ctx)
    BY <1>1, <2>1 DEF Repeats
  <2>3. \A j \in 1 .. l : M[j] = L[j] /\ \A k \in j + 1 .. l : M[k] = L[k]
    BY <1>1
  <2>4. \A c : \A j \in 1 .. l :
         (\A k \in j + 1 .. l : ~Sets(M[k], c)) <=> (\A k \in j + 1 .. l : ~Sets(L[k], c))
    BY <2>3
  <2> QED BY <1>1, <2>2, <2>3, <2>4 DEF Doubtful, l
<1>4. Repeats(L) \subseteq 1 .. l /\ Repeats(M) \subseteq 1 .. l + 1
  BY <1>1 DEF Repeats
<1>5. Repeats(M) = Repeats(L) \cup (IF e.kind = "envelope.persisted" /\ Doubtful(L, e.ctx) THEN {l + 1} ELSE {})
  <2>1. \A i : i \in 1 .. l + 1 <=> i \in 1 .. l \/ i = l + 1
    BY <1>1
  <2>2. l + 1 \notin 1 .. l
    BY <1>1
  <2> QED BY <1>2, <1>3, <1>4, <2>1, <2>2
<1>6. ASSUME NEW c
      PROVE  Doubtful(M, c) <=>
               IF Sets(e, c) THEN e.kind = "envelope.persisted" /\ e.ctx = c /\ ~e.returned ELSE Doubtful(L, c)
  <2>1. Doubtful(M, c) <=>
          \/ e.kind = "envelope.persisted" /\ e.ctx = c /\ ~e.returned
          \/ \E j \in 1 .. l : /\ L[j].kind = "envelope.persisted" /\ L[j].ctx = c /\ ~L[j].returned
                               /\ \A k \in j + 1 .. l + 1 : ~Sets(M[k], c)
    <3>1. \A j : j \in DOMAIN M <=> j \in 1 .. l \/ j = l + 1
      BY <1>1
    <3>2. \A k \in (l + 1) + 1 .. l + 1 : FALSE
      BY <1>1
    <3> QED BY <1>1, <3>1, <3>2 DEF Doubtful
  <2>2. \A j \in 1 .. l : (\A k \in j + 1 .. l + 1 : ~Sets(M[k], c)) <=>
                            ~Sets(e, c) /\ \A k \in j + 1 .. l : ~Sets(L[k], c)
    <3> SUFFICES ASSUME NEW j \in 1 .. l
                 PROVE  (\A k \in j + 1 .. l + 1 : ~Sets(M[k], c)) <=>
                          ~Sets(e, c) /\ \A k \in j + 1 .. l : ~Sets(L[k], c)
      OBVIOUS
    <3>1. \A k : k \in j + 1 .. l + 1 <=> k \in j + 1 .. l \/ k = l + 1
      BY <1>1
    <3>2. \A k \in j + 1 .. l : M[k] = L[k]
      BY <1>1
    <3> QED BY <1>1, <3>1, <3>2
  <2>3. Doubtful(L, c) <=> \E j \in 1 .. l : /\ L[j].kind = "envelope.persisted" /\ L[j].ctx = c /\ ~L[j].returned
                                             /\ \A k \in j + 1 .. l : ~Sets(L[k], c)
    BY <1>1 DEF Doubtful, l
  <2>4. e.kind = "envelope.persisted" /\ e.ctx = c => Sets(e, c)
    BY DEF Sets
  <2> QED BY <2>1, <2>2, <2>3, <2>4
<1>7. l + 1 \notin Repeats(L)
  BY <1>1, <1>4
<1> QED
  BY <1>5, <1>6, <1>7 DEF M, l

\* and other lines change nothing.
LEMMA RepeatsOver ==
  ASSUME NEW L \in Seq(Line), NEW s \in Seq(Quiet)
  PROVE  Repeats(L \o s) = Repeats(L) /\ \A c : Doubtful(L \o s, c) <=> Doubtful(L, c)
<1> DEFINE M == L \o s
           l == Len(L)
           m == Len(L) + Len(s)
<1>0. s \in Seq(Line)
  <2>1. ASSUME NEW U, NEW T \in SUBSET U PROVE Seq(T) \subseteq Seq(U)
    OBVIOUS
  <2>2. Quiet \in SUBSET Line
    BY DEF Quiet
  <2> QED BY <2>1, <2>2
<1>1. /\ l \in Nat /\ m \in Nat /\ l <= m /\ DOMAIN L = 1 .. l /\ DOMAIN M = 1 .. m /\ Len(M) = m
      /\ \A i \in 1 .. l : M[i] = L[i]
      /\ \A i \in l + 1 .. m : M[i] \in Quiet
  <2>1. ASSUME NEW U, NEW a \in Seq(U), NEW b \in Seq(U)
        PROVE  /\ Len(a) \in Nat /\ Len(b) \in Nat /\ Len(a \o b) = Len(a) + Len(b)
               /\ DOMAIN a = 1 .. Len(a) /\ DOMAIN (a \o b) = 1 .. Len(a) + Len(b)
               /\ \A i \in 1 .. Len(a) : (a \o b)[i] = a[i]
               /\ \A i \in Len(a) + 1 .. Len(a) + Len(b) : i - Len(a) \in 1 .. Len(b) /\ (a \o b)[i] = b[i - Len(a)]
    OBVIOUS
  <2>2. \A i \in 1 .. Len(s) : s[i] \in Quiet
    OBVIOUS
  <2> QED BY <1>0, <2>1, <2>2
<1> HIDE DEF M, l, m
<1>2. \A i \in l + 1 .. m : M[i].kind # "envelope.persisted" /\ \A c : ~Sets(M[i], c)
  BY <1>1 DEF Quiet, Sets
<1>3. \A i : i \in 1 .. m <=> i \in 1 .. l \/ i \in l + 1 .. m
  BY <1>1
<1>4. Repeats(M) = Repeats(L)
  <2>1. \A i \in 1 .. l : i \in Repeats(M) <=> i \in Repeats(L)
    BY <1>1, RepeatsPrefix
  <2>2. Repeats(L) \subseteq 1 .. l /\ Repeats(M) \subseteq 1 .. m
    BY <1>1 DEF Repeats
  <2>3. \A i \in l + 1 .. m : i \notin Repeats(M)
    BY <1>2 DEF Repeats
  <2> QED BY <1>3, <2>1, <2>2, <2>3
<1>5. ASSUME NEW c PROVE Doubtful(M, c) <=> Doubtful(L, c)
  <2>1. Doubtful(M, c) <=> \E j \in 1 .. m : /\ M[j].kind = "envelope.persisted" /\ M[j].ctx = c /\ ~M[j].returned
                                             /\ \A k \in j + 1 .. m : ~Sets(M[k], c)
    BY <1>1 DEF Doubtful
  <2>2. Doubtful(L, c) <=> \E j \in 1 .. l : /\ L[j].kind = "envelope.persisted" /\ L[j].ctx = c /\ ~L[j].returned
                                             /\ \A k \in j + 1 .. l : ~Sets(L[k], c)
    BY <1>1 DEF Doubtful, l
  <2>3. \A j \in 1 .. l : (\A k \in j + 1 .. m : ~Sets(M[k], c)) <=> (\A k \in j + 1 .. l : ~Sets(L[k], c))
    <3> SUFFICES ASSUME NEW j \in 1 .. l
                 PROVE  (\A k \in j + 1 .. m : ~Sets(M[k], c)) <=> (\A k \in j + 1 .. l : ~Sets(L[k], c))
      OBVIOUS
    <3>1. \A k : k \in j + 1 .. m <=> k \in j + 1 .. l \/ k \in l + 1 .. m
      BY <1>1
    <3>2. \A k \in j + 1 .. l : M[k] = L[k]
      BY <1>1
    <3> QED BY <1>2, <3>1, <3>2
  <2> QED BY <1>1, <1>2, <1>3, <2>1, <2>2, <2>3
<1> QED
  BY <1>4, <1>5 DEF M

----------------------------------------------------------------------------
(* The numbers of a context *)

\* The last number given of a context: by the send that is on its way, or by the
\* hub that has the context.
Number(c) ==
  LET h == owner[c].hub
  IN  IF sending[h] # Idle /\ sending[h].ctx = c THEN sending[h].seq ELSE seq[h][c]

\* The logs name as many envelopes of a context as numbers were given, and those
\* whose append raised have a number that was given or the next one.
CountInv ==
  \A c \in Ctx : /\ IsFiniteSet(Sent(c, TRUE)) /\ Cardinality(Sent(c, TRUE)) = Number(c)
                 /\ NumbersOf(Sent(c, TRUE)) = 1 .. Number(c)
                 /\ NumbersOf(Sent(c, FALSE)) \subseteq 1 .. Number(c) + 1

\* A handoff that was not overtaken carries the last number given.
MarksInv ==
  /\ \A r \in records : r.signed /\ r.id \notin spent => \A c \in Marked(r) : r.marks[c] = Number(c)
  /\ \A h \in Hubs : drafting[h] # Idle /\ drafting[h].id \notin spent =>
       \A c \in Marked(drafting[h]) : drafting[h].marks[c] = Number(c)

\* The gaps that a walk over the log L met are the envelopes that repeat a number.
Counted(w, L) == w \in Walks /\ IsFiniteSet(Repeats(L)) /\ w.gaps = Cardinality(Repeats(L))

\* It expects the number after n of c, or the one after that if the last line of c is
\* in doubt; no boot has passed since that line.
Due(w, L, c, n) == c \notin w.booted /\ ~Doubtful(L, c) /\ w.expected[c] = n + 1

Follows(w, L, c, n) ==
  /\ c \notin w.booted
  /\ IF Doubtful(L, c) THEN w.expected[c] = n + 2 ELSE w.expected[c] = n + 1 \/ (w.expected[c] = 0 /\ n = 0)

\* So a walk over the log L of h expects the numbers of the contexts that h has, and
\* those that follow the marks h is adopting.
Expects(w, L, h) ==
  /\ Counted(w, L)
  /\ \A c \in Ctx : owner[c].hub = h => Follows(w, L, c, Number(c))
  /\ adopting[h] # Idle /\ adopting[h].step = "adopt" =>
       \A c \in Marked(adopting[h].record) : Due(w, L, c, adopting[h].record.marks[c])

WalkInv == \A h \in Hubs : Expects(K!Walk(log[h], Ctx), log[h], h)

NumbersInv == CountInv /\ MarksInv /\ WalkInv

\* Sent as what the logs L say.
SentAt(L, c, returned) ==
  UNION {{<<h, i>> : i \in {j \in DOMAIN L[h] : /\ L[h][j].kind = "envelope.persisted"
                                                /\ L[h][j].ctx = c /\ L[h][j].returned = returned}} : h \in Hubs}

\* The envelopes of a context, place by place.
LEMMA SentPlaces ==
  ASSUME NEW L, NEW c, NEW b
  PROVE  /\ \A h, i : <<h, i>> \in SentAt(L, c, b) <=>
              /\ h \in Hubs /\ i \in DOMAIN L[h]
              /\ L[h][i].kind = "envelope.persisted" /\ L[h][i].ctx = c /\ L[h][i].returned = b
         /\ \A p \in SentAt(L, c, b) : p = <<p[1], p[2]>>
<1> DEFINE Its(h, j) == L[h][j].kind = "envelope.persisted" /\ L[h][j].ctx = c /\ L[h][j].returned = b
           At(h) == {<<h, i>> : i \in {j \in DOMAIN L[h] : Its(h, j)}}
<1>1. SentAt(L, c, b) = UNION {At(h) : h \in Hubs}
  BY DEF SentAt
<1>2. \A h, g, i : <<h, i>> \in At(g) <=> h = g /\ i \in DOMAIN L[h] /\ Its(h, i)
  <2> HIDE DEF Its
  <2> QED OBVIOUS
<1>3. \A g : \A p \in At(g) : p = <<p[1], p[2]>>
  OBVIOUS
<1> HIDE DEF At
<1> QED
  BY <1>1, <1>2, <1>3

\* They are those of the logs as they are, and of the logs a step leaves.
LEMMA SentIs ==
  \A c \in Ctx, b \in BOOLEAN : /\ Sent(c, b) = SentAt(log, c, b) /\ Sent(c, b)' = SentAt(log', c, b)
                                /\ \A S : NumbersOf(S)' = {log'[p[1]][p[2]].seq : p \in S'}
<1> SUFFICES ASSUME NEW c \in Ctx, NEW b \in BOOLEAN
             PROVE  Sent(c, b) = SentAt(log, c, b) /\ Sent(c, b)' = SentAt(log', c, b)
  BY DEF NumbersOf
<1>1. \A h : {j \in Entries(h, {"envelope.persisted"}) : log[h][j].ctx = c /\ log[h][j].returned = b} =
             {j \in DOMAIN log[h] : /\ log[h][j].kind = "envelope.persisted"
                                    /\ log[h][j].ctx = c /\ log[h][j].returned = b}
  BY DEF Entries
<1>2. \A h : {j \in Entries(h, {"envelope.persisted"})' : log'[h][j].ctx = c /\ log'[h][j].returned = b} =
             {j \in DOMAIN log'[h] : /\ log'[h][j].kind = "envelope.persisted"
                                     /\ log'[h][j].ctx = c /\ log'[h][j].returned = b}
  BY DEF Entries
<1> QED
  BY <1>1, <1>2 DEF Sent, SentAt

\* A sequence put behind another.
LEMMA Behind ==
  ASSUME NEW T, NEW a \in Seq(T), NEW b \in Seq(T)
  PROVE  /\ \A i \in DOMAIN a : i \in DOMAIN (a \o b) /\ (a \o b)[i] = a[i]
         /\ \A i \in DOMAIN (a \o b) : i \in DOMAIN a \/ \E j \in DOMAIN b : (a \o b)[i] = b[j]
<1>1. /\ DOMAIN a = 1 .. Len(a) /\ DOMAIN b = 1 .. Len(b) /\ Len(a) \in Nat /\ Len(b) \in Nat
      /\ DOMAIN (a \o b) = 1 .. Len(a) + Len(b)
      /\ \A i \in 1 .. Len(a) : (a \o b)[i] = a[i]
      /\ \A i \in 1 .. Len(a) + Len(b) : i > Len(a) => (a \o b)[i] = b[i - Len(a)]
  OBVIOUS
<1>2. \A i \in 1 .. Len(a) + Len(b) : i > Len(a) => i - Len(a) \in 1 .. Len(b)
  BY <1>1
<1>3. \A i \in 1 .. Len(a) : i \in 1 .. Len(a) + Len(b)
  BY <1>1
<1>4. \A i \in 1 .. Len(a) + Len(b) : i \in 1 .. Len(a) \/ i > Len(a)
  BY <1>1
<1> DEFINE ab == a \o b
<1> HIDE DEF ab
<1> QED
  BY <1>1, <1>2, <1>3, <1>4 DEF ab

\* A log that grows by lines other than envelopes names the same envelopes.
LEMMA SentStays ==
  ASSUME TypeOK, NEW h \in Hubs, NEW s \in Seq(Line), LogStep(h, s),
         \A i \in DOMAIN s : s[i].kind # "envelope.persisted"
  PROVE  \A c \in Ctx, b \in BOOLEAN : Sent(c, b)' = Sent(c, b) /\ NumbersOf(Sent(c, b))' = NumbersOf(Sent(c, b))
<1>1. log \in [Hubs -> Seq(Line)]
  BY DEF TypeOK
<1>2. log'[h] = log[h] \o s /\ \A g \in Hubs : g # h => log'[g] = log[g]
  BY <1>1 DEF LogStep
<1>3. /\ \A i \in DOMAIN log[h] : i \in DOMAIN log'[h] /\ log'[h][i] = log[h][i]
      /\ \A i \in DOMAIN log'[h] : i \in DOMAIN log[h] \/ \E j \in DOMAIN s : log'[h][i] = s[j]
  <2>1. log[h] \in Seq(Line)
    BY <1>1
  <2> DEFINE a == log[h]
             b == log'[h]
  <2>2. b = a \o s /\ a \in Seq(Line)
    BY <1>2, <2>1
  <2> HIDE DEF a, b
  <2>3. /\ \A i \in DOMAIN a : i \in DOMAIN b /\ b[i] = a[i]
        /\ \A i \in DOMAIN b : i \in DOMAIN a \/ \E j \in DOMAIN s : b[i] = s[j]
    BY <2>2, Behind
  <2> QED BY <2>3 DEF a, b
<1> SUFFICES ASSUME NEW c \in Ctx, NEW x \in BOOLEAN
             PROVE  Sent(c, x)' = Sent(c, x) /\ NumbersOf(Sent(c, x))' = NumbersOf(Sent(c, x))
  OBVIOUS
<1>4. ASSUME NEW g, NEW i PROVE <<g, i>> \in SentAt(log', c, x) <=> <<g, i>> \in SentAt(log, c, x)
  <2>1. <<g, i>> \in SentAt(log, c, x) <=> /\ g \in Hubs /\ i \in DOMAIN log[g]
                                        /\ log[g][i].kind = "envelope.persisted" /\ log[g][i].ctx = c
                                           /\ log[g][i].returned = x
    BY SentPlaces
  <2>2. <<g, i>> \in SentAt(log', c, x) <=> /\ g \in Hubs /\ i \in DOMAIN log'[g]
                                         /\ log'[g][i].kind = "envelope.persisted" /\ log'[g][i].ctx = c
                                            /\ log'[g][i].returned = x
    BY SentPlaces
  <2>3. CASE g # h
    BY <1>2, <2>1, <2>2, <2>3
  <2>4. CASE g = h
    BY <1>3, <2>1, <2>2, <2>4
  <2> QED BY <2>3, <2>4
<1>5. SentAt(log', c, x) = SentAt(log, c, x)
  <2>1. /\ \A p \in SentAt(log, c, x) : p = <<p[1], p[2]>>
        /\ \A p \in SentAt(log', c, x) : p = <<p[1], p[2]>>
    BY SentPlaces
  <2>2. \A g, i : <<g, i>> \in SentAt(log', c, x) <=> <<g, i>> \in SentAt(log, c, x)
    BY <1>4
  <2> DEFINE A == SentAt(log, c, x)
             B == SentAt(log', c, x)
  <2> HIDE DEF A, B
  <2>3. \A p \in A : p \in B
    BY <2>1, <2>2 DEF A, B
  <2>4. \A p \in B : p \in A
    BY <2>1, <2>2 DEF A, B
  <2>5. A = B
    BY <2>3, <2>4
  <2> QED BY <2>5 DEF A, B
<1>6. ASSUME NEW p \in SentAt(log, c, x) PROVE log'[p[1]][p[2]] = log[p[1]][p[2]]
  <2>1. p = <<p[1], p[2]>> /\ p[1] \in Hubs /\ p[2] \in DOMAIN log[p[1]]
    BY SentPlaces
  <2> QED BY <1>2, <1>3, <2>1
<1>7. Sent(c, x) = SentAt(log, c, x) /\ Sent(c, x)' = SentAt(log', c, x)
  BY SentIs
<1>8. {log'[p[1]][p[2]].seq : p \in SentAt(log, c, x)} = {log[p[1]][p[2]].seq : p \in SentAt(log, c, x)}
  BY <1>6
<1> QED
  BY <1>5, <1>7, <1>8 DEF NumbersOf

\* Only a send that begins gives a number.
LEMMA NumberStays ==
  ASSUME TypeOK, ReceivedInv, ApartInv, ItemsInv, OwnerInv, MarksInv, HandedWithCare, ConfirmedWithCare,
         Next, ~\E h \in Hubs, c \in Ctx : Persist(h, c)
  PROVE  \A c \in Ctx : Number(c)' = Number(c)
<1>a. /\ seq \in [Hubs -> [Ctx -> Nat]] /\ records \subseteq Record
      /\ sending \in [Hubs -> {Idle} \cup [step : {"commit"}, ctx : Ctx, seq : Nat]]
      /\ \A c \in Ctx : owner[c].hub \in Hubs
  BY DEF TypeOK
<1> DEFINE Goal == \A c \in Ctx : Number(c)' = Number(c)
<1>1. CASE UNCHANGED <<seq, sending, owner>>
  BY <1>1 DEF Number
<1>2. ASSUME NEW h \in Hubs, Commit(h) PROVE Goal
  <2> DEFINE k == sending[h].ctx
  <2>1. /\ sending[h] # Idle /\ seq' = [seq EXCEPT ![h][k] = sending[h].seq]
        /\ sending' = [sending EXCEPT ![h] = Idle] /\ owner' = owner
    BY <1>2 DEF Commit
  <2>2. k \in Ctx /\ owner[k].hub = h
    BY <2>1, <1>a DEF ItemsInv, SendsInv, Idle
  <2>3. ASSUME NEW c \in Ctx PROVE Number(c)' = Number(c)
    <3> DEFINE g == owner[c].hub
    <3>1. g \in Hubs
      BY <1>a
    <3>2. CASE g # h
      <4>1. sending'[g] = sending[g] /\ seq'[g][c] = seq[g][c]
        BY <2>1, <3>1, <3>2, <1>a
      <4> QED BY <2>1, <4>1 DEF Number
    <3>3. CASE g = h /\ c = k
      <4>1. sending'[h] = Idle /\ seq'[h][c] = sending[h].seq
        BY <2>1, <2>2, <3>3, <1>a
      <4> QED BY <2>1, <3>3, <4>1 DEF Number
    <3>4. CASE g = h /\ c # k
      <4>1. sending'[h] = Idle /\ seq'[h][c] = seq[h][c]
        BY <2>1, <2>2, <3>4, <1>a
      <4> QED BY <2>1, <3>4, <4>1 DEF Number
    <3> QED BY <3>2, <3>3, <3>4
  <2> QED BY <2>3
<1>3. ASSUME NEW h \in Hubs, Adopt(h), ~UNCHANGED <<seq, items, owner, spent>> PROVE Goal
  <2> DEFINE r == adopting[h].record
  <2>1. /\ adopting[h] # Idle /\ adopting[h].step = "adopt"
        /\ \A c \in Ctx : owner'[c] = IF c \in Marked(r) THEN [hub |-> h, by |-> r.id] ELSE owner[c]
    BY <1>3, AdoptDoes
  <2>2. /\ seq' = [seq EXCEPT ![h] = [c \in Ctx |-> IF c \in Marked(r) THEN Carried(r, c) ELSE @[c]]]
        /\ sending' = sending
    BY <1>3 DEF Adopt, Marked
  <2>3. r \in records /\ r.signed /\ r.id \notin spent
    BY <2>1 DEF ReceivedInv, Sound, ApartInv
  <2> HIDE DEF r
  <2>4. \A c \in Marked(r) : r.marks[c] = Number(c) /\ ~Sending(c)
    BY <2>3 DEF MarksInv, ItemsInv, CarriedInv
  <2>5. ASSUME NEW c \in Ctx PROVE Number(c)' = Number(c)
    <3>1. CASE c \in Marked(r)
      <4>1. owner'[c].hub = h /\ seq'[h][c] = r.marks[c]
        BY <2>1, <2>2, <3>1, <1>a DEF Carried
      <4>2. ~(sending[h] # Idle /\ sending[h].ctx = c)
        BY <2>4, <3>1 DEF Sending
      <4>3. Number(c)' = seq'[h][c]
        BY <2>2, <4>1, <4>2 DEF Number
      <4> QED BY <2>4, <3>1, <4>1, <4>3
    <3>2. CASE c \notin Marked(r)
      <4>1. owner'[c] = owner[c] /\ seq'[owner[c].hub][c] = seq[owner[c].hub][c]
        BY <2>1, <2>2, <3>2, <1>a
      <4> QED BY <2>2, <4>1 DEF Number
    <3> QED BY <3>1, <3>2
  <2> QED BY <2>5
<1>4. ASSUME NEW h \in Hubs, Adopt(h) PROVE Goal
  <2>1. CASE UNCHANGED <<seq, items, owner, spent>>
    BY <1>1, <1>4, <2>1 DEF Adopt
  <2> QED BY <1>3, <1>4, <2>1
<1>5. ASSUME NEW r \in records, Confirm(r) PROVE Goal
  <2>1. /\ seq' = [seq EXCEPT ![r.from] = [c \in Ctx |-> IF c \in DOMAIN r.marks THEN 0 ELSE @[c]]]
        /\ sending' = sending /\ owner' = owner
        /\ \A c \in DOMAIN r.marks : owner[c].by = r.id
    BY <1>5 DEF Confirm, ConfirmedWithCare, MayConfirm, ghosts
  <2>2. ASSUME NEW c \in Ctx PROVE seq'[owner[c].hub][c] = seq[owner[c].hub][c]
    <3>1. c \in DOMAIN r.marks => owner[c].hub # r.from
      BY <2>1 DEF OwnerInv
    <3>2. r.from \in Hubs
      BY <1>a, RecordTypes
    <3> QED BY <2>1, <3>1, <3>2, <1>a
  <2> QED BY <2>1, <2>2 DEF Number
<1>6. ASSUME NEW h \in Hubs, Restart(h) PROVE Goal
  <2>1. /\ seq' = [seq EXCEPT ![h] = [c \in Ctx |-> 0]] /\ sending' = [sending EXCEPT ![h] = Idle]
        /\ owner' = owner /\ \A c \in Ctx : owner[c].hub # h
    BY <1>6 DEF Restart, HandedWithCare, ghosts
  <2>2. \A c \in Ctx : /\ seq'[owner[c].hub] = seq[owner[c].hub]
                       /\ sending'[owner[c].hub] = sending[owner[c].hub]
    BY <2>1, <1>a
  <2> QED BY <2>1, <2>2 DEF Number
<1>7. ASSUME NEW h \in Hubs, NEW cs \in (SUBSET Ctx) \ {{}}, BuildRead(h, cs) PROVE Goal
  BY <1>1, <1>7 DEF BuildRead, hubs, ghosts
<1>8. ASSUME NEW h \in Hubs, BuildDone(h) \/ AckTransfer(h) PROVE Goal
  BY <1>1, <1>8 DEF BuildDone, AckTransfer, ghosts
<1>9. ASSUME NEW r \in records, Alter(r) PROVE Goal
  BY <1>1, <1>9 DEF Alter, hubs, ghosts
<1>10. ASSUME NEW h \in Hubs, NEW r \in records, Refuse(h, r) \/ Receive(h, r) \/ ReceiveRaises(h, r) PROVE Goal
  BY <1>1, <1>10 DEF Refuse, Receive, ReceiveRaises, ghosts
<1>11. ASSUME NEW h \in Hubs, NEW c \in Ctx, PersistRaises(h, c) PROVE Goal
  BY <1>1, <1>11 DEF PersistRaises, ghosts
<1> HIDE DEF Goal
<1>12. Goal
  BY <1>2, <1>4, <1>5, <1>6, <1>7, <1>8, <1>9, <1>10, <1>11 DEF Next
<1> QED
  BY <1>12 DEF Goal

\* The line of an envelope is on the file, and its append returned or raised; the
\* line of a record that came in is.
LineSent(h, k, b) ==
  /\ IF b THEN Persist(h, k) ELSE PersistRaises(h, k)
  /\ log' = [log EXCEPT ![h] = Append(@, Numbered(h, k, b))]

LineReceived(h, r) ==
  /\ Receive(h, r) \/ ReceiveRaises(h, r)
  /\ log' = [log EXCEPT ![h] = Append(@, Arrived(r))]

\* A send gives the next number of its context; if its append raised, the next one
\* gives it again.
LEMMA NumberGoesOn ==
  ASSUME TypeOK, ItemsInv, HandedWithCare, NEW h \in Hubs, NEW k \in Ctx, NEW b \in BOOLEAN, LineSent(h, k, b)
  PROVE  /\ owner[k].hub = h /\ seq[h][k] = Number(k) /\ Number(k) \in Nat
         /\ Number(k)' = Number(k) + (IF b THEN 1 ELSE 0)
         /\ \A c \in Ctx : c # k => Number(c)' = Number(c)
<1>1. /\ owner[k].hub = h /\ sending[h] = Idle /\ UNCHANGED <<seq, owner>>
      /\ sending' = IF b THEN [sending EXCEPT ![h] = [step |-> "commit", ctx |-> k, seq |-> seq[h][k] + 1]]
                    ELSE sending
  BY DEF LineSent, Persist, PersistRaises, HandedWithCare, MaySend, ghosts
<1>3. seq[h][k] \in Nat /\ \A c \in Ctx : owner[c].hub \in Hubs
  BY DEF TypeOK
<1>4. Number(k) = seq[h][k]
  BY <1>1 DEF Number
<1>7. CASE ~b
  <2>1. \A c \in Ctx : Number(c)' = Number(c)
    BY <1>1, <1>7 DEF Number
  <2> QED BY <1>1, <1>3, <1>4, <1>7, <2>1
<1>8. CASE b
  <2>2. /\ sending'[h] # Idle /\ sending'[h].ctx = k /\ sending'[h].seq = seq[h][k] + 1
        /\ \A g \in Hubs : g # h => sending'[g] = sending[g]
    <3>1. sending'[h] = [step |-> "commit", ctx |-> k, seq |-> seq[h][k] + 1]
      BY <1>1, <1>8 DEF TypeOK
    <3>2. sending'[h].step = "commit"
      BY <3>1
    <3> QED BY <1>1, <1>8, <3>1, <3>2 DEF TypeOK, Idle
  <2>5. Number(k)' = seq[h][k] + 1
    BY <1>1, <2>2 DEF Number
  <2>6. ASSUME NEW c \in Ctx, c # k PROVE Number(c)' = Number(c)
    <3>1. CASE owner[c].hub = h
      BY <1>1, <2>2, <2>6, <3>1 DEF Number
    <3>2. CASE owner[c].hub # h
      BY <1>1, <1>3, <2>2, <3>2 DEF Number
    <3> QED BY <3>1, <3>2
  <2> QED BY <1>1, <1>3, <1>4, <1>8, <2>5, <2>6
<1> QED
  BY <1>7, <1>8

\* A handoff that is begun, built, altered or overtaken carries the last number still.
LEMMA MarksMoves ==
  ASSUME TypeOK, IdInv, ItemsInv, MarksInv, HandedWithCare, Next,
         ~\E h \in Hubs, c \in Ctx : Persist(h, c), \A c \in Ctx : Number(c)' = Number(c)
  PROVE  MarksInv'
<1>a. /\ records \subseteq Record /\ \A r \in records : Marked(r) \subseteq Ctx
      /\ drafting \in [Hubs -> {Idle} \cup [step : {"build"}, id : Nat \ {0}, marks : AnyMarks]]
      /\ \A h \in Hubs : drafting[h] # Idle => Marked(drafting[h]) \subseteq Ctx
  BY RecordTypes, MarksType DEF TypeOK, Marked, Idle
<1>b. spent \subseteq spent'
  BY DEF Next, PersistRaises, Commit, BuildDone, Adopt, AckTransfer, Restart, BuildRead, Alter, Confirm,
         Refuse, Receive, ReceiveRaises, ghosts
<1>1. ASSUME \A r \in records' : r.signed => r \in records, \A h \in Hubs : drafting'[h] # Idle => drafting'[h] = drafting[h]
      PROVE  MarksInv'
  <2>1. \A r \in records' : r.signed /\ r.id \notin spent' => \A c \in Marked(r) : r.marks[c] = Number(c)'
    BY <1>1, <1>a, <1>b DEF MarksInv
  <2>2. \A h \in Hubs : drafting'[h] # Idle /\ drafting'[h].id \notin spent' =>
          \A c \in Marked(drafting'[h]) : drafting'[h].marks[c] = Number(c)'
    BY <1>1, <1>a, <1>b DEF MarksInv
  <2> QED BY <2>1, <2>2 DEF MarksInv, Marked
<1>2. ASSUME NEW h \in Hubs, NEW cs \in (SUBSET Ctx) \ {{}}, BuildRead(h, cs) PROVE MarksInv'
  <2> DEFINE d == [step |-> "build", id |-> clock.built + 1, marks |-> [c \in cs |-> seq[h][c]]]
  <2>1. drafting' = [drafting EXCEPT ![h] = d] /\ records' = records
    BY <1>2 DEF BuildRead, wire
  <2>2. Marked(d) = cs /\ \A c \in cs : d.marks[c] = seq[h][c]
    BY DEF Marked
  <2>3. ASSUME NEW c \in cs PROVE Number(c) = seq[h][c]
    <3>1. owner[c].hub = h /\ c \notin {x.ctx : x \in {sending[h]} \ {Idle}}
      BY <1>2 DEF BuildRead, HandedWithCare, MayHandOff
    <3>2. ~(sending[h] # Idle /\ sending[h].ctx = c)
      BY <3>1
    <3> QED BY <3>1, <3>2 DEF Number
  <2> HIDE DEF d
  <2>4. drafting'[h] = d /\ \A g \in Hubs : g # h => drafting'[g] = drafting[g]
    BY <2>1, <1>a
  <2>5. \A r \in records' : r.signed /\ r.id \notin spent' => \A c \in Marked(r) : r.marks[c] = Number(c)'
    BY <2>1, <1>a, <1>b DEF MarksInv
  <2>6. ASSUME NEW g \in Hubs, drafting'[g] # Idle, drafting'[g].id \notin spent', NEW c \in Marked(drafting'[g])
        PROVE  drafting'[g].marks[c] = Number(c)'
    <3>1. CASE g = h
      <4>1. c \in cs /\ c \in Ctx /\ drafting'[g].marks[c] = seq[h][c]
        BY <2>2, <2>4, <2>6, <3>1
      <4> QED BY <2>3, <4>1
    <3>2. CASE g # h
      BY <1>a, <1>b, <2>4, <2>6, <3>2 DEF MarksInv
    <3> QED BY <3>1, <3>2
  <2> QED BY <2>5, <2>6 DEF MarksInv, Marked
<1>3. ASSUME NEW h \in Hubs, BuildDone(h) PROVE MarksInv'
  <2> DEFINE b == Built(h)
  <2>1. /\ drafting[h] # Idle /\ drafting' = [drafting EXCEPT ![h] = Idle] /\ records' \subseteq records \cup {b}
    BY <1>3 DEF BuildDone
  <2>2. b.id = drafting[h].id /\ b.marks = drafting[h].marks
    BY DEF Built
  <2> HIDE DEF b
  <2>3. \A g \in Hubs : drafting'[g] # Idle => drafting'[g] = drafting[g]
    BY <2>1, <1>a
  <2>4. ASSUME NEW r \in records', r.signed, r.id \notin spent', NEW c \in Marked(r) PROVE r.marks[c] = Number(c)'
    <3>1. CASE r \in records
      BY <1>a, <1>b, <2>4, <3>1 DEF MarksInv
    <3>2. CASE r = b
      BY <1>a, <1>b, <2>1, <2>2, <2>4, <3>2 DEF MarksInv, Marked
    <3> QED BY <2>1, <3>1, <3>2
  <2>5. ASSUME NEW g \in Hubs, drafting'[g] # Idle, drafting'[g].id \notin spent', NEW c \in Marked(drafting'[g])
        PROVE  drafting'[g].marks[c] = Number(c)'
    BY <1>a, <1>b, <2>3, <2>5 DEF MarksInv
  <2> QED BY <2>4, <2>5 DEF MarksInv, Marked
<1>4. ASSUME NEW r \in records, Alter(r) PROVE MarksInv'
  <2> DEFINE x == [r EXCEPT !.signed = FALSE, !.marks = [c \in DOMAIN @ |-> 0]]
  <2>1. ~x.signed
    BY AlterType, <1>a
  <2>2. records' = records \cup {x} /\ drafting' = drafting
    BY <1>4 DEF Alter
  <2> HIDE DEF x
  <2> QED BY <1>1, <2>1, <2>2
<1>5. ASSUME NEW h \in Hubs, Restart(h) PROVE MarksInv'
  <2>1. records' = records /\ drafting' = [drafting EXCEPT ![h] = Idle]
    BY <1>5 DEF Restart, wire
  <2>2. \A g \in Hubs : drafting'[g] # Idle => drafting'[g] = drafting[g]
    BY <2>1, <1>a
  <2> QED BY <1>1, <2>1, <2>2
<1>6. CASE UNCHANGED <<records, drafting>>
  BY <1>1, <1>6
<1>7. ASSUME NEW h \in Hubs, Commit(h) \/ Adopt(h) \/ AckTransfer(h) PROVE MarksInv'
  BY <1>6, <1>7 DEF Commit, Adopt, AckTransfer, wire
<1>8. ASSUME NEW r \in records, Confirm(r) PROVE MarksInv'
  BY <1>6, <1>8 DEF Confirm
<1>9. ASSUME NEW h \in Hubs, NEW r \in records, Refuse(h, r) \/ Receive(h, r) \/ ReceiveRaises(h, r)
      PROVE  MarksInv'
  BY <1>6, <1>9 DEF Refuse, Receive, ReceiveRaises, wire
<1>10. ASSUME NEW h \in Hubs, NEW c \in Ctx, PersistRaises(h, c) PROVE MarksInv'
  BY <1>6, <1>10 DEF PersistRaises, wire
<1> QED
  BY <1>2, <1>3, <1>4, <1>5, <1>7, <1>8, <1>9, <1>10 DEF Next

\* What the logs get in a step that is no send.
LEMMA LogGets ==
  ASSUME TypeOK, Next, ~\E h \in Hubs, c \in Ctx : Persist(h, c) \/ PersistRaises(h, c)
  PROVE  \E h \in Hubs, s \in Seq(Line) :
           /\ LogStep(h, s) /\ \A i \in DOMAIN s : s[i].kind # "envelope.persisted"
           /\ \/ s \in Seq(Quiet)
              \/ \E g \in Hubs : Restart(g)
              \/ \E g \in Hubs, r \in records : LineReceived(g, r)
<1> DEFINE Gets(s) == \/ s \in Seq(Quiet)
                      \/ \E g \in Hubs : Restart(g)
                      \/ \E g \in Hubs, r \in records : LineReceived(g, r)
           Goal == \E h \in Hubs, s \in Seq(Line) :
                     LogStep(h, s) /\ (\A i \in DOMAIN s : s[i].kind # "envelope.persisted") /\ Gets(s)
<1>a. log \in [Hubs -> Seq(Line)] /\ records \subseteq Record
  BY DEF TypeOK
<1>1. PICK h \in Hubs, s \in Seq(Line) :
        /\ LogStep(h, s)
        /\ \/ s \in Seq(Quiet)
           \/ \E g \in Hubs : Restart(g)
           \/ \E g \in Hubs, r \in records : Receive(g, r) \/ ReceiveRaises(g, r)
  BY LogMoves
<1>2. ASSUME NEW g \in Hubs, NEW t \in Seq(Quiet), t \in Seq(Line), LogStep(g, t) PROVE Goal
  <2>1. \A i \in DOMAIN t : t[i] \in Quiet
    OBVIOUS
  <2>2. \A i \in DOMAIN t : t[i].kind # "envelope.persisted"
    BY <2>1 DEF Quiet
  <2> QED BY <1>2, <2>2
<1>3. ASSUME NEW e, e.kind # "envelope.persisted"
      PROVE  \A i \in DOMAIN <<e>> : <<e>>[i].kind # "envelope.persisted"
  BY <1>3
<1>4. ASSUME NEW g \in Hubs, Restart(g) PROVE Goal
  <2> DEFINE e == [kind |-> "hub.boot"]
  <2>1. e \in Line /\ e.kind # "envelope.persisted" /\ log' = [log EXCEPT ![g] = Append(@, e)]
    BY <1>4, LineTypes DEF Restart
  <2> HIDE DEF e
  <2>2. <<e>> \in Seq(Line) /\ LogStep(g, <<e>>) /\ \A i \in DOMAIN <<e>> : <<e>>[i].kind # "envelope.persisted"
    BY <1>a, <1>3, <2>1, OneLogStep
  <2> QED BY <1>4, <2>2
<1>5. ASSUME NEW g \in Hubs, NEW r \in records, LineReceived(g, r) PROVE Goal
  <2> DEFINE e == Arrived(r)
  <2>1. e \in Line
    BY CallLines
  <2>2. e.kind # "envelope.persisted"
    BY DEF Arrived
  <2>3. log' = [log EXCEPT ![g] = Append(@, e)]
    BY <1>5 DEF LineReceived
  <2> HIDE DEF e
  <2>4. <<e>> \in Seq(Line) /\ LogStep(g, <<e>>) /\ \A i \in DOMAIN <<e>> : <<e>>[i].kind # "envelope.persisted"
    BY <1>a, <1>3, <2>1, <2>2, <2>3, OneLogStep
  <2> QED BY <1>5, <2>4
<1>6. ASSUME NEW g \in Hubs, NEW r \in records, Receive(g, r) \/ ReceiveRaises(g, r) PROVE Goal
  <2>1. LineReceived(g, r) \/ UNCHANGED log
    BY <1>6, <1>a, RaisesLogStep DEF Receive, ReceiveRaises, LineReceived
  <2>2. CASE UNCHANGED log
    <3>1. <<>> \in Seq(Quiet) /\ <<>> \in Seq(Line) /\ LogStep(g, <<>>)
      BY <1>a, <2>2, NoLogStep
    <3> QED BY <1>2, <3>1
  <2> QED BY <1>5, <2>1, <2>2
<1> HIDE DEF Goal
<1>7. Goal
  BY <1>1, <1>2, <1>4, <1>6
<1> QED
  BY <1>7 DEF Goal

\* The envelopes counted stay the numbers given while no envelope is logged,
LEMMA CountStays ==
  ASSUME TypeOK, CountInv, \A c \in Ctx : Number(c)' = Number(c),
         NEW h \in Hubs, NEW s \in Seq(Line), LogStep(h, s), \A i \in DOMAIN s : s[i].kind # "envelope.persisted"
  PROVE  CountInv'
<1> SUFFICES ASSUME NEW c \in Ctx
             PROVE  /\ IsFiniteSet(Sent(c, TRUE)') /\ Cardinality(Sent(c, TRUE)') = Number(c)'
                    /\ NumbersOf(Sent(c, TRUE))' = 1 .. Number(c)'
                    /\ NumbersOf(Sent(c, FALSE))' \subseteq 1 .. Number(c)' + 1
  BY DEF CountInv
<1>1. \A b \in BOOLEAN : Sent(c, b)' = Sent(c, b) /\ NumbersOf(Sent(c, b))' = NumbersOf(Sent(c, b))
  BY SentStays
<1> QED
  BY <1>1 DEF CountInv

\* and as one is, its append returned or raised.
LEMMA CountGoesOn ==
  ASSUME TypeOK, ItemsInv, CountInv, HandedWithCare, NEW h \in Hubs, NEW k \in Ctx, NEW b \in BOOLEAN,
         LineSent(h, k, b)
  PROVE  CountInv'
<1> DEFINE e == Numbered(h, k, b)
           n == Len(log[h]) + 1
<1>a. log \in [Hubs -> Seq(Line)]
  BY DEF TypeOK
<1>1. /\ seq[h][k] = Number(k) /\ Number(k) \in Nat /\ Number(k)' = Number(k) + (IF b THEN 1 ELSE 0)
      /\ \A c \in Ctx : c # k => Number(c)' = Number(c)
  BY NumberGoesOn
<1>2. log' = [log EXCEPT ![h] = Append(@, e)]
  BY DEF LineSent
<1>3. e.kind = "envelope.persisted" /\ e.ctx = k /\ e.seq = Number(k) + 1 /\ e.returned = b
  BY <1>1 DEF Numbered
<1> HIDE DEF e
<1>4. ASSUME NEW T, NEW a \in Seq(T), NEW x
      PROVE  /\ Len(a) + 1 \notin DOMAIN a /\ DOMAIN Append(a, x) = DOMAIN a \cup {Len(a) + 1}
             /\ Append(a, x)[Len(a) + 1] = x /\ \A i \in DOMAIN a : Append(a, x)[i] = a[i]
  OBVIOUS
<1>5. /\ n \notin DOMAIN log[h] /\ DOMAIN log'[h] = DOMAIN log[h] \cup {n} /\ log'[h][n] = e
      /\ \A i \in DOMAIN log[h] : log'[h][i] = log[h][i]
      /\ \A g \in Hubs : g # h => log'[g] = log[g]
  <2>1. log[h] \in Seq(Line) /\ log'[h] = Append(log[h], e)
    BY <1>a, <1>2
  <2> QED BY <1>a, <1>2, <1>4, <2>1
<1> HIDE DEF n
<1>6. ASSUME NEW c \in Ctx, NEW x \in BOOLEAN, NEW g, NEW i
      PROVE  <<g, i>> \in SentAt(log', c, x) <=>
               <<g, i>> \in SentAt(log, c, x) \/ (c = k /\ x = b /\ g = h /\ i = n)
  <2>1. <<g, i>> \in SentAt(log, c, x) <=>
          /\ g \in Hubs /\ i \in DOMAIN log[g]
          /\ log[g][i].kind = "envelope.persisted" /\ log[g][i].ctx = c /\ log[g][i].returned = x
    BY SentPlaces
  <2>2. <<g, i>> \in SentAt(log', c, x) <=>
          /\ g \in Hubs /\ i \in DOMAIN log'[g]
          /\ log'[g][i].kind = "envelope.persisted" /\ log'[g][i].ctx = c /\ log'[g][i].returned = x
    BY SentPlaces
  <2>3. CASE g # h
    BY <1>5, <2>1, <2>2, <2>3
  <2>4. CASE g = h
    BY <1>3, <1>5, <2>1, <2>2, <2>4
  <2> QED BY <2>3, <2>4
<1>7. ASSUME NEW c \in Ctx, NEW x \in BOOLEAN
      PROVE  Sent(c, x)' = Sent(c, x) \cup (IF c = k /\ x = b THEN {<<h, n>>} ELSE {})
  <2>1. /\ \A p \in SentAt(log, c, x) : p = <<p[1], p[2]>>
        /\ \A p \in SentAt(log', c, x) : p = <<p[1], p[2]>>
    BY SentPlaces
  <2>2. SentAt(log', c, x) = SentAt(log, c, x) \cup (IF c = k /\ x = b THEN {<<h, n>>} ELSE {})
    BY <1>6, <2>1
  <2> QED BY <2>2, SentIs
<1>8. ASSUME NEW c \in Ctx, NEW x \in BOOLEAN, NEW p \in Sent(c, x)
      PROVE  log'[p[1]][p[2]] = log[p[1]][p[2]] /\ p # <<h, n>>
  <2>1. p = <<p[1], p[2]>> /\ p[1] \in Hubs /\ p[2] \in DOMAIN log[p[1]]
    BY <1>8, SentIs, SentPlaces
  <2> QED BY <1>5, <2>1
<1>9. ASSUME NEW c \in Ctx, NEW x \in BOOLEAN
      PROVE  NumbersOf(Sent(c, x))' =
               NumbersOf(Sent(c, x)) \cup (IF c = k /\ x = b THEN {Number(k) + 1} ELSE {})
  <2> DEFINE q == <<h, n>>
             S == Sent(c, x)
             new == c = k /\ x = b
  <2>1. log'[q[1]][q[2]].seq = Number(k) + 1
    BY <1>3, <1>5
  <2>2. \A p \in S : log'[p[1]][p[2]].seq = log[p[1]][p[2]].seq
    BY <1>8
  <2>3. Sent(c, x)' = S \cup (IF new THEN {q} ELSE {})
    BY <1>7
  <2>4. NumbersOf(Sent(c, x))' = {log'[p[1]][p[2]].seq : p \in Sent(c, x)'}
    BY DEF NumbersOf
  <2>5. NumbersOf(Sent(c, x)) = {log[p[1]][p[2]].seq : p \in S}
    BY DEF NumbersOf
  <2> HIDE DEF S, q, new
  <2>6. {log'[p[1]][p[2]].seq : p \in S \cup (IF new THEN {q} ELSE {})} =
          {log[p[1]][p[2]].seq : p \in S} \cup (IF new THEN {Number(k) + 1} ELSE {})
    <3>1. CASE new
      BY <2>1, <2>2, <3>1
    <3>2. CASE ~new
      BY <2>2, <3>2
    <3> QED BY <3>1, <3>2
  <2> QED BY <2>3, <2>4, <2>5, <2>6 DEF new
<1> SUFFICES ASSUME NEW c \in Ctx
             PROVE  /\ IsFiniteSet(Sent(c, TRUE)') /\ Cardinality(Sent(c, TRUE)') = Number(c)'
                    /\ NumbersOf(Sent(c, TRUE))' = 1 .. Number(c)'
                    /\ NumbersOf(Sent(c, FALSE))' \subseteq 1 .. Number(c)' + 1
  BY DEF CountInv
<1>10. /\ IsFiniteSet(Sent(c, TRUE)) /\ Cardinality(Sent(c, TRUE)) = Number(c)
       /\ NumbersOf(Sent(c, TRUE)) = 1 .. Number(c)
       /\ NumbersOf(Sent(c, FALSE)) \subseteq 1 .. Number(c) + 1
  BY DEF CountInv
<1>11. TRUE \in BOOLEAN /\ FALSE \in BOOLEAN
  OBVIOUS
<1>12. CASE c # k
  <2>1. Sent(c, TRUE)' = Sent(c, TRUE)
    BY <1>7, <1>11, <1>12
  <2>2. NumbersOf(Sent(c, TRUE))' = NumbersOf(Sent(c, TRUE)) /\ NumbersOf(Sent(c, FALSE))' = NumbersOf(Sent(c, FALSE))
    BY <1>9, <1>11, <1>12
  <2> QED BY <1>1, <1>10, <1>12, <2>1, <2>2
<1>13. CASE c = k /\ b
  <2> DEFINE S == Sent(c, TRUE)
             q == <<h, n>>
  <2>1. Sent(c, TRUE)' = S \cup {q} /\ NumbersOf(Sent(c, TRUE))' = NumbersOf(S) \cup {Number(c) + 1}
    BY <1>7, <1>9, <1>13
  <2>2. NumbersOf(Sent(c, FALSE))' = NumbersOf(Sent(c, FALSE))
    BY <1>9, <1>11, <1>13
  <2>3. q \notin S /\ IsFiniteSet(S) /\ Cardinality(S) = Number(c) /\ NumbersOf(S) = 1 .. Number(c)
    BY <1>8, <1>10
  <2> HIDE DEF S, q
  <2>4. IsFiniteSet(S \cup {q}) /\ Cardinality(S \cup {q}) = Number(c) + 1
    BY <2>3, FS_AddElement
  <2>5. Number(c) \in Nat /\ Number(c)' = Number(c) + 1
    BY <1>1, <1>13
  <2>6. (1 .. Number(c)) \cup {Number(c) + 1} = 1 .. Number(c) + 1
    BY <2>5
  <2>7. 1 .. Number(c) + 1 \subseteq 1 .. Number(c)' + 1
    BY <2>5
  <2> QED BY <1>10, <2>1, <2>2, <2>3, <2>4, <2>5, <2>6, <2>7
<1>14. CASE c = k /\ ~b
  <2>1. Sent(c, TRUE)' = Sent(c, TRUE) /\ NumbersOf(Sent(c, TRUE))' = NumbersOf(Sent(c, TRUE))
    BY <1>7, <1>9, <1>11, <1>14
  <2>2. NumbersOf(Sent(c, FALSE))' = NumbersOf(Sent(c, FALSE)) \cup {Number(c) + 1}
    BY <1>9, <1>11, <1>14
  <2>3. Number(c) \in Nat /\ Number(c)' = Number(c)
    BY <1>1, <1>14
  <2>4. Number(c) + 1 \in 1 .. Number(c) + 1
    BY <2>3
  <2> QED BY <1>10, <2>1, <2>2, <2>3, <2>4
<1> QED
  BY <1>12, <1>13, <1>14

\* A walk expects what it did while no record comes in.
LEMMA ExpectsStays ==
  ASSUME TypeOK, ReceivedInv, ApartInv, MarksInv, Next, \A c \in Ctx : Number(c)' = Number(c),
         ~\E g \in Hubs, r \in records : Receive(g, r),
         NEW h \in Hubs, NEW w, NEW L, Expects(w, L, h)
  PROVE  Expects(w, L, h)'
<1>a. adopting \in [Hubs -> {Idle} \cup [step : {"adopt", "ack"}, record : Record]]
  BY DEF TypeOK
<1>1. /\ Counted(w, L)
      /\ \A c \in Ctx : owner[c].hub = h => Follows(w, L, c, Number(c))
      /\ adopting[h] # Idle /\ adopting[h].step = "adopt" =>
           \A c \in Marked(adopting[h].record) : Due(w, L, c, adopting[h].record.marks[c])
  BY DEF Expects
<1>2. ASSUME /\ \A c \in Ctx : owner'[c].hub = h => Follows(w, L, c, Number(c))
             /\ adopting'[h] # Idle /\ adopting'[h].step = "adopt" =>
                  \A c \in Marked(adopting'[h].record) : Due(w, L, c, adopting'[h].record.marks[c])
      PROVE  Expects(w, L, h)'
  <2>1. \A c \in Ctx : owner'[c].hub = h => Follows(w, L, c, Number(c)')
    BY <1>2
  <2> QED BY <1>1, <1>2, <2>1 DEF Expects, Marked
<1>3. ASSUME owner' = owner, \A g \in Hubs : adopting'[g] # Idle => adopting'[g] = adopting[g]
      PROVE  Expects(w, L, h)'
  BY <1>1, <1>2, <1>3
<1>4. ASSUME NEW g \in Hubs, owner' = owner, adopting' = [adopting EXCEPT ![g] = Idle] PROVE Expects(w, L, h)'
  <2>1. \A x \in Hubs : adopting'[x] # Idle => adopting'[x] = adopting[x]
    BY <1>4, <1>a
  <2> QED BY <1>3, <1>4, <2>1
<1>5. ASSUME NEW g \in Hubs, Adopt(g), ~UNCHANGED <<seq, items, owner, spent>> PROVE Expects(w, L, h)'
  <2> DEFINE r == adopting[g].record
  <2>1. /\ adopting[g] # Idle /\ adopting[g].step = "adopt"
        /\ \A c \in Ctx : owner'[c] = IF c \in Marked(r) THEN [hub |-> g, by |-> r.id] ELSE owner[c]
    BY <1>5, AdoptDoes
  <2>2. adopting' = [adopting EXCEPT ![g].step = "ack"]
    BY <1>5 DEF Adopt
  <2>3. r \in records /\ r.signed /\ r.id \notin spent
    BY <2>1 DEF ReceivedInv, Sound, ApartInv
  <2>4. \A c \in Marked(r) : r.marks[c] = Number(c)
    BY <2>3 DEF MarksInv
  <2>5. adopting[g] \in [step : {"adopt", "ack"}, record : Record]
    BY <2>1, <1>a
  <2>6. adopting'[g].step = "ack" /\ \A x \in Hubs : x # g => adopting'[x] = adopting[x]
    <3>1. adopting'[g] = [adopting[g] EXCEPT !.step = "ack"] /\ \A x \in Hubs : x # g => adopting'[x] = adopting[x]
      BY <2>2, <1>a
    <3> QED BY <2>5, <3>1
  <2>7. h = g => \A c \in Marked(r) : Due(w, L, c, r.marks[c])
    BY <1>1, <2>1
  <2> HIDE DEF r
  <2>8. ASSUME NEW c \in Ctx, owner'[c].hub = h PROVE Follows(w, L, c, Number(c))
    <3>1. CASE c \in Marked(r)
      <4>1. Due(w, L, c, Number(c))
        BY <2>1, <2>4, <2>7, <2>8, <3>1
      <4> QED BY <4>1 DEF Due, Follows
    <3>2. CASE c \notin Marked(r)
      BY <1>1, <2>1, <2>8, <3>2
    <3> QED BY <3>1, <3>2
  <2>9. ASSUME adopting'[h] # Idle, adopting'[h].step = "adopt"
        PROVE  \A c \in Marked(adopting'[h].record) : Due(w, L, c, adopting'[h].record.marks[c])
    <3>1. h # g /\ adopting'[h] = adopting[h]
      BY <2>6, <2>9
    <3> QED BY <1>1, <2>9, <3>1
  <2> QED BY <1>2, <2>8, <2>9
<1>6. ASSUME NEW g \in Hubs, Adopt(g) PROVE Expects(w, L, h)'
  <2>1. CASE UNCHANGED <<seq, items, owner, spent>>
    <3>1. owner' = owner /\ (adopting' = [adopting EXCEPT ![g] = Idle]
                             \/ \A c \in Ctx : c \notin DOMAIN adopting[g].record.marks)
      <4>1. adopting[g].step = "adopt" /\ adopting[g] # Idle
        BY <1>6 DEF Adopt
      <4>2. adopting[g].record.id \notin spent
        BY <4>1 DEF ApartInv
      <4>3. adopting' = [adopting EXCEPT ![g] = Idle] \/ spent' = spent \cup Begun(DOMAIN adopting[g].record.marks)
        BY <1>6 DEF Adopt
      <4>4. adopting[g].record \in records
        BY <4>1 DEF ReceivedInv
      <4> QED BY <2>1, <4>2, <4>3, <4>4 DEF Begun
    <3>2. CASE adopting' = [adopting EXCEPT ![g] = Idle]
      BY <1>4, <3>1, <3>2
    <3>3. CASE \A c \in Ctx : c \notin DOMAIN adopting[g].record.marks
      <4>1. adopting[g].record \in Record
        BY <1>6, <1>a DEF Adopt, Idle
      <4> QED BY <3>3, <4>1, RecordTypes, MarksType
    <3> QED BY <3>1, <3>2, <3>3
  <2> QED BY <1>5, <1>6, <2>1
<1>7. CASE UNCHANGED <<owner, adopting>>
  BY <1>3, <1>7
<1>8. ASSUME NEW g \in Hubs, Commit(g) \/ BuildDone(g) PROVE Expects(w, L, h)'
  BY <1>7, <1>8 DEF Commit, BuildDone, ghosts
<1>9. ASSUME NEW g \in Hubs, AckTransfer(g) \/ Restart(g) PROVE Expects(w, L, h)'
  BY <1>4, <1>9 DEF AckTransfer, Restart, ghosts
<1>10. ASSUME NEW g \in Hubs, NEW c \in Ctx, Persist(g, c) \/ PersistRaises(g, c) PROVE Expects(w, L, h)'
  BY <1>7, <1>10 DEF Persist, PersistRaises, ghosts
<1>11. ASSUME NEW g \in Hubs, NEW cs \in (SUBSET Ctx) \ {{}}, BuildRead(g, cs) PROVE Expects(w, L, h)'
  BY <1>7, <1>11 DEF BuildRead, ghosts
<1>12. ASSUME NEW r \in records, Alter(r) \/ Confirm(r) PROVE Expects(w, L, h)'
  BY <1>7, <1>12 DEF Alter, Confirm, ghosts
<1>13. ASSUME NEW g \in Hubs, NEW r \in records, Refuse(g, r) \/ ReceiveRaises(g, r) PROVE Expects(w, L, h)'
  BY <1>7, <1>13 DEF Refuse, ReceiveRaises, ghosts
<1> QED
  BY <1>6, <1>8, <1>9, <1>10, <1>11, <1>12, <1>13 DEF Next

\* The walks over the logs that a step leaves.
LEMMA WalksNext ==
  ASSUME \A g \in Hubs : \E w, M : w = K!Walk(log'[g], Ctx) /\ M = log'[g] /\ Expects(w, M, g)'
  PROVE  WalkInv'
<1>1. ASSUME NEW g \in Hubs
      PROVE  /\ Counted(K!Walk(log'[g], Ctx), log'[g])
             /\ \A c \in Ctx : owner'[c].hub = g => Follows(K!Walk(log'[g], Ctx), log'[g], c, Number(c)')
             /\ adopting'[g] # Idle /\ adopting'[g].step = "adopt" =>
                  \A c \in Marked(adopting'[g].record) :
                    Due(K!Walk(log'[g], Ctx), log'[g], c, adopting'[g].record.marks[c])
  <2>1. PICK w, M : w = K!Walk(log'[g], Ctx) /\ M = log'[g] /\ Expects(w, M, g)'
    OBVIOUS
  <2>2. /\ Counted(w, M)
        /\ \A c \in Ctx : owner'[c].hub = g => Follows(w, M, c, Number(c)')
        /\ adopting'[g] # Idle /\ adopting'[g].step = "adopt" =>
             \A c \in Marked(adopting'[g].record) : Due(w, M, c, adopting'[g].record.marks[c])
    BY <2>1 DEF Expects, Marked
  <2> QED BY <2>1, <2>2, Zenon
<1> QED
  BY <1>1, Zenon DEF WalkInv, Expects, Marked

\* One line more on the log of h: the walk over it passes that line, and the other
\* hubs' walks are what they were.
LEMMA WalksMove ==
  ASSUME TypeOK, WalkInv, NEW h \in Hubs, NEW e \in Line, log' = [log EXCEPT ![h] = Append(@, e)],
         \A g \in Hubs : g # h => \A w, L : Expects(w, L, g) => Expects(w, L, g)',
         \A w, L : L \in Seq(Line) /\ Expects(w, L, h) => Expects(K!Pass(w, e), L \o <<e>>, h)'
  PROVE  WalkInv'
<1>a. log \in [Hubs -> Seq(Line)]
  BY DEF TypeOK
<1>1. log' = [log EXCEPT ![h] = @ \o <<e>>]
  BY <1>a, OneLogStep DEF LogStep
<1> SUFFICES ASSUME NEW g \in Hubs
             PROVE  \E w, M : w = K!Walk(log'[g], Ctx) /\ M = log'[g] /\ Expects(w, M, g)'
  BY WalksNext
<1>2. PICK x, L : x = K!Walk(log[g], Ctx) /\ L = log[g] /\ Expects(x, L, g)
  BY DEF WalkInv
<1>3. CASE g # h
  <2>1. Expects(x, L, g)'
    BY <1>2, <1>3
  <2>2. log'[g] = log[g]
    BY <1>a, <1>1, <1>3
  <2> QED BY <1>2, <2>1, <2>2
<1>4. CASE g = h
  <2>1. PICK y, M : y = K!Pass(x, e) /\ M = L \o <<e>>
    OBVIOUS
  <2>2. L \in Seq(Line) /\ log'[g] = M
    BY <1>a, <1>1, <1>2, <1>4, <2>1
  <2>3. Expects(y, M, g)'
    BY <1>2, <1>4, <2>1, <2>2
  <2>4. y = K!Walk(log'[g], Ctx)
    <3>1. K!Walk(L \o <<e>>, Ctx) = K!Pass(K!Walk(L, Ctx), e)
      BY <2>2, WalkNext
    <3> QED BY <1>2, <2>1, <2>2, <3>1
  <2> QED BY <2>2, <2>3, <2>4
<1> QED
  BY <1>3, <1>4

\* A boot of a hub that has no context.
LEMMA WalkBoot ==
  ASSUME TypeOK, ReceivedInv, ApartInv, MarksInv, WalkInv, HandedWithCare, Next,
         \A c \in Ctx : Number(c)' = Number(c),
         ~\E g \in Hubs, r \in records : Receive(g, r), NEW h \in Hubs, Restart(h)
  PROVE  WalkInv'
<1> DEFINE e == [kind |-> "hub.boot"]
<1>1. e \in Line /\ e.kind = "hub.boot" /\ log' = [log EXCEPT ![h] = Append(@, e)]
  BY LineTypes DEF Restart
<1>2. \A w \in Walks : K!Pass(w, e) \in Walks /\ K!Pass(w, e).gaps = w.gaps
  BY PassDoes
<1> HIDE DEF e
<1>3. \A c \in Ctx : owner'[c].hub # h
  BY DEF Restart, HandedWithCare, ghosts
<1>4. adopting'[h] = Idle
  BY DEF Restart, TypeOK
<1>5. ASSUME NEW w, NEW L \in Seq(Line), Expects(w, L, h) PROVE Expects(K!Pass(w, e), L \o <<e>>, h)'
  <2>1. Repeats(L \o <<e>>) = Repeats(L)
    BY <1>1, RepeatsNext
  <2>2. Counted(K!Pass(w, e), L \o <<e>>)
    BY <1>2, <1>5, <2>1 DEF Expects, Counted
  <2> QED BY <1>3, <1>4, <2>2 DEF Expects
<1>6. \A g \in Hubs : \A w, L : Expects(w, L, g) => Expects(w, L, g)'
  BY ExpectsStays
<1> QED
  BY <1>1, <1>5, <1>6, WalksMove

\* Lines a walk does not look at.
LEMMA WalkQuiet ==
  ASSUME TypeOK, ReceivedInv, ApartInv, MarksInv, WalkInv, Next, \A c \in Ctx : Number(c)' = Number(c),
         ~\E g \in Hubs, r \in records : Receive(g, r),
         NEW h \in Hubs, NEW s \in Seq(Quiet), LogStep(h, s)
  PROVE  WalkInv'
<1>a. log \in [Hubs -> Seq(Line)]
  BY DEF TypeOK
<1>1. log' = [log EXCEPT ![h] = @ \o s]
  BY DEF LogStep
<1> SUFFICES ASSUME NEW g \in Hubs
             PROVE  \E w, M : w = K!Walk(log'[g], Ctx) /\ M = log'[g] /\ Expects(w, M, g)'
  BY WalksNext
<1>2. PICK x, L : x = K!Walk(log[g], Ctx) /\ L = log[g] /\ Expects(x, L, g)
  BY DEF WalkInv
<1>3. CASE g # h
  <2>1. log'[g] = L /\ Expects(x, L, g)'
    BY <1>a, <1>1, <1>2, <1>3, ExpectsStays
  <2> QED BY <1>2, <2>1
<1>4. CASE g = h
  <2>1. PICK M : M = L \o s
    OBVIOUS
  <2>2. L \in Seq(Line) /\ log'[g] = M
    BY <1>a, <1>1, <1>2, <1>4, <2>1
  <2>3. /\ K!Walk(M, Ctx) = x /\ Repeats(M) = Repeats(L)
        /\ \A c : Doubtful(M, c) <=> Doubtful(L, c)
    BY <1>2, <2>1, <2>2, WalkOver, RepeatsOver
  <2>4. Expects(x, M, g)
    BY <1>2, <2>3 DEF Expects, Counted, Due, Follows
  <2>5. Expects(x, M, g)'
    BY <2>4, ExpectsStays
  <2> QED BY <2>2, <2>3, <2>5
<1> QED
  BY <1>3, <1>4

\* The line of a record that came in: the walk expects the number after its mark.
LEMMA WalkReceived ==
  ASSUME TypeOK, MarksInv, WalkInv, HandedWithCare, \A c \in Ctx : Number(c)' = Number(c),
         NEW h \in Hubs, NEW r \in records, LineReceived(h, r)
  PROVE  WalkInv'
<1> DEFINE e == Arrived(r)
<1>1. /\ e \in Line /\ r \in Record /\ r.id \in Nat /\ r.marks \in AnyMarks
      /\ log' = [log EXCEPT ![h] = Append(@, e)]
  BY CallLines DEF LineReceived
<1>2. e.kind # "envelope.persisted" /\ \A c : Sets(e, c) <=> c \in Marked(r)
  BY DEF Arrived, Sets, Marked
<1>3. r.signed /\ r.id \notin spent /\ owner' = owner
  BY DEF LineReceived, Receive, ReceiveRaises, HandedWithCare, MayPresent, ghosts
<1>4. /\ \A g \in Hubs : g # h => adopting'[g] = adopting[g]
      /\ adopting'[h] = Idle \/ adopting'[h].record = r
  BY DEF LineReceived, Receive, ReceiveRaises, TypeOK
<1>5. Marked(r) \subseteq Ctx /\ \A c \in Marked(r) : r.marks[c] = Number(c) /\ r.marks[c] \in Nat
  BY <1>1, <1>3, MarksType DEF MarksInv, Marked
<1>6. ASSUME NEW w \in Walks
      PROVE  LET v == K!Pass(w, e)
             IN  /\ v \in Walks /\ v.gaps = w.gaps /\ v.booted = w.booted \ Marked(r)
                 /\ \A c \in Ctx : v.expected[c] = IF c \in Marked(r) THEN r.marks[c] + 1 ELSE w.expected[c]
  <2>1. \A i \in Nat, m \in AnyMarks :
          LET v == K!Pass(w, [kind |-> "territory.transfer.received", id |-> i, marks |-> m])
          IN  /\ v \in Walks /\ v.gaps = w.gaps /\ v.booted = w.booted \ DOMAIN m
              /\ \A c \in Ctx : v.expected[c] = IF c \in DOMAIN m THEN m[c] + 1 ELSE w.expected[c]
    BY PassDoes
  <2> QED BY <1>1, <2>1, Zenon DEF Marked, Arrived
<1> HIDE DEF e
<1>7. ASSUME NEW g \in Hubs, g # h, NEW w, NEW L, Expects(w, L, g) PROVE Expects(w, L, g)'
  BY <1>3, <1>4, <1>7 DEF Expects, Marked
<1>8. ASSUME NEW w, NEW L \in Seq(Line), Expects(w, L, h) PROVE Expects(K!Pass(w, e), L \o <<e>>, h)'
  <2>1. PICK v, M : v = K!Pass(w, e) /\ M = L \o <<e>>
    OBVIOUS
  <2>2. /\ w \in Walks /\ Counted(w, L)
        /\ \A c \in Ctx : owner[c].hub = h => Follows(w, L, c, Number(c))
    BY <1>8 DEF Expects, Counted
  <2>3. /\ v \in Walks /\ v.gaps = w.gaps /\ v.booted = w.booted \ Marked(r)
        /\ \A c \in Ctx : v.expected[c] = IF c \in Marked(r) THEN r.marks[c] + 1 ELSE w.expected[c]
    BY <1>6, <2>1, <2>2
  <2>4. /\ Repeats(M) = Repeats(L)
        /\ \A c : Doubtful(M, c) <=> c \notin Marked(r) /\ Doubtful(L, c)
    BY <1>2, <2>1, RepeatsNext
  <2>5. Counted(v, M)
    BY <2>2, <2>3, <2>4 DEF Counted
  <2>6. \A c \in Marked(r) : Due(v, M, c, r.marks[c])
    BY <1>5, <2>3, <2>4 DEF Due
  <2>7. ASSUME NEW c \in Ctx, owner'[c].hub = h PROVE Follows(v, M, c, Number(c)')
    <3>1. CASE c \in Marked(r)
      <4>1. Due(v, M, c, Number(c)')
        BY <1>5, <2>6, <3>1
      <4> QED BY <4>1 DEF Due, Follows
    <3>2. CASE c \notin Marked(r)
      <4>1. Follows(w, L, c, Number(c)')
        BY <1>3, <2>2, <2>7
      <4> QED BY <2>3, <2>4, <3>2, <4>1 DEF Follows
    <3> QED BY <3>1, <3>2
  <2>8. Expects(v, M, h)'
    BY <1>4, <2>5, <2>6, <2>7 DEF Expects, Marked
  <2> QED BY <2>1, <2>8
<1> QED
  BY <1>1, <1>7, <1>8, WalksMove

\* The line of an envelope: its number is the one the walk expects, or repeats the one
\* before it.
LEMMA WalkSent ==
  ASSUME TypeOK, ReceivedInv, ApartInv, ItemsInv, WalkInv, HandedWithCare,
         NEW h \in Hubs, NEW k \in Ctx, NEW b \in BOOLEAN, LineSent(h, k, b)
  PROVE  WalkInv'
<1> DEFINE n == Number(k) + 1
<1>0. PICK e : e = Numbered(h, k, b)
  OBVIOUS
<1>1. /\ owner[k].hub = h /\ seq[h][k] = Number(k) /\ Number(k) \in Nat
      /\ Number(k)' = Number(k) + (IF b THEN 1 ELSE 0)
      /\ \A c \in Ctx : c # k => Number(c)' = Number(c)
  BY NumberGoesOn
<1>2. /\ e \in Line /\ log' = [log EXCEPT ![h] = Append(@, e)] /\ UNCHANGED <<owner, adopting>>
      /\ \A r \in records : k \in Marked(r) => r.id \in spent
  BY <1>0, CallLines DEF LineSent, Persist, PersistRaises, HandedWithCare, MaySend, ghosts, Marked
<1>3. e = [kind |-> "envelope.persisted", ctx |-> k, seq |-> n, returned |-> b] /\ n \in Nat \ {0}
  BY <1>0, <1>1 DEF Numbered
<1>4. e.kind = "envelope.persisted" /\ e.ctx = k /\ e.returned = b /\ \A c : Sets(e, c) <=> c = k
  BY <1>3 DEF Sets
<1>5. ASSUME NEW w \in Walks, k \notin w.booted
      PROVE  LET v == K!Pass(w, e)
             IN  /\ v \in Walks /\ v.booted = w.booted \ {k}
                 /\ v.gaps = w.gaps + (IF n = w.expected[k] \/ (n = 1 /\ w.expected[k] = 0) THEN 0 ELSE 1)
                 /\ \A c \in Ctx : v.expected[c] = IF c = k THEN n + 1 ELSE w.expected[c]
  BY <1>3, <1>5, PassDoes
<1> HIDE DEF n
<1>6. ASSUME NEW g \in Hubs, adopting[g] # Idle, adopting[g].step = "adopt"
      PROVE  k \notin Marked(adopting[g].record) /\ Marked(adopting[g].record) \subseteq Ctx
  <2>1. adopting[g].record \in records /\ adopting[g].record \in Record /\ adopting[g].record.id \notin spent
    BY <1>6 DEF ReceivedInv, ApartInv, TypeOK
  <2> QED BY <1>2, <2>1, RecordTypes, MarksType DEF Marked
<1>7. ASSUME NEW g \in Hubs, g # h, NEW w, NEW L, Expects(w, L, g) PROVE Expects(w, L, g)'
  BY <1>1, <1>2, <1>7 DEF Expects, Marked
<1>8. ASSUME NEW w, NEW L \in Seq(Line), Expects(w, L, h) PROVE Expects(K!Pass(w, e), L \o <<e>>, h)'
  <2>1. PICK v, M : v = K!Pass(w, e) /\ M = L \o <<e>>
    OBVIOUS
  <2>2. /\ w \in Walks /\ Counted(w, L)
        /\ \A c \in Ctx : owner[c].hub = h => Follows(w, L, c, Number(c))
        /\ adopting[h] # Idle /\ adopting[h].step = "adopt" =>
             \A c \in Marked(adopting[h].record) : Due(w, L, c, adopting[h].record.marks[c])
    BY <1>8 DEF Expects, Counted
  <2>3. Follows(w, L, k, Number(k))
    BY <1>1, <2>2
  <2>4. /\ v \in Walks /\ v.booted = w.booted \ {k}
        /\ v.gaps = w.gaps + (IF n = w.expected[k] \/ (n = 1 /\ w.expected[k] = 0) THEN 0 ELSE 1)
        /\ \A c \in Ctx : v.expected[c] = IF c = k THEN n + 1 ELSE w.expected[c]
    BY <1>5, <2>1, <2>2, <2>3 DEF Follows
  <2>5. /\ Repeats(M) = Repeats(L) \cup (IF Doubtful(L, k) THEN {Len(L) + 1} ELSE {})
        /\ Len(L) + 1 \notin Repeats(L)
        /\ \A c : Doubtful(M, c) <=> IF c = k THEN ~b ELSE Doubtful(L, c)
    BY <1>4, <2>1, RepeatsNext
  <2>6. Counted(v, M)
    <3>1. CASE Doubtful(L, k)
      <4>1. v.gaps = w.gaps + 1
        BY <1>1, <2>3, <2>4, <3>1 DEF Follows, n
      <4>2. /\ IsFiniteSet(Repeats(L) \cup {Len(L) + 1})
            /\ Cardinality(Repeats(L) \cup {Len(L) + 1}) = Cardinality(Repeats(L)) + 1
        BY <2>2, <2>5, FS_AddElement DEF Counted
      <4> QED BY <2>2, <2>4, <2>5, <3>1, <4>1, <4>2 DEF Counted
    <3>2. CASE ~Doubtful(L, k)
      <4>1. v.gaps = w.gaps + 0 /\ w.gaps \in Nat
        BY <1>1, <2>2, <2>3, <2>4, <3>2 DEF Follows, Walks, n
      <4> QED BY <2>2, <2>4, <2>5, <3>2, <4>1 DEF Counted
    <3> QED BY <3>1, <3>2
  <2>7. ASSUME NEW c \in Ctx, owner'[c].hub = h PROVE Follows(v, M, c, Number(c)')
    <3>1. CASE c = k
      <4>1. v.expected[k] = Number(k) + 1 + 1 /\ (Doubtful(M, k) <=> ~b) /\ k \notin v.booted
        BY <2>4, <2>5 DEF n
      <4> QED BY <1>1, <3>1, <4>1 DEF Follows
    <3>2. CASE c # k
      <4>1. Follows(w, L, c, Number(c)')
        BY <1>1, <1>2, <2>2, <2>7, <3>2
      <4> QED BY <2>4, <2>5, <3>2, <4>1 DEF Follows
    <3> QED BY <3>1, <3>2
  <2>8. ASSUME adopting[h] # Idle, adopting[h].step = "adopt", NEW c \in Marked(adopting[h].record)
        PROVE  Due(v, M, c, adopting[h].record.marks[c])
    BY <1>6, <2>2, <2>4, <2>5, <2>8 DEF Due
  <2>9. Expects(v, M, h)'
    BY <1>2, <2>6, <2>7, <2>8 DEF Expects, Marked
  <2> QED BY <2>1, <2>9
<1> QED
  BY <1>2, <1>7, <1>8, WalksMove

\* A send that begins, its line on the file.
LEMMA NumbersSent ==
  ASSUME TypeOK, IdInv, ReceivedInv, ApartInv, ItemsInv, NumbersInv, HandedWithCare,
         NEW h \in Hubs, NEW k \in Ctx, NEW b \in BOOLEAN, LineSent(h, k, b)
  PROVE  NumbersInv'
<1>1. CountInv' /\ WalkInv'
  BY CountGoesOn, WalkSent DEF NumbersInv
<1>2. /\ UNCHANGED <<records, drafting, spent>>
      /\ \A r \in records : k \in Marked(r) => r.id \in spent
      /\ \A g \in Hubs : drafting[g] # Idle => k \notin Marked(drafting[g])
  BY DEF LineSent, Persist, PersistRaises, HandedWithCare, MaySend, wire, ghosts, Marked
<1>3. \A c \in Ctx : c # k => Number(c)' = Number(c)
  BY NumberGoesOn
<1>4. /\ \A r \in records : Marked(r) \subseteq Ctx
      /\ \A g \in Hubs : drafting[g] # Idle => Marked(drafting[g]) \subseteq Ctx
  BY RecordTypes, MarksType DEF TypeOK, Marked, Idle
<1>5. MarksInv'
  BY <1>2, <1>3, <1>4 DEF NumbersInv, MarksInv, Marked
<1> QED
  BY <1>1, <1>5 DEF NumbersInv

\* Every step keeps the numbers.
LEMMA NumbersMoves ==
  ASSUME TypeOK, IdInv, ReceivedInv, ApartInv, ItemsInv, OwnerInv, NumbersInv,
         HandedWithCare, ConfirmedWithCare, Next
  PROVE  NumbersInv'
<1>a. log \in [Hubs -> Seq(Line)]
  BY DEF TypeOK
<1>1. ASSUME NEW h \in Hubs, NEW k \in Ctx, Persist(h, k) PROVE NumbersInv'
  <2>1. LineSent(h, k, TRUE)
    BY <1>1 DEF LineSent, Persist
  <2> QED BY <2>1, NumbersSent
<1>2. CASE ~\E h \in Hubs, k \in Ctx : Persist(h, k)
  <2>1. \A c \in Ctx : Number(c)' = Number(c)
    BY <1>2, NumberStays DEF NumbersInv
  <2>2. MarksInv'
    BY <1>2, <2>1, MarksMoves DEF NumbersInv
  <2>3. ASSUME NEW h \in Hubs, NEW s \in Seq(Quiet), s \in Seq(Line), LogStep(h, s),
               \A i \in DOMAIN s : s[i].kind # "envelope.persisted",
               ~\E g \in Hubs, r \in records : Receive(g, r)
        PROVE  NumbersInv'
    <3>1. CountInv'
      BY <2>1, <2>3, CountStays DEF NumbersInv
    <3>2. WalkInv'
      BY <2>1, <2>3, WalkQuiet DEF NumbersInv
    <3> QED BY <2>2, <3>1, <3>2 DEF NumbersInv
  <2>4. ASSUME NEW h \in Hubs, UNCHANGED log, ~\E g \in Hubs, r \in records : Receive(g, r) PROVE NumbersInv'
    <3>1. /\ <<>> \in Seq(Quiet) /\ <<>> \in Seq(Line) /\ LogStep(h, <<>>)
          /\ \A i \in DOMAIN <<>> : <<>>[i].kind # "envelope.persisted"
      BY <1>a, <2>4, NoLogStep
    <3> QED BY <2>3, <2>4, <3>1
  <2>5. ASSUME NEW h \in Hubs, NEW k \in Ctx, PersistRaises(h, k) PROVE NumbersInv'
    <3>1. LineSent(h, k, FALSE) \/ UNCHANGED log
      BY <1>a, <2>5, RaisesLogStep DEF PersistRaises, LineSent
    <3>2. CASE LineSent(h, k, FALSE)
      BY <3>2, NumbersSent
    <3>3. CASE UNCHANGED log
      <4>1. ~\E g \in Hubs, r \in records : Receive(g, r)
        <5>1. ASSUME NEW g \in Hubs, NEW r \in records, Receive(g, r) PROVE FALSE
          <6>1. log'[g] = Append(log[g], Arrived(r)) /\ log[g] \in Seq(Line) /\ log'[g] = log[g]
            BY <1>a, <3>3, <5>1 DEF Receive
          <6>2. ASSUME NEW S, NEW t \in Seq(S), NEW x PROVE Append(t, x) # t
            OBVIOUS
          <6> QED BY <6>1, <6>2
        <5> QED BY <5>1
      <4> QED BY <2>4, <3>3, <4>1
    <3> QED BY <3>1, <3>2, <3>3
  <2>6. CASE ~\E h \in Hubs, k \in Ctx : PersistRaises(h, k)
    <3>1. PICK h \in Hubs, s \in Seq(Line) :
            /\ LogStep(h, s) /\ \A i \in DOMAIN s : s[i].kind # "envelope.persisted"
            /\ \/ s \in Seq(Quiet)
               \/ \E g \in Hubs : Restart(g)
               \/ \E g \in Hubs, r \in records : LineReceived(g, r)
      BY <1>2, <2>6, LogGets
    <3>2. CountInv'
      BY <2>1, <3>1, CountStays DEF NumbersInv
    <3>3. CASE \E g \in Hubs, r \in records : LineReceived(g, r)
      BY <2>1, <2>2, <3>2, <3>3, WalkReceived DEF NumbersInv
    <3>4. CASE ~\E g \in Hubs, r \in records : LineReceived(g, r)
      <4>1. ~\E g \in Hubs, r \in records : Receive(g, r)
        BY <3>4 DEF LineReceived, Receive
      <4>2. CASE \E g \in Hubs : Restart(g)
        BY <2>1, <2>2, <3>2, <4>1, <4>2, WalkBoot DEF NumbersInv
      <4>3. CASE s \in Seq(Quiet)
        BY <2>3, <3>1, <4>1, <4>3
      <4> QED BY <3>1, <3>4, <4>2, <4>3
    <3> QED BY <3>3, <3>4
  <2> QED BY <2>5, <2>6
<1> QED
  BY <1>1, <1>2

\* They hold of the logs as these begin.
LEMMA NumbersInit ==
  ASSUME Init
  PROVE  NumbersInv
<1> DEFINE e == [kind |-> "hub.boot"]
<1>1. /\ \A h \in Hubs : log[h] = <<e>> /\ sending[h] = Idle /\ adopting[h] = Idle /\ drafting[h] = Idle
      /\ \A h \in Hubs, c \in Ctx : seq[h][c] = 0
      /\ \A c \in Ctx : owner[c].hub \in Hubs
      /\ records = {}
  BY HandoffAssumption DEF Init
<1>2. e \in Line /\ e.kind # "envelope.persisted" /\ \A c : ~Sets(e, c)
  BY LineTypes DEF Sets
<1>3. \A c \in Ctx : Number(c) = 0
  BY <1>1 DEF Number
<1>4. CountInv
  <2> SUFFICES ASSUME NEW c \in Ctx
               PROVE  /\ IsFiniteSet(Sent(c, TRUE)) /\ Cardinality(Sent(c, TRUE)) = Number(c)
                      /\ NumbersOf(Sent(c, TRUE)) = 1 .. Number(c)
                      /\ NumbersOf(Sent(c, FALSE)) \subseteq 1 .. Number(c) + 1
    BY DEF CountInv
  <2>1. \A h \in Hubs : \A i \in DOMAIN log[h] : log[h][i].kind # "envelope.persisted"
    <3> HIDE DEF e
    <3> QED BY <1>1, <1>2
  <2>2. \A b \in BOOLEAN : Sent(c, b) = {}
    BY <2>1, SentIs, SentPlaces
  <2>3. NumbersOf({}) = {} /\ 1 .. 0 = {}
    BY DEF NumbersOf
  <2> QED BY <1>3, <2>2, <2>3, FS_EmptySet
<1>5. MarksInv
  BY <1>1 DEF MarksInv
<1>6. WalkInv
  <2> SUFFICES ASSUME NEW h \in Hubs PROVE Expects(K!Walk(log[h], Ctx), log[h], h)
    BY DEF WalkInv
  <2> DEFINE w == K!Departure(Ctx)
  <2>1. w \in Walks /\ w.gaps = 0 /\ \A c \in Ctx : w.expected[c] = 0
    BY DEF K!Departure, Walks
  <2>2. K!Walk(<<>>, Ctx) = w
    <3>1. Len(<<>>) = 0 /\ Len(<<>>) \in Nat
      OBVIOUS
    <3>2. PICK g : Walked(g, <<>>, Ctx) /\ K!Walk(<<>>, Ctx) = g[Len(<<>>)]
      BY <3>1, WalkEnds
    <3>3. g[0] = w
      BY <3>1, <3>2 DEF Walked
    <3> QED BY <3>1, <3>2, <3>3
  <2>3. K!Pass(w, e).booted = {}
    <3>1. K!Pass(w, e) = K!PassBoot(w)
      BY DEF K!Pass, K!BootKinds
    <3>2. DOMAIN w.expected = Ctx
      BY DEF K!Departure
    <3>3. {c \in DOMAIN w.expected : w.expected[c] # 0} = {}
      BY <2>1, <3>2
    <3> HIDE DEF w
    <3>4. K!PassBoot(w).booted = {c \in DOMAIN w.expected : w.expected[c] # 0}
      BY <2>1 DEF K!PassBoot, Walks
    <3> QED BY <3>1, <3>3, <3>4
  <2>4. K!Pass(w, e) \in Walks /\ K!Pass(w, e).gaps = 0 /\ \A c \in Ctx : K!Pass(w, e).expected[c] = 0
    <3> HIDE DEF w
    <3> QED BY <2>1, PassDoes
  <2> HIDE DEF w
  <2>5. <<>> \in Seq(Line) /\ <<>> \o <<e>> = <<e>> /\ Repeats(<<>>) = {} /\ \A c : ~Doubtful(<<>>, c)
    BY DEF Repeats, Doubtful
  <2> HIDE DEF e
  <2>6. K!Walk(<<e>>, Ctx) = K!Pass(w, e)
    BY <1>2, <2>2, <2>5, WalkNext
  <2>7. Repeats(<<e>>) = {} /\ \A c : ~Doubtful(<<e>>, c)
    <3>1. PICK L : L = <<>>
      OBVIOUS
    <3>2. L \in Seq(Line) /\ L \o <<e>> = <<e>> /\ Repeats(L) = {} /\ \A c : ~Doubtful(L, c)
      BY <2>5, <3>1
    <3>3. Repeats(L \o <<e>>) = {} /\ \A c : ~Doubtful(L \o <<e>>, c)
      BY <1>2, <3>2, RepeatsNext
    <3> QED BY <3>2, <3>3
  <2>8. Counted(K!Pass(w, e), <<e>>)
    BY <2>4, <2>7, FS_EmptySet DEF Counted
  <2>9. \A c \in Ctx : Follows(K!Pass(w, e), <<e>>, c, 0)
    BY <2>3, <2>4, <2>7 DEF Follows
  <2> QED BY <1>1, <1>3, <2>6, <2>8, <2>9 DEF Expects
<1> QED
  BY <1>4, <1>5, <1>6 DEF NumbersInv

\* "Its next envelope routes on the receiving hub with the sequence continuing from
\* the high-water mark" (territory.py:27-29): over all hubs the numbers of a context
\* whose append returned are 1, 2, 3, ..., each used once.  A number is on a log again
\* only after an append that raised with its line on the file, and those repetitions
\* are all the gaps that a hub's KPI counts.
THEOREM NumbersCorrect ==
  HandedWithCare /\ ConfirmedWithCare => (Spec => []NumbersOnce)
<1> DEFINE Inv == TypeOK /\ IdInv /\ ReceivedInv /\ ApartInv /\ ItemsInv /\ OwnerInv /\ NumbersInv
<1> SUFFICES ASSUME HandedWithCare, ConfirmedWithCare PROVE Spec => []NumbersOnce
  OBVIOUS
<1>1. Init => Inv
  BY TypeInit, ItemsInit, NumbersInit DEF Init, IdInv, ReceivedInv, ApartInv, OwnerInv
<1>2. Inv /\ [Next]_vars => Inv'
  <2>1. "present" \in Careful
    BY DEF HandedWithCare
  <2>2. Inv /\ Next => Inv'
    BY <2>1, TypeMoves, IdMoves, ReceivedMoves, ApartMoves, ItemsMoves, OwnerMoves, NumbersMoves
  <2>3. ASSUME Inv, UNCHANGED vars PROVE Inv'
    <3>1. UNCHANGED <<seq, items, log, sending, drafting, adopting, records, acked, confirmed, clock, owner,
                      held, spent>>
      BY <2>3 DEF vars, hubs, wire, ghosts
    <3>2. TypeOK' /\ ReceivedInv'
      BY <2>3, <3>1 DEF TypeOK, ReceivedInv, Sound, Received
    <3>3. IdInv' /\ ApartInv' /\ OwnerInv'
      BY <2>3, <3>1 DEF IdInv, ApartInv, OwnerInv, Marked
    <3>4. ItemsInv'
      BY <2>3, <3>1 DEF ItemsInv, OpenItemsFollow, SendsInv, DraftsInv, CarriedInv, Sending, Marked
    <3>5. \A c \in Ctx : Number(c)' = Number(c)
      BY <3>1 DEF Number
    <3>6. CountInv' /\ MarksInv'
      BY <2>3, <3>1, <3>5 DEF NumbersInv, CountInv, MarksInv, Number, Sent, Entries, NumbersOf, Marked
    <3>7. WalkInv'
      BY <2>3, <3>1, <3>5 DEF NumbersInv, WalkInv, Expects, Marked
    <3> QED BY <3>2, <3>3, <3>4, <3>6, <3>7 DEF NumbersInv
  <2> QED BY <2>2, <2>3
<1>3. Inv => NumbersOnce
  BY DEF NumbersInv, CountInv, WalkInv, Expects, Counted, NumbersOnce
<1> QED
  BY <1>1, <1>2, <1>3, PTL DEF Spec
=============================================================================
