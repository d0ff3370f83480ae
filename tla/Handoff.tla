------------------------------ MODULE Handoff ------------------------------
(***************************************************************************)
(* Territories, src/dispatcher/territory.py: client contexts handed from   *)
(* one hub to another by a signed transfer record, which the sending hub   *)
(* builds, the receiving hub adopts and acks, and the sending hub's        *)
(* release answers.  None of the three takes the hub's lock, so the steps  *)
(* of a send in another thread fall between theirs.  Records and acks      *)
(* travel outside the hubs: they may arrive late, twice or never.          *)
(***************************************************************************)
EXTENDS Integers, Sequences, FiniteSets

CONSTANTS
  Hubs, Ctx,
  Home,          \* [Ctx -> Hubs]: the hub each context begins at
  Careful,       \* the calls that are made only when they may be (the May operators)
  MaxSends,      \* bound: envelopes sent, over all hubs
  MaxTransfers,  \* bound: transfer records begun
  MaxReceives,   \* bound: records presented to a hub
  MaxFails,      \* bound: appends that raise
  MaxBoots       \* bound: restarts, over all hubs

ASSUME HandoffAssumption ==
  /\ Home \in [Ctx -> Hubs]
  /\ Careful \subseteq {"send", "hand over", "present", "confirm", "restart"}
  /\ {MaxSends, MaxTransfers, MaxReceives, MaxFails, MaxBoots} \subseteq Nat

VARIABLES
  seq,       \* per hub: seq, 0 when absent
  items,     \* per hub: queue items that name a context, counted
  log,       \* per hub: the audit log
  sending,   \* per hub: the send persisted and not yet committed, or Idle
  drafting,  \* per hub: the record being built, or Idle
  adopting,  \* per hub: the record received and not yet acked, or Idle
  records,   \* the records that were built, and altered copies of them
  acked,     \* ids of the records a receiver's ack was returned for
  confirmed, \* ids of the records whose release returned
  clock,     \* [sends, built, received, fails, boots], counted
  owner,     \* history: the hub that took each context last, and by which record
  held,      \* history: open items of each context, over all hubs
  spent      \* history: ids begun before the last handoff of their contexts

hubs   == <<seq, items, log>>
wire   == <<records, acked, confirmed>>
ghosts == <<owner, held, spent>>
vars   == <<hubs, sending, drafting, adopting, wire, clock, ghosts>>

Idle == [step |-> "idle"]

K == INSTANCE Kpi

Tick(what, max) == clock[what] < max /\ clock' = [clock EXCEPT ![what] = @ + 1]

\* The appends of one call in order: n of them return.  If these are not all, the
\* next one raised, and its line is on the file or not.
Writes(h, entries, n) ==
  /\ \E k \in {n, n + 1} \cap (0 .. Len(entries)) :
       log' = [log EXCEPT ![h] = @ \o SubSeq(entries, 1, k)]
  /\ IF n = Len(entries) THEN UNCHANGED clock ELSE Tick("fails", MaxFails)

----------------------------------------------------------------------------
(* Hub.send, as far as a handoff sees it: the persist and, under the hub's *)
(* lock but not atomically with it, the commit of the sequence.            *)

\* Callers send in a context at the hub that has it, and not while a handoff of
\* it is being built or waits to be adopted.
MaySend(h, c) ==
  /\ owner[c].hub = h
  /\ \A r \in records : c \in DOMAIN r.marks => r.id \in spent
  /\ \A g \in Hubs : drafting[g] # Idle => c \notin DOMAIN drafting[g].marks

\* The line of an envelope with the next number of c.  Whether its append returned
\* is history: the file does not show it.
Numbered(h, c, returned) ==
  [kind |-> "envelope.persisted", ctx |-> c, seq |-> seq[h][c] + 1, returned |-> returned]

Persist(h, c) ==
  /\ sending[h] = Idle
  /\ "send" \in Careful => MaySend(h, c)
  /\ Tick("sends", MaxSends)
  /\ log' = [log EXCEPT ![h] = Append(@, Numbered(h, c, TRUE))]
  /\ sending' = [sending EXCEPT ![h] = [step |-> "commit", ctx |-> c, seq |-> seq[h][c] + 1]]
  /\ UNCHANGED <<seq, items, drafting, adopting, wire, ghosts>>

\* The append raises, with the line on the file or not: the number is not committed,
\* and the next send of the context gives it again.
PersistRaises(h, c) ==
  /\ sending[h] = Idle
  /\ "send" \in Careful => MaySend(h, c)
  /\ Writes(h, <<Numbered(h, c, FALSE)>>, 0)
  /\ UNCHANGED <<seq, items, sending, drafting, adopting, wire, ghosts>>

\* An envelope to a queue leaves an open item there.
Commit(h) ==
  /\ sending[h] # Idle
  /\ LET c == sending[h].ctx
     IN  /\ seq' = [seq EXCEPT ![h][c] = sending[h].seq]
         /\ \E n \in {0, 1} : /\ items' = [items EXCEPT ![h][c] = @ + n]
                              /\ held' = [held EXCEPT ![c] = @ + n]
  /\ sending' = [sending EXCEPT ![h] = Idle]
  /\ UNCHANGED <<log, drafting, adopting, wire, clock, owner, spent>>

----------------------------------------------------------------------------
(* build_transfer: the marks are read, then the queues; the record comes   *)
(* out after its two appends.                                              *)

\* Callers hand over what the hub has, when no send of it is on its way.
MayHandOff(h, c) == owner[c].hub = h /\ c \notin {x.ctx : x \in {sending[h]} \ {Idle}}

BuildRead(h, cs) ==
  /\ drafting[h] = Idle
  /\ "hand over" \in Careful => \A c \in cs : MayHandOff(h, c)
  /\ Tick("built", MaxTransfers)
  /\ drafting' = [drafting EXCEPT ![h] =
       [step |-> "build", id |-> clock.built + 1, marks |-> [c \in cs |-> seq[h][c]]]]
  /\ UNCHANGED <<hubs, sending, adopting, wire, ghosts>>

MutBuilt(h) ==    \* no record carries the open items
  [id |-> drafting[h].id, from |-> h, signed |-> TRUE, marks |-> drafting[h].marks,
   items |-> [c \in DOMAIN drafting[h].marks |-> 0]]

Built(h) ==
  [id |-> drafting[h].id, from |-> h, signed |-> TRUE, marks |-> drafting[h].marks,
   items |-> [c \in DOMAIN drafting[h].marks |-> items[h][c]]]

BuildDone(h) ==
  /\ drafting[h] # Idle
  /\ \E n \in 0 .. 2 :
       /\ Writes(h, <<[kind |-> "sleepmark.captured"],
                      [kind |-> "territory.transfer.sent", id |-> drafting[h].id]>>, n)
       /\ records' = records \cup (IF n = 2 THEN {Built(h)} ELSE {})
  /\ drafting' = [drafting EXCEPT ![h] = Idle]
  /\ UNCHANGED <<seq, items, sending, adopting, acked, confirmed, ghosts>>

\* Outside the hubs a record may be changed; its signature no longer fits.
Alter(r) ==
  /\ r.signed
  /\ records' = records \cup {[r EXCEPT !.signed = FALSE, !.marks = [c \in DOMAIN @ |-> 0]]}
  /\ UNCHANGED <<hubs, sending, drafting, adopting, acked, confirmed, clock, ghosts>>

----------------------------------------------------------------------------
(* receive_transfer *)

\* queue_and_notify, then the refusal; with no notifier nobody is told.  n lines get
\* on the file: all of them, or as many as there were when an append raised.
Refuse(h, r) ==
  /\ adopting[h] = Idle
  /\ ~r.signed
  /\ clock.received < MaxReceives
  /\ \E told \in {<<>>, <<"human.notified">>, <<"human.notify_failed">>}, raises \in BOOLEAN :
       LET kinds == told \o <<"territory.transfer.refused">>
       IN  \E n \in IF raises THEN 0 .. Len(kinds) ELSE {Len(kinds)} :
             /\ log' = [log EXCEPT ![h] = @ \o [i \in 1 .. n |-> [kind |-> kinds[i], id |-> r.id]]]
             /\ raises => clock.fails < MaxFails
             /\ clock' = [clock EXCEPT !.received = @ + 1, !.fails = @ + (IF raises THEN 1 ELSE 0)]
  /\ UNCHANGED <<seq, items, sending, drafting, adopting, wire, ghosts>>

\* Callers present a record once it has not been overtaken by another handoff
\* of its contexts, and not while one is being adopted.
MayPresent(r) ==
  /\ r.id \notin spent
  /\ \A g \in Hubs : adopting[g] # Idle =>
       \/ adopting[g].step = "ack"
       \/ DOMAIN adopting[g].record.marks \cap DOMAIN r.marks = {}

Arrived(r) == [kind |-> "territory.transfer.received", id |-> r.id, marks |-> r.marks]

MutReceive(h, r) ==    \* adopted on trust
  /\ adopting[h] = Idle
  /\ "present" \in Careful => MayPresent(r)
  /\ Tick("received", MaxReceives)
  /\ log' = [log EXCEPT ![h] = Append(@, Arrived(r))]
  /\ adopting' = [adopting EXCEPT ![h] = [step |-> "adopt", record |-> r]]
  /\ UNCHANGED <<seq, items, sending, drafting, wire, ghosts>>

\* Persist before adopt.
Receive(h, r) ==
  /\ adopting[h] = Idle
  /\ r.signed
  /\ "present" \in Careful => MayPresent(r)
  /\ Tick("received", MaxReceives)
  /\ log' = [log EXCEPT ![h] = Append(@, Arrived(r))]
  /\ adopting' = [adopting EXCEPT ![h] = [step |-> "adopt", record |-> r]]
  /\ UNCHANGED <<seq, items, sending, drafting, wire, ghosts>>

\* The append raises, and nothing is adopted.
ReceiveRaises(h, r) ==
  /\ adopting[h] = Idle
  /\ r.signed
  /\ "present" \in Careful => MayPresent(r)
  /\ Writes(h, <<Arrived(r)>>, 0)
  /\ UNCHANGED <<seq, items, sending, drafting, adopting, wire, ghosts>>

MutCarried(r, c) == r.marks[c] + 1    \* the mark is taken for the next number
Carried(r, c)    == r.marks[c]

\* Ids that name a handoff of one of cs begun by now.
Begun(cs) == {r.id : r \in {x \in records : DOMAIN x.marks \cap cs # {}}}
               \cup {drafting[g].id : g \in {x \in Hubs : /\ drafting[x] # Idle
                                                         /\ DOMAIN drafting[x].marks \cap cs # {}}}

\* restore_sleepmark, which may raise; then the contexts and their items.
Adopt(h) ==
  /\ adopting[h] # Idle /\ adopting[h].step = "adopt"
  /\ LET r == adopting[h].record
     IN  \/ /\ Writes(h, <<[kind |-> "sleepmark.restored"]>>, 0)
            /\ adopting' = [adopting EXCEPT ![h] = Idle]
            /\ UNCHANGED <<seq, items, owner, spent>>
         \/ /\ Writes(h, <<[kind |-> "sleepmark.restored"]>>, 1)
            /\ adopting' = [adopting EXCEPT ![h].step = "ack"]
            /\ seq' = [seq EXCEPT ![h] = [c \in Ctx |->
                         IF c \in DOMAIN r.marks THEN Carried(r, c) ELSE @[c]]]
            /\ items' = [items EXCEPT ![h] = [c \in Ctx |->
                           IF c \in DOMAIN r.marks THEN @[c] + r.items[c] ELSE @[c]]]
            /\ owner' = [c \in Ctx |-> IF c \in DOMAIN r.marks THEN [hub |-> h, by |-> r.id] ELSE owner[c]]
            /\ spent' = spent \cup Begun(DOMAIN r.marks)
  /\ UNCHANGED <<sending, drafting, wire, held>>

MutAckTransfer(h) ==    \* the ack goes out before the record is adopted
  /\ adopting[h] # Idle /\ adopting[h].record.id \notin acked
  /\ acked' = acked \cup {adopting[h].record.id}
  /\ UNCHANGED <<hubs, sending, drafting, adopting, records, confirmed, clock, ghosts>>

AckTransfer(h) ==
  /\ adopting[h] # Idle /\ adopting[h].step = "ack"
  /\ \E n \in 0 .. 1 :
       /\ Writes(h, <<[kind |-> "territory.transfer.ack", id |-> adopting[h].record.id,
                         marks |-> adopting[h].record.marks]>>, n)
       /\ acked' = acked \cup (IF n = 1 THEN {adopting[h].record.id} ELSE {})
  /\ adopting' = [adopting EXCEPT ![h] = Idle]
  /\ UNCHANGED <<seq, items, sending, drafting, records, confirmed, ghosts>>

----------------------------------------------------------------------------
(* confirm_release, by the caller that has the receiver's ack; and a       *)
(* process restart.                                                        *)

\* Callers confirm a release before the contexts are handed on or back: an ack
\* that comes later is not used.
MayConfirm(r) == \A c \in DOMAIN r.marks : owner[c].by = r.id

Confirm(r) ==
  /\ r.signed /\ r.id \in acked \ confirmed
  /\ "confirm" \in Careful => MayConfirm(r)
  /\ seq' = [seq EXCEPT ![r.from] = [c \in Ctx |-> IF c \in DOMAIN r.marks THEN 0 ELSE @[c]]]
  /\ \E n \in 0 .. 1 :
       /\ Writes(r.from, <<[kind |-> "territory.transfer.released", id |-> r.id,
                            marks |-> r.marks]>>, n)
       /\ confirmed' = confirmed \cup (IF n = 1 THEN {r.id} ELSE {})
  /\ UNCHANGED <<items, sending, drafting, adopting, records, acked, ghosts>>

\* A hub that has a context loses its number with the process, which kpi.py
\* counts apart: a careful restart meets only the hubs on the way of a handoff.
Restart(h) ==
  /\ "restart" \in Careful => \A c \in Ctx : owner[c].hub # h
  /\ Tick("boots", MaxBoots)
  /\ log' = [log EXCEPT ![h] = Append(@, [kind |-> "hub.boot"])]
  /\ seq' = [seq EXCEPT ![h] = [c \in Ctx |-> 0]]
  /\ items' = [items EXCEPT ![h] = [c \in Ctx |-> 0]]
  /\ sending' = [sending EXCEPT ![h] = Idle]
  /\ drafting' = [drafting EXCEPT ![h] = Idle]
  /\ adopting' = [adopting EXCEPT ![h] = Idle]
  /\ UNCHANGED <<wire, ghosts>>

----------------------------------------------------------------------------
Init ==
  /\ seq = [h \in Hubs |-> [c \in Ctx |-> 0]]
  /\ items = [h \in Hubs |-> [c \in Ctx |-> 0]]
  /\ log = [h \in Hubs |-> <<[kind |-> "hub.boot"]>>]
  /\ sending = [h \in Hubs |-> Idle]
  /\ drafting = [h \in Hubs |-> Idle]
  /\ adopting = [h \in Hubs |-> Idle]
  /\ records = {} /\ acked = {} /\ confirmed = {}
  /\ clock = [sends |-> 0, built |-> 0, received |-> 0, fails |-> 0, boots |-> 0]
  /\ owner = [c \in Ctx |-> [hub |-> Home[c], by |-> 0]] /\ held = [c \in Ctx |-> 0] /\ spent = {}

Next ==
  \/ \E h \in Hubs, c \in Ctx : Persist(h, c) \/ PersistRaises(h, c)
  \/ \E h \in Hubs : Commit(h) \/ BuildDone(h) \/ Adopt(h) \/ AckTransfer(h) \/ Restart(h)
  \/ \E h \in Hubs, cs \in (SUBSET Ctx) \ {{}} : BuildRead(h, cs)
  \/ \E r \in records : Alter(r) \/ Confirm(r)
  \/ \E h \in Hubs, r \in records : r.from # h /\ (Refuse(h, r) \/ Receive(h, r) \/ ReceiveRaises(h, r))

Spec == Init /\ [][Next]_vars

----------------------------------------------------------------------------
(* Properties *)

Entries(h, kinds) == {i \in DOMAIN log[h] : log[h][i].kind \in kinds}

\* Where the logs name an envelope of the context c whose append returned, or did not.
Sent(c, returned) ==
  UNION {{<<h, i>> : i \in {j \in Entries(h, {"envelope.persisted"}) :
                              log[h][j].ctx = c /\ log[h][j].returned = returned}} : h \in Hubs}

NumbersOf(S) == {log[p[1]][p[2]].seq : p \in S}

\* The line e of a log gives the context c a number, or a mark to go on from.
Sets(e, c) ==
  \/ e.kind = "envelope.persisted" /\ e.ctx = c
  \/ e.kind = "territory.transfer.received" /\ c \in DOMAIN e.marks

\* The envelopes of the log L that give again the number of one before them, whose
\* append had raised.
Repeats(L) ==
  {i \in DOMAIN L : /\ L[i].kind = "envelope.persisted"
                    /\ \E j \in 1 .. i - 1 :
                         /\ L[j].kind = "envelope.persisted" /\ L[j].ctx = L[i].ctx /\ ~L[j].returned
                         /\ \A k \in j + 1 .. i - 1 : ~Sets(L[k], L[i].ctx)}

\* "Its next envelope routes on the receiving hub with the sequence continuing
\* from the high-water mark" (territory.py:27-29): while callers keep to the
\* protocol, the envelopes of a context whose append returned have the numbers 1, 2,
\* 3, ... over all hubs, each used once, whatever raises, is lost or comes late.  One
\* whose append raised with its line on the file (hub.py:623-627) has one of these
\* numbers, or the next, which is given again; and the gaps that the sequence KPI
\* counts in a hub's log are exactly the envelopes that give a number again.
NumbersOnce ==
  /\ \A c \in Ctx : LET n == Cardinality(Sent(c, TRUE))
                    IN  /\ NumbersOf(Sent(c, TRUE)) = 1 .. n
                        /\ NumbersOf(Sent(c, FALSE)) \subseteq 1 .. n + 1
  /\ \A h \in Hubs : K!Walk(log[h], Ctx).gaps = Cardinality(Repeats(log[h]))

\* Open items go with the record (territory.py:18-19): the hub that took a context
\* last has every open item of it on a queue.
OpenItemsFollow == \A c \in Ctx : items[owner[c].hub][c] >= held[c]

\* The mark h takes c with is that of a signed record its log names as received.
OnRecord(h, c) ==
  \E i \in Entries(h, {"territory.transfer.received"}), r \in records :
    /\ r.signed /\ r.id = log[h][i].id /\ r.marks = log[h][i].marks
    /\ c \in DOMAIN r.marks /\ seq'[h][c] = r.marks[c]

\* "Contexts are never adopted on trust" and "persist before adopt"
\* (territory.py:20-22, 79): a hub takes a context only with the mark of a
\* record that is signed and that its own log already names as received.
AdoptedOnRecord ==
  [][\A h \in Hubs, c \in Ctx : owner'[c].hub = h /\ owner[c].hub # h => OnRecord(h, c)]_vars

\* The logs say that a hub has a context: it began there or acked it, and has
\* not released it since.
HasContext(h, c) ==
  LET E == {i \in Entries(h, {"territory.transfer.ack", "territory.transfer.released"}) :
              c \in DOMAIN log[h][i].marks}
  IN  IF E = {} THEN Home[c] = h
      ELSE \E i \in E : log[h][i].kind = "territory.transfer.ack" /\ \A j \in E : j <= i

\* The sender releases only on the receiver's ack (territory.py:95-99): while
\* callers keep to the protocol, every context is in some region.
NeverInNone == \A c \in Ctx : \E h \in Hubs : HasContext(h, c)
=============================================================================
