-------------------------------- MODULE Kpi --------------------------------
(***************************************************************************)
(* What src/dispatcher/kpi.py and src/tools/kpi_gate.py read out of an     *)
(* audit log L, a sequence of entries, oldest first.  The fields an entry  *)
(* carries depend on its kind, as on the log; `ts` is the clock at the     *)
(* append, and the hash of an entry is its position, which is as unique.   *)
(***************************************************************************)
EXTENDS Integers, Sequences, FiniteSets

NotifyOutcomes == {"human.notified", "human.notify_failed"}
BootKinds      == {"hub.boot", "jev.unarmed_fallback", "jev.key_present"}

Of(kind, L) == {i \in DOMAIN L : L[i].kind = kind}

----------------------------------------------------------------------------
(* Ack integrity.  The time of a persist is that of the envelope's last.   *)

PersistsOf(e, L) == {i \in Of("envelope.persisted", L) : L[i].env = e}

Backed(L) ==
  {a \in Of("ack", L) :
     \E p \in PersistsOf(L[a].env, L) :
       /\ \A q \in PersistsOf(L[a].env, L) : q <= p
       /\ L[p].ts <= L[a].ts}

IntegrityIncidents(L) == Cardinality(Of("ack", L)) - Cardinality(Backed(L))

----------------------------------------------------------------------------
(* Sequence gaps and restarts.  The walk keeps, for each context, the      *)
(* number it expects next (0 before the context's first entry), and the    *)
(* contexts that a boot has passed since their last entry.                 *)

Departure(C) ==
  [gaps |-> 0, restarts |-> 0, expected |-> [c \in C |-> 0], booted |-> {}]

PassBoot(w) == [w EXCEPT !.booted = {c \in DOMAIN w.expected : w.expected[c] # 0}]

PassTransfer(w, marks) ==
  [w EXCEPT !.expected = [c \in DOMAIN @ |-> IF c \in DOMAIN marks THEN marks[c] + 1 ELSE @[c]],
            !.booted   = @ \ DOMAIN marks]

MutPassPersist(w, c, s) ==    \* every return to 1 is a restart
  LET fits    == s = (IF w.expected[c] = 0 THEN 1 ELSE w.expected[c])
      restart == ~fits /\ s = 1
  IN  [w EXCEPT !.gaps     = @ + (IF fits \/ restart THEN 0 ELSE 1),
                !.restarts = @ + (IF restart THEN 1 ELSE 0),
                !.expected[c] = s + 1,
                !.booted   = @ \ {c}]

PassPersist(w, c, s) ==
  LET fits    == s = (IF w.expected[c] = 0 THEN 1 ELSE w.expected[c])
      restart == ~fits /\ s = 1 /\ c \in w.booted
  IN  [w EXCEPT !.gaps     = @ + (IF fits \/ restart THEN 0 ELSE 1),
                !.restarts = @ + (IF restart THEN 1 ELSE 0),
                !.expected[c] = s + 1,
                !.booted   = @ \ {c}]

Pass(w, e) ==
  CASE e.kind \in BootKinds                   -> PassBoot(w)
    [] e.kind = "territory.transfer.received" -> PassTransfer(w, e.marks)
    [] e.kind = "envelope.persisted"          -> PassPersist(w, e.ctx, e.seq)
    [] OTHER                                  -> w

\* The walk over the whole log, C being the contexts on it.
Walk(L, C) ==
  LET walk[n \in 0 .. Len(L)] ==
        IF n = 0 THEN Departure(C) ELSE Pass(walk[n - 1], L[n])
  IN  walk[Len(L)]

----------------------------------------------------------------------------
(* Escalations and their outcomes.  An outcome names the position of the   *)
(* escalation it answers, 0 when it answers none; one written before the   *)
(* second review names nothing (Unkeyed) and is paired by its queue.       *)

Unkeyed == -1

MutAnswered(p, i, e) ==    \* every outcome is paired by its queue
  LET r == p.waiting[e.queue]
  IN  IF r = 0 THEN p
      ELSE [answer |-> [p.answer EXCEPT ![r] = i], waiting |-> [p.waiting EXCEPT ![e.queue] = 0]]

\* p.answer: the outcome of each escalation met, 0 while it has none;
\* p.waiting: the escalation of each queue that an unkeyed outcome would answer.
Answered(p, i, e) ==
  LET r == IF e.raised = Unkeyed THEN p.waiting[e.queue] ELSE e.raised
  IN  IF r = 0 \/ (e.raised # Unkeyed /\ p.answer[r] # 0) THEN p
      ELSE [answer  |-> [p.answer EXCEPT ![r] = i],
            waiting |-> [p.waiting EXCEPT ![e.queue] = IF @ = r THEN 0 ELSE @]]

\* pair_escalations: the outcome of each escalation on the log, 0 for none.
PairEscalations(L) ==
  LET named == {L[i].queue : i \in Of("escalation.raised", L) \cup
                                    UNION {Of(k, L) : k \in NotifyOutcomes}}
      pair[n \in 0 .. Len(L)] ==
        IF n = 0 THEN [answer  |-> [r \in Of("escalation.raised", L) |-> 0],
                       waiting |-> [q \in named |-> 0]]
        ELSE LET p == pair[n - 1]
             IN  CASE L[n].kind = "escalation.raised" ->
                        [p EXCEPT !.waiting[L[n].queue] = n]
                   [] L[n].kind \in NotifyOutcomes -> Answered(p, n, L[n])
                   [] OTHER -> p
  IN  pair[Len(L)].answer

\* The escalations that a person was told of, the ones of them whose notifier
\* confirmed it, and the ones whose notification failed.
Notified(L)     == LET a == PairEscalations(L)
                   IN  {r \in DOMAIN a : a[r] # 0 /\ L[a[r]].kind = "human.notified"}
Confirmed(L)    == {r \in Notified(L) : L[PairEscalations(L)[r]].transport # "not reported"}
NotifyFailed(L) == LET a == PairEscalations(L)
                   IN  {r \in DOMAIN a : a[r] # 0 /\ L[a[r]].kind = "human.notify_failed"}

----------------------------------------------------------------------------
(* The gate *)

\* The acks of an envelope that was flagged as forged, and the verdicts by which
\* the exit gate held a draft back.
Flagged(L) == {a \in Of("ack", L) : \E i \in Of("integrity.violation", L) : L[i].env = L[a].env}
Held(L)    == {i \in Of("selfcheck.verdict", L) : ~L[i].passed}

\* kpi_gate: the invariants a log breaks, given how many tainted traces and how
\* many bad drafts were planted.
GateViolations(L, C, taints, baits) ==
  {v \in {"ack integrity", "sequence gaps", "authority", "taint gate", "exit gate"} :
     CASE v = "ack integrity" -> IntegrityIncidents(L) # 0
       [] v = "sequence gaps" -> Walk(L, C).gaps # 0
       [] v = "authority"     -> Flagged(L) # {}
       [] v = "taint gate"    -> Cardinality(Of("agentopenmind.tainted", L)) < taints
       [] v = "exit gate"     -> Cardinality(Held(L)) < baits}
=============================================================================
