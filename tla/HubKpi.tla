------------------------------- MODULE HubKpi -------------------------------
(***************************************************************************)
(* The KPIs of kpi.py read from the log that a hub leaves: what they say   *)
(* of the hub, against what the hub did.                                   *)
(***************************************************************************)
EXTENDS Hub

K == INSTANCE Kpi

ASSUME KeyIdAssumption == "key" \notin Envelope

\* What an entry is on the file: a verdict carries what it says, the violation
\* of a forged key carries the key's id, which no other entry has.
KindOf(k) == CASE k \in {"selfcheck.passed", "selfcheck.failed"} -> "selfcheck.verdict"
               [] k = "key.violation" -> "integrity.violation"
               [] OTHER -> k

\* The log as compute_kpis reads it; the clock never steps back.
Events ==
  [i \in DOMAIN log |->
     [kind   |-> KindOf(log[i].kind),
      ts     |-> i,
      env    |-> IF log[i].kind = "key.violation" THEN "key" ELSE log[i].env,
      seq    |-> log[i].seq,
      passed |-> log[i].kind # "selfcheck.failed",
      ctx    |-> IF log[i].env \in Envelope THEN Msg[log[i].env].ctx ELSE "none"]]

\* The persisted entries of i's context before i, and those of the same boot.
Earlier(i) == {j \in 1 .. i - 1 : /\ log[j].kind = "envelope.persisted"
                                  /\ Msg[log[j].env].ctx = Msg[log[i].env].ctx}
SameBoot(i) == {j \in Earlier(i) : log[j].boot = log[i].boot}

\* The sequence KPI is true (kpi.py:101-111): the gaps it counts are exactly the
\* numbers that a failing append made the hub use twice within one boot, and its
\* restarts are exactly the contexts a later boot numbered anew.  No restart
\* hides a gap, and no restart counts as one.
SequenceKpiTrue ==
  LET P == {i \in DOMAIN log : log[i].kind = "envelope.persisted"}
      w == K!Walk(Events, Ctx)
  IN  /\ w.gaps = Cardinality({i \in P : \E j \in SameBoot(i) : log[j].seq = log[i].seq})
      /\ w.restarts = Cardinality({i \in P : Earlier(i) # {} /\ SameBoot(i) = {}})

\* "Every ack must be preceded by a persist of that envelope" (kpi.py:83): the
\* incidents counted are the acks that no persist precedes.
AckKpiTrue ==
  K!IntegrityIncidents(Events) =
    Cardinality({a \in DOMAIN log :
      /\ log[a].kind = "ack"
      /\ \A p \in 1 .. a : log[p].kind # "envelope.persisted" \/ log[p].env # log[a].env})

\* An ack whose envelope a later boot persisted again.
Redelivered(a) ==
  \E p \in DOMAIN log : /\ log[p].kind = "envelope.persisted" /\ log[p].env = log[a].env
                        /\ log[p].boot > log[a].boot

\* What a finding of kpi_gate.py tells of the hub, at any moment, through failed
\* appends and restarts.  "Ack integrity" is found exactly when an acked envelope
\* was persisted again by a later boot, "sequence gaps" exactly when a boot used a
\* number twice: neither means an ack without its persist.  An envelope that was
\* flagged as forged and is acked had its signer verified in the boot of the ack,
\* or declared unarmed ("any accepted authority intent had a verified signature",
\* tools/kpi_gate.py:8-10).  A draft the exit gate held back (:57-61) has no ack
\* in that boot.
GateTells ==
  LET found == K!GateViolations(Events, Ctx, 0, 0)
  IN  /\ "ack integrity" \in found <=> \E a \in DOMAIN log : log[a].kind = "ack" /\ Redelivered(a)
      /\ "sequence gaps" \in found <=>
           \E i \in DOMAIN log : /\ log[i].kind = "envelope.persisted"
                                /\ \E j \in SameBoot(i) : log[j].seq = log[i].seq
      /\ \A a \in K!Flagged(Events) :
           \/ Before(a, "signer.verified") # {}
           \/ ~BootArmed /\ Before(a, "signer.unarmed") # {}
      /\ \A i \in K!Held(Events), a \in K!Of("ack", Events) :
           log[i].env = log[a].env => log[i].boot # log[a].boot
=============================================================================
