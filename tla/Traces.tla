------------------------------- MODULE Traces -------------------------------
(***************************************************************************)
(* What spokes thought: the traces a hub takes in (hub.py,                 *)
(* ingest_spoke_trace), its own reflections (_reflect), and the analysis   *)
(* of both (src/dispatcher/analysis.py).  None of it holds the hub's lock  *)
(* for longer than one queue landing, so spokes' threads and the analysis  *)
(* take turns at every append, and any append may raise.                   *)
(***************************************************************************)
EXTENDS Integers, Sequences, FiniteSets

CONSTANTS
  Spokes,       \* threads that submit traces
  MaxTraces,    \* bound: traces submitted
  MaxThoughts,  \* bound: reflections
  MaxLooks,     \* bound: analysis calls
  MaxFails      \* bound: appends that raise

ASSUME TracesAssumption == {MaxTraces, MaxThoughts, MaxLooks, MaxFails} \subseteq Nat

VARIABLES
  installed,   \* the agent_open_mind package can be imported
  declared,    \* _aom_unarmed_declared
  traces,      \* spoke_traces: [id, blank, tainted]
  artifacts,   \* reflection_artifacts: how many, and which of them drift
  integrity,   \* ids on the queue integrity.violation
  log,         \* the lines on the log: kind, and the id it is about
  spoke,       \* per spoke: the submission under way, or Idle
  look,        \* the analysis call under way, or Idle
  counts,      \* [traces, thoughts, looks, fails]
  reviewed     \* history: ids on the list when a scoring call that returned began

vars == <<installed, declared, traces, artifacts, integrity, log, spoke, look, counts, reviewed>>

Idle == [pc |-> "idle"]

Tick(what, max) == counts[what] < max /\ counts' = [counts EXCEPT ![what] = @ + 1]

\* An append: it returns, or it raises and the call it is part of ends.
Line(kind, id) == log' = log \cup {[kind |-> kind, id |-> id]}
Appends(kind, id) == Line(kind, id) /\ UNCHANGED counts
Raises == Tick("fails", MaxFails) /\ UNCHANGED log

\* queue_and_notify: on the queue, then the notifier's outcome, if there is one.
Land(id) == integrity' = integrity \cup {id}
Told(id) == \/ UNCHANGED <<log, counts>>
            \/ \E kind \in {"human.notified", "human.notify_failed"} : Appends(kind, id)

----------------------------------------------------------------------------
(* ingest_spoke_trace *)

Submit(t) ==
  /\ spoke[t] = Idle
  /\ Tick("traces", MaxTraces)
  /\ \E blank \in BOOLEAN :
       LET pc == CASE installed /\ blank          -> "land"
                   [] ~installed /\ ~declared     -> "declare"
                   [] OTHER                       -> "keep"
       IN  spoke' = [spoke EXCEPT ![t] =
             [pc |-> pc, id |-> counts.traces + 1, blank |-> blank, tainted |-> installed /\ blank]]
  /\ declared' = (declared \/ ~installed)
  /\ UNCHANGED <<installed, traces, artifacts, integrity, log, look, reviewed>>

\* "Declared on the audit log, once per hub": the flag is set before the line.
Declare(t) ==
  /\ spoke[t].pc = "declare"
  /\ \/ Appends("agentopenmind.unarmed", 0) /\ spoke' = [spoke EXCEPT ![t].pc = "keep"]
     \/ Raises /\ spoke' = [spoke EXCEPT ![t] = Idle]
  /\ UNCHANGED <<installed, declared, traces, artifacts, integrity, look, reviewed>>

LandTainted(t) ==
  /\ spoke[t].pc = "land"
  /\ Land(spoke[t].id)
  /\ \/ Told(spoke[t].id) /\ spoke' = [spoke EXCEPT ![t].pc = "taint"]
     \/ Raises /\ spoke' = [spoke EXCEPT ![t] = Idle]
  /\ UNCHANGED <<installed, declared, traces, artifacts, look, reviewed>>

MutTaint(t) ==    \* the trace is kept first, marked as flagged, and flagged then
  /\ spoke[t].pc = "taint"
  /\ traces' = Append(traces, [id |-> spoke[t].id, blank |-> TRUE, tainted |-> TRUE])
  /\ Appends("agentopenmind.tainted", spoke[t].id) \/ Raises
  /\ spoke' = [spoke EXCEPT ![t] = Idle]
  /\ UNCHANGED <<installed, declared, artifacts, integrity, look, reviewed>>

Taint(t) ==
  /\ spoke[t].pc = "taint"
  /\ \/ Appends("agentopenmind.tainted", spoke[t].id) /\ spoke' = [spoke EXCEPT ![t].pc = "keep"]
     \/ Raises /\ spoke' = [spoke EXCEPT ![t] = Idle]
  /\ UNCHANGED <<installed, declared, traces, artifacts, integrity, look, reviewed>>

Keep(t) ==
  /\ spoke[t].pc = "keep"
  /\ traces' = Append(traces, [id |-> spoke[t].id, blank |-> spoke[t].blank,
                               tainted |-> spoke[t].tainted])
  /\ Appends("spoke.trace", spoke[t].id) \/ Raises
  /\ spoke' = [spoke EXCEPT ![t] = Idle]
  /\ UNCHANGED <<installed, declared, artifacts, integrity, look, reviewed>>

\* The package is installed while the hub runs: imports are tried anew.
Install ==
  /\ ~installed /\ installed' = TRUE
  /\ UNCHANGED <<declared, traces, artifacts, integrity, log, spoke, look, counts, reviewed>>

----------------------------------------------------------------------------
(* _reflect, and analyze_reflections: every artifact, every time *)

Reflect ==
  /\ Tick("thoughts", MaxThoughts)
  /\ \E drifts \in BOOLEAN : artifacts' = Append(artifacts, drifts)
  /\ Line("hub.reflection", counts.thoughts + 1) \/ UNCHANGED log
  /\ UNCHANGED <<installed, declared, traces, integrity, spoke, look, reviewed>>

Analyze ==
  /\ look = Idle
  /\ Tick("looks", MaxLooks)
  /\ look' = [pc |-> "artifact", next |-> 1]
  /\ UNCHANGED <<installed, declared, traces, artifacts, integrity, log, spoke, reviewed>>

Compare ==
  /\ look.pc = "artifact" /\ look.next <= Len(artifacts)
  /\ \/ /\ Appends("openmind.drift", look.next)
        /\ look' = IF artifacts[look.next] THEN [look EXCEPT !.pc = "second"]
                                           ELSE [look EXCEPT !.next = @ + 1]
     \/ Raises /\ look' = Idle
  /\ UNCHANGED <<installed, declared, traces, artifacts, integrity, spoke, reviewed>>

\* A drift is put to two other models, where they are configured.
SecondOpinion ==
  /\ look.pc = "second"
  /\ \/ /\ Appends("splitvantage.review", look.next) \/ UNCHANGED <<log, counts>>
        /\ look' = [pc |-> "artifact", next |-> look.next + 1]
     \/ Raises /\ look' = Idle
  /\ UNCHANGED <<installed, declared, traces, artifacts, integrity, spoke, reviewed>>

----------------------------------------------------------------------------
(* score_spoke_traces: the loop meets traces that are added while it runs *)

Score ==
  /\ look = Idle /\ installed
  /\ Tick("looks", MaxLooks)
  /\ look' = [pc |-> "trace", next |-> 1, met |-> {traces[k].id : k \in DOMAIN traces}]
  /\ UNCHANGED <<installed, declared, traces, artifacts, integrity, log, spoke, reviewed>>

Trace == traces[look.next]
On    == look' = [pc |-> "trace", next |-> look.next + 1, met |-> look.met]

\* Flagged at ingestion: nothing more to say.
PassOver ==
  /\ look.pc = "trace" /\ look.next <= Len(traces) /\ Trace.blank /\ Trace.tainted
  /\ On
  /\ UNCHANGED <<installed, declared, traces, artifacts, integrity, log, spoke, counts, reviewed>>

\* Not caught at ingestion: the analysis is the backstop.
Backstop ==
  /\ look.pc = "trace" /\ look.next <= Len(traces) /\ Trace.blank /\ ~Trace.tainted
  /\ Land(Trace.id)
  /\ \/ Told(Trace.id) /\ look' = [look EXCEPT !.pc = "taint"]
     \/ Raises /\ look' = Idle
  /\ UNCHANGED <<installed, declared, traces, artifacts, spoke, reviewed>>

BackstopLine ==
  /\ look.pc = "taint"
  /\ \/ Appends("agentopenmind.tainted", Trace.id) /\ On
     \/ Raises /\ look' = Idle
  /\ UNCHANGED <<installed, declared, traces, artifacts, integrity, spoke, reviewed>>

ScoreTrace ==
  /\ look.pc = "trace" /\ look.next <= Len(traces) /\ ~Trace.blank
  /\ \/ Appends("agentopenmind.trace", Trace.id) /\ On
     \/ Raises /\ look' = Idle
  /\ UNCHANGED <<installed, declared, traces, artifacts, integrity, spoke, reviewed>>

Return ==
  /\ \/ look.pc = "trace" /\ look.next > Len(traces) /\ reviewed' = reviewed \cup look.met
     \/ look.pc = "artifact" /\ look.next > Len(artifacts) /\ UNCHANGED reviewed
  /\ look' = Idle
  /\ UNCHANGED <<installed, declared, traces, artifacts, integrity, log, spoke, counts>>

----------------------------------------------------------------------------
Init ==
  /\ installed \in BOOLEAN /\ declared = FALSE
  /\ traces = <<>> /\ artifacts = <<>> /\ integrity = {} /\ log = {}
  /\ spoke = [t \in Spokes |-> Idle]
  /\ look = Idle
  /\ counts = [traces |-> 0, thoughts |-> 0, looks |-> 0, fails |-> 0]
  /\ reviewed = {}

Next ==
  \/ \E t \in Spokes : Submit(t) \/ Declare(t) \/ LandTainted(t) \/ Taint(t) \/ Keep(t)
  \/ Install \/ Reflect
  \/ Analyze \/ Compare \/ SecondOpinion
  \/ Score \/ PassOver \/ Backstop \/ BackstopLine \/ ScoreTrace \/ Return

Spec == Init /\ [][Next]_vars

----------------------------------------------------------------------------
(* Properties *)

Logged(kind, id) == [kind |-> kind, id |-> id] \in log

\* "Flagged for review ..., never silently admitted and never scored as if a
\* trace existed" (analysis.py:59-61): of each trace that was there when a
\* scoring call that returned began, the log has a score if it holds a thought,
\* and a taint if it does not, which a person finds on the integrity queue too;
\* whatever raised on its way in, and whether or not the gate was armed then.
NeverSilent ==
  \A k \in DOMAIN traces : traces[k].id \in reviewed =>
    LET id == traces[k].id
    IN  IF traces[k].blank
        THEN Logged("agentopenmind.tainted", id) /\ id \in integrity
               /\ ~Logged("agentopenmind.trace", id)
        ELSE Logged("agentopenmind.trace", id) /\ ~Logged("agentopenmind.tainted", id)
=============================================================================
