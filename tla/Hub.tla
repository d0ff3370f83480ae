-------------------------------- MODULE Hub --------------------------------
(***************************************************************************)
(* The hub of src/dispatcher/hub.py: every envelope between agents goes    *)
(* through Hub.send, under one re-entrant lock.                            *)
(*                                                                         *)
(* The lock is the variable `stack`: it is free when the stack is empty,   *)
(* and each frame is one call of the thread that holds it.  Handlers and   *)
(* the human notifier run inside the lock and may call the hub again, so a *)
(* call may be pushed on a frame that waits in one of them.  A frame's pc  *)
(* names the next step of its call; the steps are cut where another        *)
(* outcome is possible: at each audit-log append, which may fail, and at   *)
(* each call of a handler, of the notifier or of the reviewer model.       *)
(***************************************************************************)
EXTENDS Integers, Sequences, FiniteSets, Track

CONSTANTS
  Envelope,      \* envelope ids (one-to-one with the messages agents mean)
  Msg,           \* [Envelope -> [from, intent, to, ctx]]
  Rows,          \* the identity's route table
  SignedIntents, \* signed_intents of the identity
  LoopThreshold, \* loop_threshold
  Outcomes,      \* what a page may be recorded as; {}: human_notifier is None
  HasSelfcheck,  \* selfcheck_model is not None
  BootArmed,     \* a signer registry is passed to the constructor
  Operation,     \* the hub methods callers use in this instance
  Proofs,        \* the kinds of objects callers present
  Dirty,         \* an append may fail after its line reached the file
  MaxCalls,      \* bound: calls made on the hub, over all boots
  MaxDepth,      \* bound: nesting of calls made from handlers and notifiers
  MaxFails,      \* bound: failures of appends and of the reviewer model
  MaxBoots       \* bound: boots

Operations == {"send", "release", "decline", "resume", "escalate", "notify"}

\* What an object presented to the hub proves.  "malformed": the schema is
\* broken (for a key: its intent is not disclosure.authority); "unsigned":
\* verify_sig answers False; "signed": it answers True and the stamp names no
\* authorized login; "stamped": the signer registry accepts it too.
ProofKinds == {"malformed", "unsigned", "signed", "stamped"}

Ctx       == {Msg[e].ctx : e \in Envelope}
LoopKey   == {<<Msg[e].ctx, Msg[e].intent>> : e \in Envelope}
Agent     == {Msg[e].to : e \in Envelope} \ {"queue"}
KeyOf(e)  == <<Msg[e].ctx, Msg[e].intent>>

Authority(e) == IsAuthority(Msg[e].intent, SignedIntents)
Legal(e)     == TupleLegal(Rows, Msg[e].from, Msg[e].intent, Msg[e].to)
Known(e)     == Matching(Rows, Msg[e].intent) # {}
External(e)  == Msg[e].to = "external"
Gated(e)     == External(e) /\ IsGated(Rows, Msg[e].intent)

Clarification == <<"clarification", "request">>
Integrity     == <<"integrity", "violation">>
SystemError   == <<"escalation", "system_error">>
DeadLetter    == <<"dead", "letter">>
QueueName     == {Clarification, Integrity, SystemError, DeadLetter}
                   \cup {Msg[e].intent : e \in {d \in Envelope : Msg[d].to = "queue"}}

ASSUME BoundsAssumption ==
  /\ LoopThreshold \in Nat /\ MaxCalls \in Nat /\ MaxDepth \in Nat
  /\ MaxFails \in Nat /\ MaxBoots \in Nat \ {0}
ASSUME ConfigAssumption ==
  /\ {HasSelfcheck, BootArmed, Dirty} \subseteq BOOLEAN
  /\ Outcomes \subseteq {"human.notified", "human.notify_failed"}
  /\ Operation \subseteq Operations
  /\ Proofs \subseteq ProofKinds
ASSUME RoutesAssumption == SignedIntentsLoad(Rows, SignedIntents)

VARIABLES
  stack,      \* the calls in progress, innermost last; <<>>: the lock is free
  log,        \* the audit log: [kind, env, seq, boot], oldest first
  seen,       \* seen_ids
  seq,        \* seq: the last sequence per context, 0 when absent
  loopCount,  \* loop_counts, 0 when the key is absent
  holds,      \* _absolute_holds: what the held object proves, "none" if not held
  released,   \* _absolute_released
  queues,     \* queues, as the envelopes each of them names
  handlers,   \* agents with a registered handler
  armed,      \* signer_registry is not None
  runs,       \* history: handler runs per envelope, over all boots
  finished,   \* history: envelopes whose handler returned in this boot
  keys,       \* history: release keys accepted per envelope in this boot
  boots,      \* the current boot
  calls,      \* calls made, over all boots
  fails       \* failures that happened

gate    == <<holds, released, keys>>
memory  == <<seen, seq, loopCount, queues>>
ghosts  == <<runs, finished>>
setting == <<handlers, armed, boots>>
vars    == <<stack, log, gate, memory, ghosts, setting, calls, fails>>

----------------------------------------------------------------------------
(* The stack *)

Top      == stack[Len(stack)]
At(pc)   == stack # <<>> /\ Top.pc = pc
Return   == stack' = SubSeq(stack, 1, Len(stack) - 1)
Goto(pc) == stack' = [stack EXCEPT ![Len(stack)].pc = pc]
Then(pc) == IF pc = "return" THEN Return ELSE Goto(pc)

\* The pcs at which the notifier runs, and those at which foreign code that
\* may call the hub again runs.
Pages     == {"loop_page", "forged_page", "key_page", "unknown_page", "gate_page",
              "flagged_page", "queued_page", "alarm_page"}
Callbacks == {"handler"} \cup (IF Outcomes = {} THEN {} ELSE Pages)

(* The log *)

Entry(kind, e, n) == [kind |-> kind, env |-> e, seq |-> n, boot |-> boots]

\* AuditLog.append raises: the call ends there, with nothing written, or
\* (a failed flush) with the line on the file all the same.
AppendRaises(entry) ==
  /\ fails < MaxFails
  /\ fails' = fails + 1
  /\ Return
  /\ log' \in {log} \cup (IF Dirty THEN {Append(log, entry)} ELSE {})

\* One append, then the step named pc.
Logs(kind, pc) ==
  \/ /\ log' = Append(log, Entry(kind, Top.env, 0))
     /\ Then(pc)
     /\ UNCHANGED fails
  \/ AppendRaises(Entry(kind, Top.env, 0))

\* A step of straight-line code: at `pc`, append an entry, go on to `next`.
Line(pc, kind, next) ==
  /\ At(pc)
  /\ Logs(kind, next)
  /\ UNCHANGED <<gate, memory, ghosts, setting, calls>>

Enqueue(q) == queues' = [queues EXCEPT ![q] = @ \cup {Top.env}]

\* queue_and_notify: the record lands on the queue, then the notifier runs.
QueueAndNotify(q, page) == Enqueue(q) /\ Goto(page)

----------------------------------------------------------------------------
(* Calls, from outside or from a handler or notifier inside the lock *)

Call(op, e, proof, decision) ==
  /\ calls < MaxCalls
  /\ Len(stack) < MaxDepth
  /\ stack # <<>> => Top.pc \in Callbacks
  /\ calls' = calls + 1
  /\ stack' = Append(stack, [pc |-> op, env |-> e, proof |-> proof,
                             decision |-> decision])
  /\ UNCHANGED <<log, gate, memory, ghosts, setting, fails>>

Caller ==
  \/ \E e \in Envelope, p \in Proofs :
       /\ "send" \in Operation
       /\ Call("send", e, p, "none")
  \/ \E op \in Operation \cap {"release", "decline"}, e \in Envelope, p \in Proofs,
        d \in {"release", "decline"} : Call(op, e, p, d)
  \/ \E op \in Operation \cap {"resume", "escalate", "notify"}, e \in Envelope :
       Call(op, e, "none", "none")

\* register: under the lock, so not between two steps of another thread.
Register(a) ==
  /\ a \in Agent \ handlers
  /\ stack # <<>> => Top.pc \in Callbacks
  /\ handlers' = handlers \cup {a}
  /\ UNCHANGED <<stack, log, gate, memory, ghosts, armed, boots, calls, fails>>

\* arm_signer_registry takes no lock: it may run between any two steps.
Arm ==
  /\ ~armed
  /\ armed' = TRUE
  /\ \/ /\ log' = Append(log, Entry("signer.armed", "none", 0))
        /\ UNCHANGED fails
     \/ /\ fails < MaxFails            \* the registry is set before the append
        /\ fails' = fails + 1
        /\ UNCHANGED log
  /\ UNCHANGED <<stack, gate, memory, ghosts, handlers, boots, calls>>

----------------------------------------------------------------------------
(* Hub.send up to the persist *)

Duplicate ==
  /\ At("send")
  /\ Top.env \in seen
  /\ Goto("duplicate")
  /\ UNCHANGED <<log, gate, memory, ghosts, setting, calls, fails>>

\* The attempt is counted; one over the threshold suspends the pair.
Count == loopCount' = [loopCount EXCEPT ![KeyOf(Top.env)] = @ + 1]

MutOverThreshold(e) == loopCount[KeyOf(e)] > LoopThreshold
OverThreshold(e) == loopCount[KeyOf(e)] + 1 > LoopThreshold

Suspend ==
  /\ At("send")
  /\ Top.env \notin seen
  /\ OverThreshold(Top.env)
  /\ Count
  /\ QueueAndNotify(Clarification, "loop_page")
  /\ UNCHANGED <<log, seen, seq, gate, ghosts, setting, calls, fails>>

MutSuspended ==    \* the suspension of a pair still counted only
  /\ At("suspended")
  /\ loopCount[KeyOf(Top.env)] > 0
  /\ Logs("loop.suspended", "return")
  /\ UNCHANGED <<gate, memory, ghosts, setting, calls>>

\* After the page the code reads loop_counts[key] again: a KeyError ends the
\* call if the notifier resumed the pair.
Suspended ==
  /\ At("suspended")
  /\ \/ /\ loopCount[KeyOf(Top.env)] > 0
        /\ Logs("loop.suspended", "return")
     \/ /\ loopCount[KeyOf(Top.env)] = 0
        /\ Return
        /\ UNCHANGED <<log, fails>>
  /\ UNCHANGED <<gate, memory, ghosts, setting, calls>>

MutAdmit ==    \* no dedupe
  /\ At("send")
  /\ ~OverThreshold(Top.env)
  /\ Count
  /\ Goto("schema")
  /\ UNCHANGED <<log, seen, seq, queues, gate, ghosts, setting, calls, fails>>

Admit ==
  /\ At("send")
  /\ Top.env \notin seen
  /\ ~OverThreshold(Top.env)
  /\ Count
  /\ Goto("schema")
  /\ UNCHANGED <<log, seen, seq, queues, gate, ghosts, setting, calls, fails>>

MutTrustedUnsigned(proof) == proof # "malformed"
MutTrustedAnyLogin(proof) == proof \in {"signed", "stamped"}

\* verify_sig, then the registry when one is armed.
Trusted(proof) == proof = "stamped" \/ (proof = "signed" /\ ~armed)

Schema ==
  /\ At("schema")
  /\ Goto(IF Top.proof = "malformed" THEN "reject"
          ELSE IF ~Authority(Top.env) THEN "track"
          ELSE IF ~Trusted(Top.proof) THEN "forgery"
          ELSE IF armed THEN "verified" ELSE "unarmed")
  /\ UNCHANGED <<log, gate, memory, ghosts, setting, calls, fails>>

Forgery ==
  /\ At("forgery")
  /\ QueueAndNotify(Integrity, "forged_page")
  /\ UNCHANGED <<log, seen, seq, loopCount, gate, ghosts, setting, calls, fails>>

OffTrack ==
  /\ At("track")
  /\ ~Legal(Top.env)
  /\ \/ Known(Top.env) /\ Goto("reject") /\ UNCHANGED queues
     \/ ~Known(Top.env) /\ QueueAndNotify(Clarification, "unknown_page")
  /\ UNCHANGED <<log, seen, seq, loopCount, gate, ghosts, setting, calls, fails>>

MutGateCleared ==    \* the pass is not consumed
  /\ At("track")
  /\ Legal(Top.env) /\ External(Top.env)
  /\ Top.env \in released
  /\ Goto("cleared")
  /\ UNCHANGED <<log, gate, memory, ghosts, setting, calls, fails>>

\* The id a key has cleared passes the gate once: it is consumed here.
GateCleared ==
  /\ At("track")
  /\ Legal(Top.env) /\ External(Top.env)
  /\ Top.env \in released
  /\ released' = released \ {Top.env}
  /\ Goto("cleared")
  /\ UNCHANGED <<log, holds, keys, memory, ghosts, setting, calls, fails>>

\* The absolute signal: the object is kept for a signed release.
GateHolds ==
  /\ At("track")
  /\ Legal(Top.env) /\ Gated(Top.env)
  /\ Top.env \notin released
  /\ holds' = [holds EXCEPT ![Top.env] = Top.proof]
  /\ QueueAndNotify(Clarification, "gate_page")
  /\ UNCHANGED <<log, released, keys, seen, seq, loopCount, ghosts, setting, calls, fails>>

MutOnTrack ==    \* delivery before the persist
  /\ At("track")
  /\ Legal(Top.env)
  /\ ~Gated(Top.env)
  /\ Goto("deliver")
  /\ UNCHANGED <<log, gate, memory, ghosts, setting, calls, fails>>

OnTrack ==
  /\ At("track")
  /\ Legal(Top.env)
  /\ ~Gated(Top.env)
  /\ External(Top.env) => Top.env \notin released
  /\ Goto("persist")
  /\ UNCHANGED <<log, gate, memory, ghosts, setting, calls, fails>>

MutPersist ==    \* the sequence is committed although the append raises
  LET e == Top.env
      n == seq[Msg[e].ctx] + 1
  IN  /\ At("persist")
      /\ seq' = [seq EXCEPT ![Msg[e].ctx] = n]
      /\ \/ /\ log' = Append(log, Entry("envelope.persisted", e, n))
            /\ seen' = seen \cup {e}
            /\ Goto(IF HasSelfcheck THEN "selfcheck" ELSE "deliver")
            /\ UNCHANGED fails
         \/ AppendRaises(Entry("envelope.persisted", e, n)) /\ UNCHANGED seen
      /\ UNCHANGED <<loopCount, queues, gate, ghosts, setting, calls>>

\* Persist before delivery: the id is marked seen and the sequence committed
\* only after the append.
Persist ==
  LET e == Top.env
      n == seq[Msg[e].ctx] + 1
  IN  /\ At("persist")
      /\ \/ /\ log' = Append(log, Entry("envelope.persisted", e, n))
            /\ seq' = [seq EXCEPT ![Msg[e].ctx] = n]
            /\ seen' = seen \cup {e}
            /\ Goto(IF HasSelfcheck THEN "selfcheck" ELSE "deliver")
            /\ UNCHANGED fails
         \/ /\ AppendRaises(Entry("envelope.persisted", e, n))
            /\ UNCHANGED <<seq, seen>>
      /\ UNCHANGED <<loopCount, queues, gate, ghosts, setting, calls>>

----------------------------------------------------------------------------
(* Hub.send after the persist *)

\* exit_gate: the reviewer's verdict, logged as selfcheck.verdict with what it
\* says, or the reviewer model raising.
Review ==
  /\ At("selfcheck")
  /\ \/ Goto("passed") /\ UNCHANGED fails
     \/ Goto("failed") /\ UNCHANGED fails
     \/ fails < MaxFails /\ fails' = fails + 1 /\ Return
  /\ UNCHANGED <<log, gate, memory, ghosts, setting, calls>>

MutFlag ==    \* the draft is flagged, and delivered all the same
  /\ At("flag")
  /\ Enqueue(Clarification)
  /\ Goto("deliver")
  /\ UNCHANGED <<log, seen, seq, loopCount, gate, ghosts, setting, calls, fails>>

Flag ==
  /\ At("flag")
  /\ QueueAndNotify(Clarification, "flagged_page")
  /\ UNCHANGED <<log, seen, seq, loopCount, gate, ghosts, setting, calls, fails>>

DeliverToQueue ==
  /\ At("deliver")
  /\ Msg[Top.env].to = "queue"
  /\ QueueAndNotify(Msg[Top.env].intent, "queued_page")
  /\ UNCHANGED <<log, seen, seq, loopCount, gate, ghosts, setting, calls, fails>>

MutNoHandler ==    \* traffic without a handler is dropped
  /\ At("deliver")
  /\ Msg[Top.env].to \in Agent \ handlers
  /\ Return
  /\ UNCHANGED <<log, gate, memory, ghosts, setting, calls, fails>>

NoHandler ==
  /\ At("deliver")
  /\ Msg[Top.env].to \in Agent \ handlers
  /\ Enqueue(DeadLetter)
  /\ Goto("dead")
  /\ UNCHANGED <<log, seen, seq, loopCount, gate, ghosts, setting, calls, fails>>

RunHandler ==
  /\ At("deliver")
  /\ Msg[Top.env].to \in handlers
  /\ runs' = [runs EXCEPT ![Top.env] = @ + 1]
  /\ Goto("handler")
  /\ UNCHANGED <<log, finished, gate, memory, setting, calls, fails>>

HandlerReturns ==
  /\ At("handler")
  /\ finished' = finished \cup {Top.env}
  /\ Goto("ack")
  /\ UNCHANGED <<log, runs, gate, memory, setting, calls, fails>>

MutHandlerSwallowed ==    \* the exception is caught and the ack goes out
  /\ At("handler")
  /\ Goto("ack")
  /\ UNCHANGED <<log, gate, memory, ghosts, setting, calls, fails>>

HandlerRaises ==
  /\ At("handler")
  /\ Enqueue(DeadLetter)
  /\ Goto("crashed")
  /\ UNCHANGED <<log, seen, seq, loopCount, gate, ghosts, setting, calls, fails>>

MutEscalate ==    \* a person is paged, and nothing is recorded
  /\ At("alarm") \/ At("escalate")
  /\ Enqueue(SystemError)
  /\ Goto("alarm_page")
  /\ UNCHANGED <<log, seen, seq, loopCount, gate, ghosts, setting, calls, fails>>

\* escalate, from the crash of a handler or called by a spoke; the record lands
\* on the system-error queue, which stands for every escalation queue.
Escalate ==
  /\ At("alarm") \/ At("escalate")
  /\ Enqueue(SystemError)
  /\ Goto("raised")
  /\ UNCHANGED <<log, seen, seq, loopCount, gate, ghosts, setting, calls, fails>>

----------------------------------------------------------------------------
(* The disclosure key: release, decline, and the checks they share.  The    *)
(* frame of a key call carries the held id the key names; the violation of  *)
(* a forged key, "key.violation" here, is logged under the key's own id.    *)

KeyDenied(op) ==
  /\ At(op)
  /\ \/ Top.proof = "malformed" /\ Goto("reject") /\ UNCHANGED queues
     \/ /\ Top.proof # "malformed" /\ ~Trusted(Top.proof)
        /\ QueueAndNotify(Integrity, "key_page")
     \/ /\ Trusted(Top.proof)
        /\ Top.decision # op \/ holds[Top.env] = "none"
        /\ Goto("reject")
        /\ UNCHANGED queues
  /\ UNCHANGED <<log, seen, seq, loopCount, gate, ghosts, setting, calls, fails>>

MutKeyAccepted(op) ==    \* the message stays in the hold
  /\ At(op)
  /\ Trusted(Top.proof)
  /\ Top.decision = op
  /\ holds[Top.env] # "none"
  /\ UNCHANGED holds

KeyAccepted(op) ==
  /\ At(op)
  /\ Trusted(Top.proof)
  /\ Top.decision = op
  /\ holds[Top.env] # "none"
  /\ holds' = [holds EXCEPT ![Top.env] = "none"]

\* History: the keys that carried a verified signature.
CountKey == keys' = [keys EXCEPT ![Top.env] =
                       @ + (IF Top.proof \in {"signed", "stamped"} THEN 1 ELSE 0)]

MutRelease ==    \* the message is sent again without a word on the log
  /\ KeyAccepted("release")
  /\ released' = released \cup {Top.env}
  /\ CountKey
  /\ stack' = [stack EXCEPT ![Len(stack)] =
                 [@ EXCEPT !.pc = "send", !.proof = holds[Top.env]]]
  /\ UNCHANGED <<log, memory, ghosts, setting, calls, fails>>

\* The hold is dropped and the release armed; what follows the append is the
\* send of the original object.
Release ==
  /\ KeyAccepted("release")
  /\ released' = released \cup {Top.env}
  /\ CountKey
  /\ stack' = [stack EXCEPT ![Len(stack)] =
                 [@ EXCEPT !.pc = "authorized", !.proof = holds[Top.env]]]
  /\ UNCHANGED <<log, memory, ghosts, setting, calls, fails>>

Decline ==
  /\ KeyAccepted("decline")
  /\ Goto("declined")
  /\ UNCHANGED <<log, released, keys, memory, ghosts, setting, calls, fails>>

----------------------------------------------------------------------------
(* The remaining operations, the notifier, and the straight-line code *)

MutResume ==    \* the key is popped, and no later read supplies a default
  /\ At("resume")
  /\ loopCount' = [k \in LoopKey \ {KeyOf(Top.env)} |-> loopCount[k]]
  /\ Goto("resumed")
  /\ UNCHANGED <<log, seen, seq, queues, gate, ghosts, setting, calls, fails>>

Resume ==
  /\ At("resume")
  /\ loopCount' = [loopCount EXCEPT ![KeyOf(Top.env)] = 0]
  /\ Goto("resumed")
  /\ UNCHANGED <<log, seen, seq, queues, gate, ghosts, setting, calls, fails>>

Notify ==
  /\ At("notify")
  /\ Goto("alarm_page")
  /\ UNCHANGED <<log, gate, memory, ghosts, setting, calls, fails>>

\* _notify at `pc`: without a notifier nothing is written; with one, what it
\* returned or raised decides which outcome is recorded.
Page(pc, next) ==
  /\ At(pc)
  /\ \/ Outcomes = {} /\ Then(next) /\ UNCHANGED <<log, fails>>
     \/ \E kind \in Outcomes : Logs(kind, next)
  /\ UNCHANGED <<gate, memory, ghosts, setting, calls>>

Notifier ==
  \/ Page("loop_page",    "suspended")
  \/ Page("forged_page",  "forged")
  \/ Page("key_page",     "key_forged")
  \/ Page("unknown_page", "unknown")
  \/ Page("gate_page",    "held")
  \/ Page("flagged_page", "return")
  \/ Page("queued_page",  "queued")
  \/ Page("alarm_page",   "return")

Lines ==
  \/ Line("duplicate",  "dedupe.hit",               "return")
  \/ Line("reject",     "reject",                   "return")
  \/ Line("verified",   "signer.verified",          "track")
  \/ Line("unarmed",    "signer.unarmed",           "track")
  \/ Line("forged",     "integrity.violation",      "reject")
  \/ Line("key_forged", "key.violation",            "reject")
  \/ Line("unknown",    "hold.clarification",       "reflect")
  \/ Line("held",       "absolute_signal.hold",     "reflect")
  \/ Line("cleared",    "absolute_signal.released", "persist")
  \/ Line("passed",     "selfcheck.passed",         "deliver")
  \/ Line("failed",     "selfcheck.failed",         "flag")
  \/ Line("queued",     "hold.queued",              "return")
  \/ Line("dead",       "dead.letter",              "return")
  \/ Line("crashed",    "dead.letter",              "alarm")
  \/ Line("raised",     "escalation.raised",        "alarm_page")
  \/ Line("ack",        "ack",                      "reflect")
  \/ Line("reflect",    "hub.reflection",           "return")
  \/ Line("authorized", "disclosure.authorized",    "send")
  \/ Line("declined",   "disclosure.declined",      "return")
  \/ Line("resumed",    "loop.resumed",             "return")

\* The process stops at any point and the hub is constructed again on the
\* same log: everything but the log is memory.
Restart ==
  /\ boots < MaxBoots
  /\ boots' = boots + 1
  /\ stack' = <<>>
  /\ log' = Append(log, [kind |-> "hub.boot", env |-> "none", seq |-> 0, boot |-> boots + 1])
  /\ seen' = {}
  /\ seq' = [c \in Ctx |-> 0]
  /\ loopCount' = [k \in LoopKey |-> 0]
  /\ queues' = [q \in QueueName |-> {}]
  /\ holds' = [e \in Envelope |-> "none"]
  /\ released' = {}
  /\ keys' = [e \in Envelope |-> 0]
  /\ handlers' = {}
  /\ armed' = BootArmed
  /\ finished' = {}
  /\ UNCHANGED <<runs, calls, fails>>

----------------------------------------------------------------------------
Init ==
  /\ stack = <<>>
  /\ log = <<[kind |-> "hub.boot", env |-> "none", seq |-> 0, boot |-> 1]>>
  /\ seen = {}
  /\ seq = [c \in Ctx |-> 0]
  /\ loopCount = [k \in LoopKey |-> 0]
  /\ queues = [q \in QueueName |-> {}]
  /\ holds = [e \in Envelope |-> "none"]
  /\ released = {}
  /\ keys = [e \in Envelope |-> 0]
  /\ handlers = {}
  /\ armed = BootArmed
  /\ runs = [e \in Envelope |-> 0]
  /\ finished = {}
  /\ boots = 1 /\ calls = 0 /\ fails = 0

Send ==
  \/ Duplicate \/ Suspend \/ Suspended \/ Admit \/ Schema \/ Forgery
  \/ OffTrack \/ GateCleared \/ GateHolds \/ OnTrack \/ Persist
  \/ Review \/ Flag \/ DeliverToQueue \/ NoHandler
  \/ RunHandler \/ HandlerReturns \/ HandlerRaises \/ Escalate

Key == KeyDenied("release") \/ KeyDenied("decline") \/ Release \/ Decline

\* The steps of the thread that holds the lock, callbacks' returns included.
HubStep == Send \/ Key \/ Resume \/ Notify \/ Notifier \/ Lines

Next ==
  \/ Caller
  \/ HubStep
  \/ \E a \in Agent : Register(a)
  \/ Arm
  \/ Restart

Spec == Init /\ [][Next]_vars

\* The running thread is scheduled and foreign code returns.
FairSpec == Spec /\ WF_vars(HubStep)

----------------------------------------------------------------------------
(* Properties *)

Steps == {"send", "duplicate", "loop_page", "suspended", "schema", "reject",
          "forgery", "forged_page", "forged", "key_page", "key_forged",
          "verified", "unarmed", "track",
          "unknown_page", "unknown", "gate_page", "held", "cleared", "persist",
          "selfcheck", "passed", "failed", "flag", "flagged_page", "deliver",
          "queued_page", "queued", "dead", "handler", "crashed", "alarm",
          "raised", "alarm_page", "ack", "reflect", "release", "authorized",
          "decline", "declined", "resume", "resumed", "escalate", "notify"}

Kinds == {"hub.boot", "signer.armed", "dedupe.hit", "loop.suspended", "reject",
          "signer.verified", "signer.unarmed", "integrity.violation", "key.violation",
          "hold.clarification", "absolute_signal.hold", "absolute_signal.released",
          "envelope.persisted", "selfcheck.passed", "selfcheck.failed", "hold.queued", "dead.letter",
          "escalation.raised", "ack", "hub.reflection", "disclosure.authorized",
          "disclosure.declined", "loop.resumed", "human.notified",
          "human.notify_failed"}

Frame == [pc : Steps, env : Envelope, proof : ProofKinds \cup {"none"},
          decision : {"release", "decline", "none"}]

LogEntry == [kind : Kinds, env : Envelope \cup {"none"}, seq : Nat, boot : Nat]

\* Every variable keeps its type: the stack holds well-formed calls of known
\* steps, the maps of Hub.__init__ keep their keys.
TypeOK ==
  /\ stack \in Seq(Frame)
  /\ log \in Seq(LogEntry)
  /\ seen \subseteq Envelope
  /\ seq \in [Ctx -> Nat]
  /\ loopCount \in [LoopKey -> Nat]
  /\ holds \in [Envelope -> ProofKinds \cup {"none"}]
  /\ released \subseteq Envelope
  /\ queues \in [QueueName -> SUBSET Envelope]
  /\ handlers \subseteq Agent
  /\ armed \in BOOLEAN
  /\ runs \in [Envelope -> Nat]
  /\ finished \subseteq Envelope
  /\ keys \in [Envelope -> Nat]
  /\ boots \in Nat /\ calls \in Nat /\ fails \in Nat

\* The entries of one kind about the same envelope, in the same boot, before i.
Before(i, kind) ==
  {j \in 1 .. i - 1 : /\ log[j].kind = kind
                      /\ log[j].env = log[i].env
                      /\ log[j].boot = log[i].boot}

\* The entries of one kind about e in the current boot.
Now(kind, e) == {i \in DOMAIN log : log[i].kind = kind /\ log[i].env = e /\ log[i].boot = boots}

\* An ack is a factual claim (core.py:4): in its boot the envelope was
\* persisted first and its handler returned, and no other ack and no dead
\* letter of it came before.  Nested sends and failed appends included.
AckIsFact ==
  \A i \in DOMAIN log : log[i].kind = "ack" =>
    /\ Before(i, "envelope.persisted") # {}
    /\ Before(i, "ack") = {} /\ Before(i, "dead.letter") = {}
    /\ log[i].boot = boots => log[i].env \in finished

\* envelope_id is the idempotency key (core.py:6), as far as one process goes:
\* a handler sees an envelope at most once per boot, and not at all in a boot
\* that has not marked it seen, whatever is retried, nested or failing.
DeliveredOnce ==
  \A e \in Envelope : runs[e] <= boots /\ (e \notin seen => runs[e] < boots)

\* The hub is the single writer of sequence (core.py:7): within a boot, the
\* persisted sequences of a context never fall and never skip a number, and one
\* is used twice at most for each append that raised.
GaplessSequence ==
  LET Persisted  == {i \in DOMAIN log : log[i].kind = "envelope.persisted"}
      Earlier(i) == {j \in Persisted : /\ j < i /\ log[j].boot = log[i].boot
                                      /\ Msg[log[j].env].ctx = Msg[log[i].env].ctx}
  IN  /\ \A i \in Persisted :
           /\ \A j \in Earlier(i) : log[j].seq <= log[i].seq
           /\ log[i].seq = 1 \/ \E j \in Earlier(i) : log[j].seq + 1 = log[i].seq
      /\ Cardinality({i \in Persisted :
                        \E j \in Earlier(i) : log[j].seq = log[i].seq}) <= fails

\* The absolute signal (hub.py:573-585): no gated message is cleared, persisted
\* or delivered in a boot in which no trusted key that names it was accepted.
GateClosed ==
  \A e \in Envelope : Gated(e) /\ e \in seen \cup released => keys[e] > 0

\* "It cannot be reused" (hub.py:583): the gate is passed at most once for each
\* key accepted, the pass still armed counted in.
OneKeyOnePass ==
  \A e \in Envelope :
    Cardinality(Now("absolute_signal.released", e)) + (IF e \in released THEN 1 ELSE 0)
      <= keys[e]

\* A held message is exactly one that waits: not persisted, not cleared, and
\* only ever a gated one (hub.py:168-171, 385-386).
HoldsAside ==
  \A e \in Envelope : holds[e] # "none" => Gated(e) /\ e \notin seen \cup released

\* "The authorization lands on the hash chain" (hub.py:357-358): every pass of
\* the gate stands after its authorization on the log.
AuthorizationRecorded ==
  \A i \in DOMAIN log : log[i].kind = "absolute_signal.released" =>
    Before(i, "disclosure.authorized") # {}

\* The signature, not the sender field, is trust (hub.py:528): an authority
\* envelope is persisted only after its signer was verified on the record, or
\* declared unarmed where no registry was armed at boot, and no call gets past
\* the gate with an object that proves less than what it was taken for.
AuthorityProven ==
  /\ \A i \in DOMAIN log :
       log[i].kind = "envelope.persisted" /\ Authority(log[i].env) =>
         \/ Before(i, "signer.verified") # {}
         \/ ~BootArmed /\ Before(i, "signer.unarmed") # {}
  /\ \A k \in DOMAIN stack : Authority(stack[k].env) =>
       /\ stack[k].pc = "verified" => stack[k].proof = "stamped"
       /\ stack[k].pc \in {"unarmed", "track", "persist", "deliver", "handler"} =>
            stack[k].proof \in (IF BootArmed THEN {"stamped"} ELSE {"signed", "stamped"})

\* Loop protection (hub.py:508-510): between two resumptions at most
\* loop_threshold envelopes of a (context, intent) pair are persisted.
LoopBound ==
  \A k \in LoopKey :
    LET Of(kind) == {i \in DOMAIN log : /\ log[i].kind = kind /\ log[i].boot = boots
                                        /\ log[i].env \in Envelope
                                        /\ KeyOf(log[i].env) = k}
    IN  Cardinality({i \in Of("envelope.persisted") :
                       \A r \in Of("loop.resumed") : r < i}) <= LoopThreshold

\* Failures never vanish (hub.py:12): when the hub is idle, every envelope it
\* marked seen is acked, a dead letter, on its queue, or flagged in clarification.
NothingVanishes ==
  stack = <<>> =>
    \A e \in seen :
      \/ \E kind \in {"ack", "hold.queued", "dead.letter"} : Now(kind, e) # {}
      \/ Now("selfcheck.failed", e) # {} /\ e \in queues[Clarification]

\* Persist before delivery (hub.py:616): the step that runs a handler finds the
\* envelope on the log of this boot, and its gate pass consumed.
PersistFirst ==
  [][\A e \in Envelope : runs'[e] > runs[e] =>
       Now("envelope.persisted", e) # {} /\ e \notin released]_vars

\* Every call of the hub ends, whatever its callbacks send in between.
CallsReturn == stack # <<>> ~> stack = <<>>

\* A registered handler that crashes raises the alarm (hub.py:668-676).
CrashAlarms ==
  \A e \in Envelope :
    (At("crashed") /\ Top.env = e) ~> (Now("escalation.raised", e) # {})
=============================================================================
