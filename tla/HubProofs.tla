----------------------------- MODULE HubProofs -----------------------------
(***************************************************************************)
(* What TLAPS proves of Hub, for every set of envelopes, every route       *)
(* table, every bound and any number of failed appends and restarts.       *)
(***************************************************************************)
EXTENDS Hub, SequenceTheorems, TLAPS

----------------------------------------------------------------------------
(* Sequences: the four ways the stack and the log change *)

\* The last element of a sequence that is not empty.
LEMMA LastOf ==
  ASSUME NEW S, NEW s \in Seq(S), s # <<>>
  PROVE  Len(s) \in 1 .. Len(s) /\ s[Len(s)] \in S /\ Len(s) \in Nat \ {0}
  OBVIOUS

\* A call is pushed, or an entry is appended.
LEMMA Pushed ==
  ASSUME NEW S, NEW s \in Seq(S), NEW x \in S
  PROVE  /\ Append(s, x) \in Seq(S)
         /\ Len(Append(s, x)) = Len(s) + 1
         /\ \A i \in 1 .. Len(s) : Append(s, x)[i] = s[i]
         /\ Append(s, x)[Len(s) + 1] = x
  OBVIOUS

\* A call returns.
LEMMA Popped ==
  ASSUME NEW S, NEW s \in Seq(S), s # <<>>
  PROVE  LET t == SubSeq(s, 1, Len(s) - 1)
         IN  /\ t \in Seq(S)
             /\ Len(t) = Len(s) - 1
             /\ \A i \in 1 .. Len(t) : t[i] = s[i]
<1> DEFINE m == Len(s) - 1
<1>1. m \in Nat /\ Len(s) = m + 1 /\ \A i \in 1 .. m : s[i] \in S
  OBVIOUS
<1>2. /\ SubSeq(s, 1, m) \in Seq(S)
      /\ Len(SubSeq(s, 1, m)) = m
      /\ \A i \in 1 .. m : SubSeq(s, 1, m)[i] = s[i]
  <2> HIDE DEF m
  <2>1. /\ SubSeq(s, 1, m) \in Seq(S)
        /\ Len(SubSeq(s, 1, m)) = IF 1 <= m THEN m - 1 + 1 ELSE 0
        /\ \A i \in 1 .. m - 1 + 1 : SubSeq(s, 1, m)[i] = s[1 + i - 1]
    BY <1>1, SubSeqProperties
  <2> QED
    BY <1>1, <2>1
<1> QED
  BY <1>1, <1>2

\* The innermost call goes on to another step.
LEMMA Moved ==
  ASSUME NEW s \in Seq(Frame), s # <<>>, NEW pc \in Steps
  PROVE  LET t == [s EXCEPT ![Len(s)].pc = pc]
         IN  /\ t \in Seq(Frame)
             /\ Len(t) = Len(s)
             /\ \A i \in 1 .. Len(s) - 1 : t[i] = s[i]
             /\ t[Len(s)] = [s[Len(s)] EXCEPT !.pc = pc]
<1> DEFINE f == [s[Len(s)] EXCEPT !.pc = pc]
<1>1. f \in Frame
  <2>1. s[Len(s)] \in Frame
    BY LastOf
  <2> QED
    BY <2>1 DEF Frame
<1>2. [s EXCEPT ![Len(s)] = f] \in Seq(Frame)
  <2> HIDE DEF f
  <2> QED BY <1>1
<1> QED
  BY <1>2, LastOf

\* Every envelope has a loop key.
LEMMA KeyOfType == \A e \in Envelope : KeyOf(e) \in LoopKey
  BY DEF KeyOf, LoopKey

----------------------------------------------------------------------------
(* The type invariant *)

\* A run begins typed.
LEMMA InitType == Init => TypeOK
<1> SUFFICES ASSUME Init PROVE TypeOK
  OBVIOUS
<1>1. stack \in Seq(Frame)
  BY DEF Init
<1>2. [kind |-> "hub.boot", env |-> "none", seq |-> 0, boot |-> 1] \in LogEntry
  BY DEF LogEntry, Kinds
<1>3. log \in Seq(LogEntry)
  BY <1>2 DEF Init
<1> QED
  BY <1>1, <1>3, ConfigAssumption DEF Init, TypeOK

\* What a step does to the stack keeps its type: the pc of the top call is
\* another step, or the call returns.
LEMMA StackType ==
  ASSUME TypeOK, stack # <<>>
  PROVE  /\ Top \in Frame
         /\ \A pc \in Steps : Goto(pc) => stack' \in Seq(Frame)
         /\ Return => stack' \in Seq(Frame)
         /\ \A pc \in Steps \cup {"return"} : Then(pc) => stack' \in Seq(Frame)
<1>1. stack \in Seq(Frame)
  BY DEF TypeOK
<1>2. Top \in Frame
  BY <1>1, LastOf DEF Top
<1>3. \A pc \in Steps : Goto(pc) => stack' \in Seq(Frame)
  BY <1>1, Moved DEF Goto
<1>4. Return => stack' \in Seq(Frame)
  BY <1>1, Popped DEF Return
<1> QED
  BY <1>2, <1>3, <1>4 DEF Then

\* An append that succeeds or raises keeps the types of log and fails.
LEMMA AppendType ==
  ASSUME TypeOK, stack # <<>>, NEW kind \in Kinds, NEW n \in Nat, NEW e \in Envelope
  PROVE  /\ Entry(kind, e, n) \in LogEntry
         /\ Append(log, Entry(kind, e, n)) \in Seq(LogEntry)
         /\ AppendRaises(Entry(kind, e, n)) =>
              /\ stack' \in Seq(Frame)
              /\ log' \in Seq(LogEntry)
              /\ fails' \in Nat
<1>1. Entry(kind, e, n) \in LogEntry
  BY DEF Entry, LogEntry, TypeOK
<1>2. Append(log, Entry(kind, e, n)) \in Seq(LogEntry)
  BY <1>1, Pushed DEF TypeOK
<1>3. ASSUME AppendRaises(Entry(kind, e, n))
      PROVE  stack' \in Seq(Frame) /\ log' \in Seq(LogEntry) /\ fails' \in Nat
  <2>1. stack' \in Seq(Frame)
    BY <1>3, StackType DEF AppendRaises
  <2>2. log' \in Seq(LogEntry)
    BY <1>2, <1>3 DEF AppendRaises, TypeOK
  <2> QED
    BY <1>3, <2>1, <2>2 DEF AppendRaises, TypeOK
<1> QED
  BY <1>1, <1>2, <1>3

\* A step that writes a line keeps the types,
LEMMA LogsType ==
  ASSUME TypeOK, stack # <<>>, NEW kind \in Kinds, NEW pc \in Steps \cup {"return"},
         Logs(kind, pc)
  PROVE  stack' \in Seq(Frame) /\ log' \in Seq(LogEntry) /\ fails' \in Nat
<1>1. Top.env \in Envelope
  BY StackType DEF Frame
<1>2. CASE AppendRaises(Entry(kind, Top.env, 0))
  BY <1>1, <1>2, AppendType
<1>3. CASE /\ log' = Append(log, Entry(kind, Top.env, 0))
           /\ Then(pc)
           /\ UNCHANGED fails
  BY <1>1, <1>3, AppendType, StackType DEF TypeOK
<1> QED
  BY <1>2, <1>3 DEF Logs

\* The straight-line steps and the pages touch the stack, the log and fails.
LEMMA LineType ==
  ASSUME TypeOK, NEW pc \in Steps, NEW kind \in Kinds, NEW next \in Steps \cup {"return"},
         Line(pc, kind, next)
  PROVE  TypeOK'
<1>1. stack' \in Seq(Frame) /\ log' \in Seq(LogEntry) /\ fails' \in Nat
  BY LogsType DEF Line, At
<1> QED
  BY <1>1 DEF Line, TypeOK, gate, memory, ghosts, setting

\* so does paging a person,
LEMMA PageType ==
  ASSUME TypeOK, NEW pc \in Steps, NEW next \in Steps \cup {"return"}, Page(pc, next)
  PROVE  TypeOK'
<1>1. stack # <<>>
  BY DEF Page, At
<1>2. stack' \in Seq(Frame) /\ log' \in Seq(LogEntry) /\ fails' \in Nat
  <2>1. CASE Then(next) /\ UNCHANGED <<log, fails>>
    BY <1>1, <2>1, StackType DEF TypeOK
  <2>2. ASSUME NEW kind \in Outcomes, Logs(kind, next)
        PROVE  stack' \in Seq(Frame) /\ log' \in Seq(LogEntry) /\ fails' \in Nat
    <3>1. kind \in Kinds
      BY ConfigAssumption DEF Kinds
    <3> QED
      BY <1>1, <2>2, <3>1, LogsType
  <2> QED
    BY <2>1, <2>2 DEF Page
<1> QED
  BY <1>2 DEF Page, TypeOK, gate, memory, ghosts, setting

\* so do the steps with nothing but a line,
LEMMA LinesType ==
  ASSUME TypeOK, Lines \/ Notifier
  PROVE  TypeOK'
BY LineType, PageType DEF Lines, Notifier, Steps, Kinds

\* The steps of send, by what they do to the stack.
LEMMA SendType ==
  ASSUME TypeOK, Send
  PROVE  TypeOK'
<1> stack # <<>>
  BY DEF Send, Duplicate, Suspend, Suspended, Admit, Schema, Forgery, OffTrack,
         GateCleared, GateHolds, OnTrack, Persist, Review, Flag, DeliverToQueue,
         NoHandler, RunHandler, HandlerReturns, HandlerRaises, Escalate, At
<1> Top \in Frame /\ Top.env \in Envelope /\ Top.proof \in ProofKinds \cup {"none"}
  BY StackType DEF Frame
<1> KeyOf(Top.env) \in LoopKey
  BY KeyOfType
<1> USE DEF gate, memory, ghosts, setting
<1>1. CASE Duplicate
  BY <1>1, StackType DEF Duplicate, TypeOK, Steps
<1>2. CASE Suspend
  <2>1. stack' \in Seq(Frame)
    BY <1>2, StackType DEF Suspend, QueueAndNotify, Steps
  <2>2. loopCount' \in [LoopKey -> Nat]
    BY <1>2 DEF Suspend, Count, TypeOK
  <2>3. queues' \in [QueueName -> SUBSET Envelope]
    BY <1>2 DEF Suspend, QueueAndNotify, Enqueue, TypeOK, QueueName
  <2> QED
    BY <1>2, <2>1, <2>2, <2>3 DEF Suspend, TypeOK
<1>3. CASE Suspended
  <2>1. CASE Logs("loop.suspended", "return")
    BY <1>3, <2>1, LogsType DEF Suspended, TypeOK, Kinds
  <2>2. CASE Return /\ UNCHANGED <<log, fails>>
    BY <1>3, <2>2, StackType DEF Suspended, TypeOK
  <2> QED
    BY <1>3, <2>1, <2>2 DEF Suspended
<1>4. CASE Admit
  BY <1>4, StackType DEF Admit, Count, TypeOK, Steps
<1>5. CASE Schema
  BY <1>5, StackType DEF Schema, TypeOK, Steps
<1>6. CASE Forgery
  BY <1>6, StackType DEF Forgery, QueueAndNotify, Enqueue, TypeOK, Steps, QueueName
<1>7. CASE OffTrack
  BY <1>7, StackType DEF OffTrack, QueueAndNotify, Enqueue, TypeOK, Steps, QueueName
<1>8. CASE GateCleared
  BY <1>8, StackType DEF GateCleared, TypeOK, Steps
<1>9. CASE GateHolds
  BY <1>9, StackType DEF GateHolds, QueueAndNotify, Enqueue, TypeOK, Steps, QueueName
<1>10. CASE OnTrack
  BY <1>10, StackType DEF OnTrack, TypeOK, Steps
<1>11. CASE Persist
  <2> DEFINE n == seq[Msg[Top.env].ctx] + 1
  <2>0. Msg[Top.env].ctx \in Ctx
    BY DEF Ctx
  <2>1. Msg[Top.env].ctx \in Ctx /\ n \in Nat
    BY <2>0 DEF TypeOK
  <2>2. CASE AppendRaises(Entry("envelope.persisted", Top.env, n)) /\ UNCHANGED <<seq, seen>>
    BY <1>11, <2>1, <2>2, AppendType DEF Persist, TypeOK, Kinds
  <2>3. CASE /\ log' = Append(log, Entry("envelope.persisted", Top.env, n))
             /\ seq' = [seq EXCEPT ![Msg[Top.env].ctx] = n]
             /\ seen' = seen \cup {Top.env}
             /\ Goto(IF HasSelfcheck THEN "selfcheck" ELSE "deliver")
             /\ UNCHANGED fails
    BY <1>11, <2>1, <2>3, AppendType, StackType DEF Persist, TypeOK, Kinds, Steps
  <2> QED
    BY <1>11, <2>2, <2>3 DEF Persist
<1>12. CASE Review
  BY <1>12, StackType DEF Review, TypeOK, Steps
<1>13. CASE Flag
  BY <1>13, StackType DEF Flag, QueueAndNotify, Enqueue, TypeOK, Steps, QueueName
<1>14. CASE DeliverToQueue
  BY <1>14, StackType DEF DeliverToQueue, QueueAndNotify, Enqueue, TypeOK, Steps, QueueName
<1>15. CASE NoHandler
  BY <1>15, StackType DEF NoHandler, Enqueue, TypeOK, Steps, QueueName
<1>16. CASE RunHandler
  BY <1>16, StackType DEF RunHandler, TypeOK, Steps
<1>17. CASE HandlerReturns
  BY <1>17, StackType DEF HandlerReturns, TypeOK, Steps
<1>18. CASE HandlerRaises
  BY <1>18, StackType DEF HandlerRaises, Enqueue, TypeOK, Steps, QueueName
<1>19. CASE Escalate
  BY <1>19, StackType DEF Escalate, Enqueue, TypeOK, Steps, QueueName
<1> QED
  BY <1>1, <1>2, <1>3, <1>4, <1>5, <1>6, <1>7, <1>8, <1>9, <1>10, <1>11, <1>12,
     <1>13, <1>14, <1>15, <1>16, <1>17, <1>18, <1>19 DEF Send
\* and those of keys, resumptions and notices.
LEMMA KeyType ==
  ASSUME TypeOK, Key \/ Resume \/ Notify
  PROVE  TypeOK'
<1> stack # <<>>
  BY DEF Key, KeyDenied, Release, Decline, KeyAccepted, Resume, Notify, At
<1> Top \in Frame /\ Top.env \in Envelope
  BY StackType DEF Frame
<1> KeyOf(Top.env) \in LoopKey
  BY KeyOfType
<1> USE DEF gate, memory, ghosts, setting
<1>1. CASE KeyDenied("release") \/ KeyDenied("decline")
  <2>1. stack' \in Seq(Frame)
    BY <1>1, StackType DEF KeyDenied, QueueAndNotify, Steps
  <2>2. queues' \in [QueueName -> SUBSET Envelope]
    <3>1. Enqueue(Integrity) \/ queues' = queues
      BY <1>1 DEF KeyDenied, QueueAndNotify
    <3>2. Integrity \in QueueName /\ queues \in [QueueName -> SUBSET Envelope]
      BY DEF TypeOK, QueueName
    <3>3. queues' = queues \/ queues' = [queues EXCEPT ![Integrity] = queues[Integrity] \cup {Top.env}]
      BY <3>1 DEF Enqueue
    <3>4. queues[Integrity] \cup {Top.env} \subseteq Envelope
      BY <3>2
    <3> QED
      BY <3>2, <3>3, <3>4
  <2> QED
    BY <1>1, <2>1, <2>2 DEF KeyDenied, TypeOK
<1>2. CASE Release
  <2>1. holds[Top.env] \in ProofKinds \cup {"none"}
    BY DEF TypeOK
  <2>2. stack' \in Seq(Frame)
    <3> DEFINE f == [Top EXCEPT !.pc = "authorized", !.proof = holds[Top.env]]
    <3>1. f \in Frame
      BY <2>1 DEF Frame, Steps
    <3>2. stack \in Seq(Frame) /\ stack' = [stack EXCEPT ![Len(stack)] = f]
      BY <1>2 DEF Release, TypeOK, Top
    <3> HIDE DEF f
    <3> QED
      BY <3>1, <3>2
  <2>3. keys' \in [Envelope -> Nat]
    BY <1>2 DEF Release, CountKey, TypeOK
  <2>4. holds' \in [Envelope -> ProofKinds \cup {"none"}]
    BY <1>2 DEF Release, KeyAccepted, TypeOK
  <2> QED
    BY <1>2, <2>2, <2>3, <2>4 DEF Release, TypeOK
<1>3. CASE Decline
  BY <1>3, StackType DEF Decline, KeyAccepted, TypeOK, Steps
<1>4. CASE Resume
  BY <1>4, StackType DEF Resume, TypeOK, Steps
<1>5. CASE Notify
  BY <1>5, StackType DEF Notify, TypeOK, Steps
<1> QED
  BY <1>1, <1>2, <1>3, <1>4, <1>5 DEF Key

\* What callers and the unlocked operations do.
LEMMA OtherType ==
  ASSUME TypeOK, Caller \/ (\E a \in Agent : Register(a)) \/ Arm \/ Restart
  PROVE  TypeOK'
<1> USE DEF gate, memory, ghosts, setting
<1>1. CASE Caller
  <2>1. PICK op \in Steps, e \in Envelope, p \in ProofKinds \cup {"none"},
             d \in {"release", "decline", "none"} : Call(op, e, p, d)
    BY <1>1, ConfigAssumption DEF Caller, Operations, Steps
  <2>2. [pc |-> op, env |-> e, proof |-> p, decision |-> d] \in Frame
    BY DEF Frame
  <2>3. stack' \in Seq(Frame)
    BY <2>1, <2>2, Pushed DEF Call, TypeOK
  <2> QED
    BY <2>1, <2>3 DEF Call, TypeOK
<1>2. CASE \E a \in Agent : Register(a)
  BY <1>2 DEF Register, TypeOK
<1>3. CASE Arm
  <2>1. Entry("signer.armed", "none", 0) \in LogEntry
    BY DEF Entry, LogEntry, Kinds, TypeOK
  <2>2. log' \in Seq(LogEntry)
    <3>1. Append(log, Entry("signer.armed", "none", 0)) \in Seq(LogEntry)
      BY <2>1, Pushed DEF TypeOK
    <3> QED
      BY <1>3, <3>1 DEF Arm, TypeOK
  <2> QED
    BY <1>3, <2>2 DEF Arm, TypeOK
<1>4. CASE Restart
  <2>1. [kind |-> "hub.boot", env |-> "none", seq |-> 0, boot |-> boots + 1] \in LogEntry
    BY DEF LogEntry, Kinds, TypeOK
  <2>2. log' \in Seq(LogEntry)
    BY <1>4, <2>1, Pushed DEF Restart, TypeOK
  <2>3. stack' \in Seq(Frame)
    BY <1>4 DEF Restart
  <2> QED
    BY <1>4, <2>2, <2>3, ConfigAssumption DEF Restart, TypeOK
<1> QED
  BY <1>1, <1>2, <1>3, <1>4

\* So does every step.
LEMMA NextType == TypeOK /\ [Next]_vars => TypeOK'
<1> SUFFICES ASSUME TypeOK, [Next]_vars PROVE TypeOK'
  OBVIOUS
<1>1. CASE UNCHANGED vars
  BY <1>1 DEF vars, gate, memory, ghosts, setting, TypeOK
<1> QED
  BY <1>1, LinesType, SendType, KeyType, OtherType DEF Next, HubStep

\* Every reachable state is well formed, whatever the constants.
THEOREM TypeCorrect == Spec => []TypeOK
  BY InitType, NextType, PTL DEF Spec

----------------------------------------------------------------------------
(* The invariant behind AckIsFact and DeliveredOnce *)

\* Steps of a send that has passed the dedupe and not yet persisted.
Pre == {"schema", "verified", "unarmed", "track", "cleared", "persist"}

\* Steps of a send that has persisted and whose handler has not run.
Pending == {"selfcheck", "passed", "deliver"}

\* Steps of a send that has persisted and may still log an ack or a dead letter.
Live == Pending \cup {"dead", "handler", "crashed", "ack"}

\* No ack and no dead letter of e stands on the log of this boot.
Unsettled(e) ==
  \A i \in DOMAIN log : log[i].boot = boots /\ log[i].env = e
                          => log[i].kind \notin {"ack", "dead.letter"}

\* Only a call that waits in foreign code has a call above it.
Nesting == \A k \in 1 .. Len(stack) - 1 : stack[k].pc \in Callbacks

FrameInv(f) ==
  /\ f.pc \in Pre => f.env \notin seen
  /\ f.pc \in Live => f.env \in seen /\ Unsettled(f.env)
  /\ f.pc \in Pending => runs[f.env] < boots
  /\ f.pc = "ack" => f.env \in finished

\* Two calls in progress never both stand after the persist of one envelope.
LiveOnce ==
  \A j, k \in 1 .. Len(stack) :
    j # k /\ stack[j].pc \in Live /\ stack[k].pc \in Live => stack[j].env # stack[k].env

SeenInv ==
  \A e \in Envelope :
    IF e \in seen
    THEN \E i \in DOMAIN log : /\ log[i].kind = "envelope.persisted"
                               /\ log[i].env = e /\ log[i].boot = boots
    ELSE Unsettled(e)

IInv ==
  /\ TypeOK
  /\ Nesting
  /\ \A k \in 1 .. Len(stack) : FrameInv(stack[k])
  /\ LiveOnce
  /\ SeenInv
  /\ \A i \in DOMAIN log : log[i].boot <= boots
  /\ AckIsFact
  /\ DeliveredOnce

\* The invariant holds at first.
LEMMA InitInv == Init => IInv
<1> SUFFICES ASSUME Init PROVE IInv
  OBVIOUS
<1>1. TypeOK
  BY InitType
<1>2. stack = <<>> /\ Len(stack) = 0 /\ DOMAIN log = {1} /\ log[1].kind = "hub.boot"
      /\ log[1].boot = 1 /\ seen = {} /\ boots = 1
  BY DEF Init
<1>3. SeenInv
  BY <1>2 DEF SeenInv, Unsettled
<1>4. DeliveredOnce
  BY <1>2 DEF DeliveredOnce, Init
<1> QED
  BY <1>1, <1>2, <1>3, <1>4 DEF IInv, Nesting, FrameInv, LiveOnce, AckIsFact

\* The top call returns, or goes on at q with the same envelope.
TopGoes(q) ==
  \/ q = "return" /\ Return
  \/ /\ q \in Steps
     /\ \E f \in Frame : /\ f.pc = q /\ f.env = Top.env
                         /\ stack' = [stack EXCEPT ![Len(stack)] = f]

\* What becomes of the stack when only its top goes on.
LEMMA TopGoesOn ==
  ASSUME TypeOK, stack # <<>>, NEW q, TopGoes(q)
  PROVE  /\ Len(stack) \in Nat \ {0}
         /\ Len(stack') \in {Len(stack) - 1, Len(stack)}
         /\ \A k \in 1 .. Len(stack) - 1 : stack'[k] = stack[k]
         /\ Len(stack') = Len(stack) =>
              stack'[Len(stack)].pc = q /\ stack'[Len(stack)].env = Top.env
<1> stack \in Seq(Frame)
  BY DEF TypeOK
<1>1. CASE q = "return" /\ Return
  BY <1>1, Popped DEF Return
<1>2. ASSUME NEW f \in Frame, f.pc = q, f.env = Top.env,
             stack' = [stack EXCEPT ![Len(stack)] = f]
      PROVE  /\ Len(stack) \in Nat \ {0}
             /\ Len(stack') = Len(stack)
             /\ \A k \in 1 .. Len(stack) - 1 : stack'[k] = stack[k]
             /\ stack'[Len(stack)] = f
  BY <1>2
<1> QED
  BY <1>1, <1>2 DEF TopGoes

\* The log is left alone, or gains one entry about the top call's envelope.
LogGrows(kind, n) == log' = log \/ log' = Append(log, Entry(kind, Top.env, n))

\* What becomes of the log when one line is written, or none.
LEMMA LogGrowsBy ==
  ASSUME TypeOK, TypeOK', NEW kind, NEW n, LogGrows(kind, n)
  PROVE  /\ Len(log) \in Nat /\ DOMAIN log = 1 .. Len(log) /\ DOMAIN log' = 1 .. Len(log')
         /\ \A i \in 1 .. Len(log) : log'[i] = log[i]
         /\ \/ Len(log') = Len(log)
            \/ Len(log') = Len(log) + 1 /\ log'[Len(log) + 1] = Entry(kind, Top.env, n)
<1> log \in Seq(LogEntry) /\ log' \in Seq(LogEntry)
  BY DEF TypeOK
<1>1. CASE log' = log
  BY <1>1
<1>2. CASE log' = Append(log, Entry(kind, Top.env, n))
  BY <1>2
<1> QED
  BY <1>1, <1>2 DEF LogGrows

\* The old entries keep saying what they said, so AckIsFact is about the new one.
LEMMA AckIsFactStep ==
  ASSUME TypeOK, TypeOK', AckIsFact, NEW kind, NEW n, LogGrows(kind, n),
         boots' = boots, finished \subseteq finished',
         kind = "ack" /\ log' # log =>
           /\ Unsettled(Top.env)
           /\ Top.env \in finished'
           /\ \E i \in DOMAIN log : /\ log[i].kind = "envelope.persisted"
                                    /\ log[i].env = Top.env /\ log[i].boot = boots
  PROVE  AckIsFact'
<1> SUFFICES ASSUME NEW i \in DOMAIN log', log'[i].kind = "ack"
             PROVE  /\ Before(i, "envelope.persisted")' # {}
                    /\ Before(i, "ack")' = {} /\ Before(i, "dead.letter")' = {}
                    /\ log'[i].boot = boots' => log'[i].env \in finished'
  BY DEF AckIsFact
<1>1. CASE i \in 1 .. Len(log)
  <2>1. \A k : Before(i, k)' = Before(i, k)
    BY <1>1, LogGrowsBy DEF Before
  <2>2. log'[i] = log[i] /\ i \in DOMAIN log
    BY <1>1, LogGrowsBy
  <2> QED
    BY <2>1, <2>2 DEF AckIsFact
<1>2. CASE i \notin 1 .. Len(log)
  <2>1. /\ i = Len(log) + 1 /\ log' # log /\ Len(log) \in Nat
        /\ log'[i] = Entry(kind, Top.env, n)
        /\ \A j \in 1 .. Len(log) : log'[j] = log[j]
        /\ DOMAIN log = 1 .. Len(log)
    BY <1>2, LogGrowsBy
  <2>2. kind = "ack" /\ log'[i].env = Top.env /\ log'[i].boot = boots
    BY <2>1 DEF Entry
  <2>3. \A j \in 1 .. i - 1 : log'[j] = log[j] /\ j \in DOMAIN log
    BY <2>1
  <2>4. Before(i, "ack")' = {} /\ Before(i, "dead.letter")' = {}
    BY <2>1, <2>2, <2>3 DEF Unsettled, Before
  <2>5. PICK p \in DOMAIN log : /\ log[p].kind = "envelope.persisted"
                                /\ log[p].env = Top.env /\ log[p].boot = boots
    BY <2>1, <2>2
  <2>6. p \in Before(i, "envelope.persisted")'
    BY <2>1, <2>2, <2>3, <2>5 DEF Before
  <2> QED
    BY <2>1, <2>2, <2>4, <2>6
<1> QED
  BY <1>1, <1>2

\* A step that marks nothing seen, runs no handler and boots nothing: it keeps
\* the invariant if the top call may enter q, and logs an ack or a dead letter
\* only as the last word on a live envelope.
LEMMA StepInv ==
  ASSUME IInv, TypeOK', stack # <<>>, NEW q, NEW kind, NEW n,
         TopGoes(q), LogGrows(kind, n),
         seen' = seen, runs' = runs, boots' = boots, finished \subseteq finished',
         q \in Pre => Top.env \notin seen,
         q \in Live => Top.pc \in Live,
         q \in Pending => Top.pc \in Pending,
         q = "ack" => Top.env \in finished',
         log' # log /\ kind \in {"ack", "dead.letter"} => Top.pc \in Live /\ q \notin Live,
         log' # log /\ kind = "ack" => Top.pc = "ack"
  PROVE  IInv'
<1> DEFINE top == Len(stack)
<1>1. /\ top \in Nat \ {0} /\ Len(stack') \in {top - 1, top}
      /\ \A k \in 1 .. top - 1 : stack'[k] = stack[k]
      /\ Len(stack') = top => stack'[top].pc = q /\ stack'[top].env = Top.env
      /\ stack[top] = Top
  BY TopGoesOn DEF IInv, Top
<1> HIDE DEF top
<1>2. TypeOK
  BY DEF IInv
<1>3. FrameInv(Top)
  BY <1>1 DEF IInv, top
<1>4. \A k \in 1 .. top - 1 : FrameInv(stack[k])
  BY <1>1 DEF IInv, top
<1>5. Top.env \in Envelope
  BY StackType, <1>2 DEF Frame
\* An entry of the new log is an old one, or the new one.
<1>0. ASSUME NEW i \in DOMAIN log', i \notin DOMAIN log
      PROVE  log' # log /\ log'[i].kind = kind /\ log'[i].env = Top.env /\ log'[i].boot = boots
  <2>1. log' # log /\ log'[i] = Entry(kind, Top.env, n)
    BY <1>0, <1>2, LogGrowsBy
  <2> QED
    BY <2>1 DEF Entry
<1>00. \A i \in DOMAIN log : i \in DOMAIN log' /\ log'[i] = log[i]
  BY <1>2, LogGrowsBy
<1>01. \A i \in DOMAIN log' :
         \/ i \in DOMAIN log /\ log'[i] = log[i]
         \/ log' # log /\ log'[i].kind = kind /\ log'[i].env = Top.env /\ log'[i].boot = boots
  BY <1>0, <1>00
\* What was unsettled stays so, the settling step's own envelope apart.
<1>6. ASSUME NEW e, Unsettled(e),
             e = Top.env /\ log' # log => kind \notin {"ack", "dead.letter"}
      PROVE  Unsettled(e)'
  <2> SUFFICES ASSUME NEW i \in DOMAIN log', log'[i].boot = boots, log'[i].env = e
               PROVE  log'[i].kind \notin {"ack", "dead.letter"}
    BY DEF Unsettled
  <2> QED
    BY <1>01, <1>6 DEF Unsettled
<1>7. Nesting'
  BY <1>1 DEF IInv, Nesting, top
<1>8. LiveOnce'
  <2> SUFFICES ASSUME NEW j \in 1 .. Len(stack'), NEW k \in 1 .. Len(stack'), j # k,
                      stack'[j].pc \in Live, stack'[k].pc \in Live
               PROVE  stack'[j].env # stack'[k].env
    BY DEF LiveOnce
  <2>1. \A m \in 1 .. Len(stack') :
          /\ m \in 1 .. top
          /\ stack'[m].env = stack[m].env
          /\ stack'[m].pc \in Live => stack[m].pc \in Live
    BY <1>1
  <2> QED
    BY <2>1 DEF IInv, LiveOnce, top
<1>9. \A k \in 1 .. Len(stack') : FrameInv(stack[k])'
  <2> SUFFICES ASSUME NEW k \in 1 .. Len(stack') PROVE FrameInv(stack[k])'
    OBVIOUS
  <2>1. CASE k = top
    <3>1. stack'[k].pc = q /\ stack'[k].env = Top.env
      BY <1>1, <2>1
    <3>2. ASSUME NEW e, e = Top.env, q \in Live
          PROVE  e \in seen /\ Unsettled(e)'
      <4>1. e \in seen /\ Unsettled(e)
        BY <1>3, <3>2 DEF FrameInv
      <4>2. log' # log => kind \notin {"ack", "dead.letter"}
        BY <3>2
      <4> QED
        BY <1>6, <4>1, <4>2
    <3>20. q \in Live => Unsettled(stack[k].env)' /\ stack'[k].env \in seen
      BY <3>1, <3>2
    <3>3. q \in Pending => runs[Top.env] < boots
      BY <1>3 DEF FrameInv
    <3> QED
      BY <3>1, <3>20, <3>3 DEF FrameInv
  <2>2. CASE k # top
    <3>1. k \in 1 .. top - 1 /\ stack'[k] = stack[k] /\ FrameInv(stack[k])
      BY <1>1, <1>4, <2>2
    <3>2. stack[k].pc \in Live /\ Top.pc \in Live => stack[k].env # Top.env
      BY <1>1, <3>1 DEF IInv, LiveOnce, top
    <3>3. stack[k].pc \in Live => Unsettled(stack[k].env)'
      BY <1>6, <3>1, <3>2 DEF FrameInv
    <3> QED
      BY <3>1, <3>3 DEF FrameInv
  <2> QED
    BY <2>1, <2>2
<1>10. SeenInv'
  <2> SUFFICES ASSUME NEW e \in Envelope
               PROVE  IF e \in seen
                      THEN \E i \in DOMAIN log' : /\ log'[i].kind = "envelope.persisted"
                                                  /\ log'[i].env = e /\ log'[i].boot = boots
                      ELSE Unsettled(e)'
    BY DEF SeenInv
  <2>1. CASE e \in seen
    <3>1. PICK i \in DOMAIN log : /\ log[i].kind = "envelope.persisted"
                                  /\ log[i].env = e /\ log[i].boot = boots
      BY <2>1 DEF IInv, SeenInv
    <3>2. i \in DOMAIN log' /\ log'[i] = log[i]
      BY <1>00
    <3> QED
      BY <2>1, <3>1, <3>2
  <2>2. CASE e \notin seen
    <3>1. Unsettled(e)
      BY <2>2 DEF IInv, SeenInv
    <3>2. log' # log /\ kind \in {"ack", "dead.letter"} => e # Top.env
      BY <1>3, <2>2 DEF FrameInv
    <3> QED
      BY <1>6, <2>2, <3>1, <3>2
  <2> QED
    BY <2>1, <2>2
<1>11. \A i \in DOMAIN log' : log'[i].boot <= boots'
  <2>1. boots <= boots
    BY <1>2 DEF TypeOK
  <2> QED
    BY <1>01, <2>1 DEF IInv
<1>12. AckIsFact'
  <2>1. kind = "ack" /\ log' # log =>
          /\ Unsettled(Top.env)
          /\ Top.env \in finished'
          /\ \E i \in DOMAIN log : /\ log[i].kind = "envelope.persisted"
                                   /\ log[i].env = Top.env /\ log[i].boot = boots
    BY <1>3, <1>5 DEF FrameInv, IInv, SeenInv, Live
  <2> QED
    BY <1>2, <2>1, AckIsFactStep DEF IInv
<1>13. DeliveredOnce'
  BY DEF IInv, DeliveredOnce
<1> QED
  BY <1>7, <1>8, <1>9, <1>10, <1>11, <1>12, <1>13 DEF IInv

----------------------------------------------------------------------------
(* The actions as such steps *)

\* A step that only goes on touches the top alone.
LEMMA GotoGoes ==
  ASSUME TypeOK, stack # <<>>, NEW pc \in Steps, Goto(pc)
  PROVE  TopGoes(pc)
<1>1. stack \in Seq(Frame) /\ Top \in Frame
  BY StackType DEF TypeOK
<1>2. stack' = [stack EXCEPT ![Len(stack)] = [Top EXCEPT !.pc = pc]]
  BY DEF Goto, Top
<1>3. /\ [Top EXCEPT !.pc = pc] \in Frame
      /\ [Top EXCEPT !.pc = pc].pc = pc
      /\ [Top EXCEPT !.pc = pc].env = Top.env
  BY <1>1 DEF Frame
<1> QED
  BY <1>2, <1>3 DEF TopGoes

\* A logging step logs its kind and goes on, or returns without going on.
LEMMA LogsGoes ==
  ASSUME TypeOK, stack # <<>>, NEW kind, NEW pc \in Steps \cup {"return"}, Logs(kind, pc)
  PROVE  /\ LogGrows(kind, 0)
         /\ TopGoes(pc) \/ TopGoes("return")
<1>1. Then(pc) => TopGoes(pc)
  BY GotoGoes DEF Then, TopGoes
<1> QED
  BY <1>1 DEF Logs, LogGrows, AppendRaises, TopGoes

\* Which pcs may follow which, and which kinds they may log on the way.
MayFollow(pc, kind, next) ==
  /\ next \in Pre => pc \in Pre
  /\ next \in Live => pc \in Live
  /\ next \in Pending => pc \in Pending
  /\ next # "ack"
  /\ kind \in {"ack", "dead.letter"} => pc \in Live /\ next \notin Live
  /\ kind = "ack" => pc = "ack"

\* A line and the step behind it keep the invariant if the one may follow the other.
LEMMA LogsInv ==
  ASSUME IInv, TypeOK', stack # <<>>, NEW kind, NEW next \in Steps \cup {"return"},
         Logs(kind, next), MayFollow(Top.pc, kind, next),
         UNCHANGED <<seen, runs, boots, finished>>
  PROVE  IInv'
<1>1. TypeOK /\ FrameInv(Top)
  BY LastOf DEF IInv, TypeOK, Top
<1>2. LogGrows(kind, 0) /\ (TopGoes(next) \/ TopGoes("return"))
  BY <1>1, LogsGoes
<1>3. CASE TopGoes(next)
  BY <1>1, <1>2, <1>3, StepInv DEF MayFollow, FrameInv
<1>4. CASE TopGoes("return")
  BY <1>1, <1>2, <1>4, StepInv DEF MayFollow, Pre, Live, Pending
<1> QED
  BY <1>2, <1>3, <1>4

\* The steps with nothing but a line keep it,
LEMMA LinesInv ==
  ASSUME IInv, TypeOK', Lines
  PROVE  IInv'
<1>1. \A pc, kind : \A next \in Steps \cup {"return"} :
        Line(pc, kind, next) /\ MayFollow(pc, kind, next) => IInv'
  BY LogsInv DEF Line, At, memory, ghosts, setting
<1> QED
  BY <1>1 DEF Lines, MayFollow, Steps, Pre, Live, Pending

\* so do those of paging a person,
LEMMA NotifierInv ==
  ASSUME IInv, TypeOK', Notifier
  PROVE  IInv'
<1>1. ASSUME NEW pc \in Pages, NEW next \in (Steps \cup {"return"}) \ (Pre \cup Live), Page(pc, next)
      PROVE  IInv'
  <2>1. stack # <<>> /\ Top.pc = pc /\ TypeOK /\ UNCHANGED <<seen, runs, boots, finished>>
    BY <1>1 DEF Page, At, IInv, memory, ghosts, setting
  <2>2. next \notin Pending /\ next # "ack"
    BY DEF Live
  <2>3. CASE Then(next) /\ UNCHANGED <<log, fails>>
    <3>1. TopGoes(next)
      BY <2>1, <2>3, GotoGoes DEF Then, TopGoes
    <3>2. LogGrows("human.notified", 0)
      BY <2>3 DEF LogGrows
    <3> QED
      BY <2>1, <2>2, <3>1, <3>2, StepInv
  <2>4. ASSUME NEW kind \in Outcomes, Logs(kind, next)
        PROVE  IInv'
    <3>1. kind \notin {"ack", "dead.letter"}
      BY ConfigAssumption
    <3> QED
      BY <2>1, <2>2, <2>4, <3>1, LogsInv DEF MayFollow
  <2> QED
    BY <1>1, <2>3, <2>4 DEF Page
<1> QED
  BY <1>1 DEF Notifier, Pages, Steps, Pre, Live, Pending

\* A step of the code without a log entry.
LEMMA GotoInv ==
  ASSUME IInv, TypeOK', stack # <<>>, NEW pc \in Steps, Goto(pc),
         UNCHANGED <<log, seen, runs, boots>>, finished \subseteq finished',
         pc \in Pre => Top.env \notin seen,
         pc \in Live => Top.pc \in Live,
         pc \in Pending => Top.pc \in Pending,
         pc = "ack" => Top.env \in finished'
  PROVE  IInv'
<1>1. TopGoes(pc) /\ LogGrows("reject", 0)
  BY GotoGoes DEF IInv, LogGrows
<1> QED
  BY <1>1, StepInv

\* Return without a log entry.
LEMMA ReturnInv ==
  ASSUME IInv, TypeOK', stack # <<>>, Return,
         UNCHANGED <<log, seen, runs, boots, finished>>
  PROVE  IInv'
<1>1. TopGoes("return") /\ LogGrows("reject", 0)
  BY DEF TopGoes, LogGrows
<1> QED
  BY <1>1, StepInv DEF Pre, Live, Pending

\* The persist: the id was not seen, so no other live call stands on it.
LEMMA PersistInv ==
  ASSUME IInv, TypeOK', Persist
  PROVE  IInv'
<1> DEFINE e == Top.env
           n == seq[Msg[e].ctx] + 1
           top == Len(stack)
<1>1. /\ TypeOK /\ stack # <<>> /\ Top.pc = "persist" /\ stack[top] = Top
      /\ stack \in Seq(Frame) /\ Top \in Frame
      /\ UNCHANGED <<runs, boots, finished>>
  BY StackType DEF Persist, At, IInv, Top, ghosts, setting, TypeOK
<1>2. CASE AppendRaises(Entry("envelope.persisted", e, n)) /\ UNCHANGED <<seq, seen>>
  <2>1. TopGoes("return") /\ LogGrows("envelope.persisted", n)
    BY <1>2 DEF AppendRaises, TopGoes, LogGrows
  <2> QED
    BY <1>1, <1>2, <2>1, StepInv DEF Pre, Live, Pending
<1>3. CASE /\ log' = Append(log, Entry("envelope.persisted", e, n))
           /\ seen' = seen \cup {e}
           /\ Goto(IF HasSelfcheck THEN "selfcheck" ELSE "deliver")
  <2>1. PICK next \in Pending : TopGoes(next)
    <3>1. HasSelfcheck \in BOOLEAN
      BY ConfigAssumption
    <3> QED
      BY <1>1, <1>3, <3>1, GotoGoes DEF Pending, Steps
  <2>2. /\ top \in Nat \ {0} /\ Len(stack') \in {top - 1, top}
        /\ \A k \in 1 .. top - 1 : stack'[k] = stack[k]
        /\ Len(stack') = top => stack'[top].pc = next /\ stack'[top].env = Top.env
    BY <1>1, <2>1, TopGoesOn
  <2>3. \A k \in 1 .. top : FrameInv(stack[k])
    BY <2>2 DEF IInv
  <2>4. Top.env \notin seen /\ Top.env \in Envelope
    BY <1>1, <2>2, <2>3 DEF FrameInv, Pre, Frame
  <2> HIDE DEF top, n, e
  <2>5. LogGrows("envelope.persisted", n) /\ e = Top.env
    BY <1>3 DEF LogGrows, e
  <2>6. \A i \in DOMAIN log : i \in DOMAIN log' /\ log'[i] = log[i]
    BY <1>1, <2>5, LogGrowsBy
  <2>7. /\ Len(log) + 1 \in DOMAIN log'
        /\ log'[Len(log) + 1] = Entry("envelope.persisted", e, n)
        /\ \A i \in DOMAIN log' : i \in DOMAIN log \/ i = Len(log) + 1
    BY <1>1, <1>3 DEF TypeOK
  <2>8. /\ log'[Len(log) + 1].kind = "envelope.persisted"
        /\ log'[Len(log) + 1].env = e
        /\ log'[Len(log) + 1].boot = boots
    BY <2>7 DEF Entry
  <2>9. \A d : Unsettled(d) => Unsettled(d)'
    BY <1>1, <2>6, <2>7, <2>8 DEF Unsettled
  <2>10. Nesting'
    BY <2>2 DEF IInv, Nesting, top
  \* Below the top no call is live on e, and none is before its persist.
  <2>11. \A k \in 1 .. top - 1 :
           /\ stack[k].pc \notin Pre
           /\ stack[k].pc \in Live => stack[k].env # e
    <3>1. \A k \in 1 .. top - 1 : stack[k].pc \in Callbacks
      BY DEF IInv, Nesting, top
    <3>2. \A k \in 1 .. top - 1 : stack[k].pc \in Live => stack[k].env \in seen
      BY <2>2, <2>3 DEF FrameInv
    <3> QED
      BY <2>4, <2>5, <3>1, <3>2 DEF Callbacks, Pages, Pre
  <2>12. LiveOnce'
    <3> SUFFICES ASSUME NEW j \in 1 .. Len(stack'), NEW k \in 1 .. Len(stack'), j # k,
                        stack'[j].pc \in Live, stack'[k].pc \in Live
                 PROVE  stack'[j].env # stack'[k].env
      BY DEF LiveOnce
    <3>1. j \in 1 .. top /\ k \in 1 .. top
      BY <2>2
    <3>2. CASE j # top /\ k # top
      BY <2>2, <3>1, <3>2 DEF IInv, LiveOnce, top
    <3>3. CASE j = top \/ k = top
      BY <2>2, <2>5, <2>11, <3>1, <3>3
    <3> QED
      BY <3>2, <3>3
  <2>13. \A k \in 1 .. Len(stack') : FrameInv(stack[k])'
    <3> SUFFICES ASSUME NEW k \in 1 .. Len(stack') PROVE FrameInv(stack[k])'
      OBVIOUS
    <3>1. CASE k = top
      <4>1. stack'[k].pc = next /\ stack'[k].env = e
        BY <2>2, <2>5, <3>1
      <4>2. Unsettled(e) /\ runs[e] < boots
        BY <2>4, <2>5 DEF IInv, SeenInv, DeliveredOnce
      <4>3. e \in seen' /\ next \notin Pre /\ next # "ack"
        BY <1>3 DEF Pending, Pre
      <4>4. \A d : d = e => Unsettled(d)'
        BY <2>9, <4>2
      <4> QED
        BY <1>1, <4>1, <4>2, <4>3, <4>4 DEF FrameInv
    <3>2. CASE k # top
      <4>1. k \in 1 .. top - 1 /\ stack'[k] = stack[k] /\ FrameInv(stack[k])
        BY <2>2, <2>3, <3>2
      <4>2. stack[k].pc \in Live => Unsettled(stack[k].env)'
        BY <2>9, <4>1 DEF FrameInv
      <4> QED
        BY <1>1, <1>3, <2>11, <4>1, <4>2 DEF FrameInv
    <3> QED
      BY <3>1, <3>2
  <2>14. SeenInv'
    <3> SUFFICES ASSUME NEW d \in Envelope
                 PROVE  IF d \in seen'
                        THEN \E i \in DOMAIN log' : /\ log'[i].kind = "envelope.persisted"
                                                    /\ log'[i].env = d /\ log'[i].boot = boots'
                        ELSE Unsettled(d)'
      BY DEF SeenInv
    <3>1. CASE d = e
      BY <1>1, <1>3, <2>7, <2>8, <3>1
    <3>2. CASE d # e
      BY <1>1, <1>3, <2>6, <2>9, <3>2 DEF IInv, SeenInv
    <3> QED
      BY <3>1, <3>2
  <2>15. \A i \in DOMAIN log' : log'[i].boot <= boots'
    <3>1. boots <= boots
      BY <1>1 DEF TypeOK
    <3> QED
      BY <1>1, <2>6, <2>7, <2>8, <3>1 DEF IInv
  <2>16. AckIsFact'
    BY <1>1, <2>5, AckIsFactStep DEF IInv
  <2>17. DeliveredOnce'
    BY <1>1, <1>3 DEF IInv, DeliveredOnce
  <2> QED
    BY <2>10, <2>12, <2>13, <2>14, <2>15, <2>16, <2>17 DEF IInv
<1> QED
  BY <1>2, <1>3 DEF Persist

\* The delivery: the first run of the handler in this boot.
LEMMA RunHandlerInv ==
  ASSUME IInv, TypeOK', RunHandler
  PROVE  IInv'
<1> DEFINE e == Top.env
           top == Len(stack)
<1>1. /\ TypeOK /\ stack # <<>> /\ Top.pc = "deliver" /\ stack[top] = Top
      /\ Top \in Frame
      /\ UNCHANGED <<log, seen, boots, finished>>
  BY StackType DEF RunHandler, At, IInv, Top, memory, setting
<1>2. TopGoes("handler")
  BY <1>1, GotoGoes DEF RunHandler, Steps
<1>3. /\ top \in Nat \ {0} /\ Len(stack') \in {top - 1, top}
      /\ \A k \in 1 .. top - 1 : stack'[k] = stack[k]
      /\ Len(stack') = top => stack'[top].pc = "handler" /\ stack'[top].env = e
  BY <1>1, <1>2, TopGoesOn
<1>4. \A k \in 1 .. top : FrameInv(stack[k])
  BY <1>3 DEF IInv
<1>5. e \in Envelope /\ e \in seen /\ Unsettled(e) /\ runs[e] < boots
  BY <1>1, <1>3, <1>4 DEF FrameInv, Live, Pending, Frame
<1>6. /\ runs' \in [Envelope -> Nat] /\ runs \in [Envelope -> Nat] /\ boots \in Nat
      /\ \A d \in Envelope : runs'[d] = IF d = e THEN runs[d] + 1 ELSE runs[d]
  BY <1>1 DEF RunHandler, TypeOK
<1> HIDE DEF top, e
<1>7. \A d : Unsettled(d) => Unsettled(d)'
  BY <1>1 DEF Unsettled
<1>8. Nesting'
  BY <1>3 DEF IInv, Nesting, top
<1>9. \A k \in 1 .. top - 1 : stack[k].pc \in Live => stack[k].env # e
  BY <1>1, <1>3 DEF IInv, LiveOnce, Live, Pending, top, e
<1>10. LiveOnce'
  <2> SUFFICES ASSUME NEW j \in 1 .. Len(stack'), NEW k \in 1 .. Len(stack'), j # k,
                      stack'[j].pc \in Live, stack'[k].pc \in Live
               PROVE  stack'[j].env # stack'[k].env
    BY DEF LiveOnce
  <2>1. j \in 1 .. top /\ k \in 1 .. top
    BY <1>3
  <2>2. CASE j # top /\ k # top
    BY <1>3, <2>1, <2>2 DEF IInv, LiveOnce, top
  <2>3. CASE j = top \/ k = top
    BY <1>3, <1>9, <2>1, <2>3
  <2> QED
    BY <2>2, <2>3
<1>11. \A k \in 1 .. Len(stack') : FrameInv(stack[k])'
  <2> SUFFICES ASSUME NEW k \in 1 .. Len(stack') PROVE FrameInv(stack[k])'
    OBVIOUS
  <2>1. CASE k = top
    <3>1. stack'[k].pc = "handler" /\ stack'[k].env = e
      BY <1>3, <2>1
    <3>2. \A d : d = e => Unsettled(d)'
      BY <1>5, <1>7
    <3> QED
      BY <1>1, <1>5, <3>1, <3>2 DEF FrameInv, Pre, Pending
  <2>2. CASE k # top
    <3>1. k \in 1 .. top - 1 /\ stack'[k] = stack[k] /\ FrameInv(stack[k])
      BY <1>3, <1>4, <2>2
    <3>2. stack[k].pc \in Live => Unsettled(stack[k].env)'
      BY <1>7, <3>1 DEF FrameInv
    <3>3. stack[k].env \in Envelope
      <4>1. stack[k] \in Frame
        BY <1>1, <1>3, <3>1 DEF TypeOK, top
      <4> QED
        BY <4>1 DEF Frame
    <3>4. stack[k].pc \in Pending => runs'[stack[k].env] < boots'
      BY <1>1, <1>6, <1>9, <3>1, <3>3 DEF FrameInv, Live
    <3> QED
      BY <1>1, <3>1, <3>2, <3>4 DEF FrameInv
  <2> QED
    BY <2>1, <2>2
<1>12. SeenInv'
  BY <1>1, <1>7 DEF IInv, SeenInv
<1>13. AckIsFact'
  <2>1. LogGrows("reject", 0)
    BY <1>1 DEF LogGrows
  <2> QED
    BY <1>1, <2>1, AckIsFactStep DEF IInv
<1>14. DeliveredOnce'
  BY <1>1, <1>5, <1>6 DEF IInv, DeliveredOnce
<1> QED
  BY <1>1, <1>8, <1>10, <1>11, <1>12, <1>13, <1>14 DEF IInv

\* those of sending,
LEMMA SendInv ==
  ASSUME IInv, TypeOK', Send
  PROVE  IInv'
<1>0. /\ stack # <<>> /\ FrameInv(Top) /\ TypeOK
  <2>1. stack # <<>>
    BY DEF Send, Duplicate, Suspend, Suspended, Admit, Schema, Forgery, OffTrack,
           GateCleared, GateHolds, OnTrack, Persist, Review, Flag, DeliverToQueue,
           NoHandler, RunHandler, HandlerReturns, HandlerRaises, Escalate, At
  <2> QED
    BY <2>1, LastOf DEF IInv, TypeOK, Top
<1> USE DEF At, memory, ghosts, setting
<1>1. CASE Duplicate
  BY <1>0, <1>1, GotoInv DEF Duplicate, Steps, Pre, Live, Pending
<1>2. CASE Suspend
  BY <1>0, <1>2, GotoInv DEF Suspend, QueueAndNotify, Steps, Pre, Live, Pending
<1>3. CASE Suspended
  <2>1. CASE Logs("loop.suspended", "return")
    BY <1>0, <1>3, <2>1, LogsInv DEF Suspended, MayFollow, Pre, Live, Pending
  <2>2. CASE Return /\ UNCHANGED <<log, fails>>
    BY <1>0, <1>3, <2>2, ReturnInv DEF Suspended
  <2> QED
    BY <1>3, <2>1, <2>2 DEF Suspended
<1>4. CASE Admit
  BY <1>0, <1>4, GotoInv DEF Admit, Steps, Pre, Live, Pending
<1>5. CASE Schema
  <2>1. PICK pc \in {"reject", "track", "forgery", "verified", "unarmed"} : Goto(pc)
    BY <1>5 DEF Schema
  <2>2. Top.env \notin seen
    BY <1>0, <1>5 DEF Schema, FrameInv, Pre
  <2> QED
    BY <1>0, <1>5, <2>1, <2>2, GotoInv DEF Schema, Steps, Live, Pending
<1>6. CASE Forgery
  BY <1>0, <1>6, GotoInv DEF Forgery, QueueAndNotify, Steps, Pre, Live, Pending
<1>7. CASE OffTrack
  BY <1>0, <1>7, GotoInv DEF OffTrack, QueueAndNotify, Steps, Pre, Live, Pending
<1>8. CASE GateCleared
  BY <1>0, <1>8, GotoInv DEF GateCleared, FrameInv, Steps, Pre, Live, Pending
<1>9. CASE GateHolds
  BY <1>0, <1>9, GotoInv DEF GateHolds, QueueAndNotify, Steps, Pre, Live, Pending
<1>10. CASE OnTrack
  BY <1>0, <1>10, GotoInv DEF OnTrack, FrameInv, Steps, Pre, Live, Pending
<1>11. CASE Persist
  BY <1>11, PersistInv
<1>12. CASE Review
  <2>1. CASE Return
    BY <1>0, <1>12, <2>1, ReturnInv DEF Review
  <2>2. CASE Goto("passed")
    BY <1>0, <1>12, <2>2, GotoInv DEF Review, Steps, Pre, Live, Pending
  <2>3. CASE Goto("failed")
    BY <1>0, <1>12, <2>3, GotoInv DEF Review, Steps, Pre, Live, Pending
  <2> QED
    BY <1>12, <2>1, <2>2, <2>3 DEF Review
<1>13. CASE Flag
  BY <1>0, <1>13, GotoInv DEF Flag, QueueAndNotify, Steps, Pre, Live, Pending
<1>14. CASE DeliverToQueue
  BY <1>0, <1>14, GotoInv DEF DeliverToQueue, QueueAndNotify, Steps, Pre, Live, Pending
<1>15. CASE NoHandler
  BY <1>0, <1>15, GotoInv DEF NoHandler, Steps, Pre, Live, Pending
<1>16. CASE RunHandler
  BY <1>16, RunHandlerInv
<1>17. CASE HandlerReturns
  BY <1>0, <1>17, GotoInv DEF HandlerReturns, Steps, Pre, Live, Pending
<1>18. CASE HandlerRaises
  BY <1>0, <1>18, GotoInv DEF HandlerRaises, Steps, Pre, Live, Pending
<1>19. CASE Escalate
  BY <1>0, <1>19, GotoInv DEF Escalate, Steps, Pre, Live, Pending
<1> QED
  BY <1>1, <1>2, <1>3, <1>4, <1>5, <1>6, <1>7, <1>8, <1>9, <1>10, <1>11, <1>12,
     <1>13, <1>14, <1>15, <1>16, <1>17, <1>18, <1>19 DEF Send

\* and those of keys, resumptions and notices.
LEMMA KeyInv ==
  ASSUME IInv, TypeOK', Key \/ Resume \/ Notify
  PROVE  IInv'
<1> USE DEF At, memory, ghosts, setting, Steps, Pre, Live, Pending
<1>1. CASE KeyDenied("release") \/ KeyDenied("decline")
  <2>1. PICK pc \in {"reject", "key_page"} : Goto(pc)
    BY <1>1 DEF KeyDenied, QueueAndNotify
  <2> QED
    BY <1>1, <2>1, GotoInv DEF KeyDenied
<1>2. CASE Release
  <2>1. TypeOK /\ stack # <<>>
    BY <1>2 DEF Release, KeyAccepted, IInv
  <2>2. Top \in Frame /\ holds[Top.env] \in ProofKinds \cup {"none"}
    BY <2>1, StackType DEF TypeOK, Frame
  <2>3. TopGoes("authorized")
    <3> DEFINE f == [Top EXCEPT !.pc = "authorized", !.proof = holds[Top.env]]
    <3>1. f \in Frame /\ f.pc = "authorized" /\ f.env = Top.env
      BY <2>2 DEF Frame
    <3>2. stack' = [stack EXCEPT ![Len(stack)] = f]
      BY <1>2 DEF Release, Top
    <3> QED
      BY <3>1, <3>2 DEF TopGoes
  <2>4. LogGrows("reject", 0)
    BY <1>2 DEF Release, LogGrows
  <2> QED
    BY <1>2, <2>1, <2>3, <2>4, StepInv DEF Release
<1>3. CASE Decline
  BY <1>3, GotoInv DEF Decline, KeyAccepted
<1>4. CASE Resume
  BY <1>4, GotoInv DEF Resume
<1>5. CASE Notify
  BY <1>5, GotoInv DEF Notify
<1> QED
  BY <1>1, <1>2, <1>3, <1>4, <1>5 DEF Key

\* A new call is neither before nor after a persist, and its caller waits.
LEMMA CallInv ==
  ASSUME IInv, TypeOK', Caller
  PROVE  IInv'
<1>1. PICK op \in Operations, e \in Envelope, p \in ProofKinds \cup {"none"},
           d \in {"release", "decline", "none"} : Call(op, e, p, d)
  BY ConfigAssumption DEF Caller, Operations
<1> DEFINE f == [pc |-> op, env |-> e, proof |-> p, decision |-> d]
           top == Len(stack)
<1>2. /\ f.pc \notin Pre \cup Live \cup {"ack"}
      /\ stack' = Append(stack, f) /\ stack \in Seq(Frame) /\ f \in Frame
      /\ stack # <<>> => stack[top].pc \in Callbacks
      /\ UNCHANGED <<log, seen, runs, boots, finished>>
  BY <1>1 DEF Call, IInv, TypeOK, Operations, Pre, Live, Pending, Frame, Steps, Top,
     memory, ghosts, setting
<1>3. /\ top \in Nat /\ Len(stack') = top + 1 /\ stack'[top + 1] = f
      /\ \A k \in 1 .. top : stack'[k] = stack[k]
      /\ top # 0 => stack # <<>>
  BY <1>2
<1> HIDE DEF f, top
<1>4. \A k \in 1 .. Len(stack') : k = top + 1 \/ k \in 1 .. top
  BY <1>3
<1>5. Nesting'
  <2> SUFFICES ASSUME NEW k \in 1 .. Len(stack') - 1 PROVE stack'[k].pc \in Callbacks
    BY DEF Nesting
  <2>1. k \in 1 .. top /\ stack'[k] = stack[k]
    BY <1>3
  <2>2. k = top \/ k \in 1 .. top - 1
    BY <1>3, <2>1
  <2> QED
    BY <1>2, <1>3, <2>1, <2>2 DEF IInv, Nesting, top
<1>6. \A k \in 1 .. Len(stack') : FrameInv(stack[k])'
  <2> SUFFICES ASSUME NEW k \in 1 .. Len(stack') PROVE FrameInv(stack[k])'
    OBVIOUS
  <2>1. CASE k = top + 1
    BY <1>2, <1>3, <2>1 DEF FrameInv, Live
  <2>2. CASE k \in 1 .. top
    BY <1>2, <1>3, <2>2 DEF IInv, FrameInv, Unsettled, top
  <2> QED
    BY <1>4, <2>1, <2>2
<1>7. LiveOnce'
  BY <1>2, <1>3, <1>4 DEF IInv, LiveOnce, top
<1>8. SeenInv' /\ DeliveredOnce' /\ \A i \in DOMAIN log' : log'[i].boot <= boots'
  BY <1>2 DEF IInv, SeenInv, Unsettled, DeliveredOnce
<1>9. AckIsFact'
  BY <1>2, AckIsFactStep DEF IInv, LogGrows
<1> QED
  BY <1>5, <1>6, <1>7, <1>8, <1>9 DEF IInv

\* What needs no lock and touches no call: a handler registers, a registry arms.
LEMMA UnlockedInv ==
  ASSUME IInv, TypeOK', (\E a \in Agent : Register(a)) \/ Arm
  PROVE  IInv'
<1> DEFINE entry == Entry("signer.armed", "none", 0)
<1>1. /\ UNCHANGED <<stack, seen, runs, boots, finished>>
      /\ log' = log \/ log' = Append(log, entry)
  BY DEF Register, Arm, memory, ghosts
<1>2. /\ entry.kind = "signer.armed" /\ entry.boot = boots
      /\ log \in Seq(LogEntry) /\ boots \in Nat
  BY DEF Entry, IInv, TypeOK
<1> HIDE DEF entry
<1>3. /\ \A i \in DOMAIN log : i \in DOMAIN log' /\ log'[i] = log[i]
      /\ \A i \in DOMAIN log' : i \in DOMAIN log \/ log'[i] = entry
      /\ DOMAIN log = 1 .. Len(log) /\ Len(log) \in Nat
  <2>1. CASE log' = log
    BY <1>2, <2>1
  <2>2. CASE log' = Append(log, entry)
    BY <1>2, <2>2
  <2> QED
    BY <1>1, <2>1, <2>2
<1>4. \A d : Unsettled(d) => Unsettled(d)'
  BY <1>1, <1>2, <1>3 DEF Unsettled
<1>5. Nesting' /\ LiveOnce' /\ DeliveredOnce'
  BY <1>1 DEF IInv, Nesting, LiveOnce, DeliveredOnce, Callbacks
<1>6. \A k \in 1 .. Len(stack') : FrameInv(stack[k])'
  <2> SUFFICES ASSUME NEW k \in 1 .. Len(stack) PROVE FrameInv(stack[k])'
    BY <1>1
  <2>1. FrameInv(stack[k]) /\ stack'[k] = stack[k]
    BY <1>1 DEF IInv
  <2>2. Unsettled(stack[k].env) => Unsettled(stack[k].env)'
    BY <1>1, <1>4
  <2> QED
    BY <1>1, <2>1, <2>2 DEF FrameInv
<1>7. SeenInv'
  BY <1>1, <1>3, <1>4 DEF IInv, SeenInv
<1>8. \A i \in DOMAIN log' : log'[i].boot <= boots'
  BY <1>1, <1>2, <1>3 DEF IInv
<1>9. AckIsFact'
  <2> SUFFICES ASSUME NEW i \in DOMAIN log', log'[i].kind = "ack"
               PROVE  /\ Before(i, "envelope.persisted")' # {}
                      /\ Before(i, "ack")' = {} /\ Before(i, "dead.letter")' = {}
                      /\ log'[i].boot = boots' => log'[i].env \in finished'
    BY DEF AckIsFact
  <2>1. i \in DOMAIN log /\ log'[i] = log[i]
    BY <1>2, <1>3
  <2>2. \A k : Before(i, k)' = Before(i, k)
    BY <1>3, <2>1 DEF Before
  <2> QED
    BY <1>1, <2>1, <2>2 DEF IInv, AckIsFact
<1> QED
  BY <1>5, <1>6, <1>7, <1>8, <1>9 DEF IInv

\* A boot starts with nothing seen and nothing running, and what the log says
\* of earlier boots settles nothing in this one.
LEMMA RestartInv ==
  ASSUME IInv, TypeOK', Restart
  PROVE  IInv'
<1> DEFINE entry == [kind |-> "hub.boot", env |-> "none", seq |-> 0, boot |-> boots + 1]
<1>1. /\ stack' = <<>> /\ log' = Append(log, entry) /\ seen' = {}
      /\ boots' = boots + 1 /\ runs' = runs
  BY DEF Restart
<1>2. /\ entry.kind = "hub.boot" /\ entry.boot = boots + 1
      /\ log \in Seq(LogEntry) /\ boots \in Nat /\ runs \in [Envelope -> Nat]
  BY DEF IInv, TypeOK
<1> HIDE DEF entry
<1>3. /\ \A i \in DOMAIN log : i \in DOMAIN log' /\ log'[i] = log[i]
      /\ \A i \in DOMAIN log' : i \in DOMAIN log \/ log'[i] = entry
      /\ DOMAIN log = 1 .. Len(log) /\ Len(log) \in Nat
  BY <1>1, <1>2
<1>4. Len(stack') = 0
  BY <1>1
<1>5. \A i \in DOMAIN log : log[i].boot <= boots /\ log[i].boot \in Nat
  <2>1. \A i \in DOMAIN log : log[i] \in LogEntry
    BY <1>2
  <2> QED
    BY <2>1 DEF IInv, LogEntry
<1>6. SeenInv'
  BY <1>1, <1>2, <1>3, <1>5 DEF SeenInv, Unsettled
<1>7. \A i \in DOMAIN log' : log'[i].boot <= boots'
  <2>1. \A m \in Nat : m <= boots => m <= boots + 1
    BY <1>2
  <2>2. boots + 1 <= boots + 1
    BY <1>2
  <2> QED
    BY <1>1, <1>2, <1>3, <1>5, <2>1, <2>2
<1>8. DeliveredOnce'
  BY <1>1, <1>2 DEF IInv, DeliveredOnce
<1>9. AckIsFact'
  <2> SUFFICES ASSUME NEW i \in DOMAIN log', log'[i].kind = "ack"
               PROVE  /\ Before(i, "envelope.persisted")' # {}
                      /\ Before(i, "ack")' = {} /\ Before(i, "dead.letter")' = {}
                      /\ log'[i].boot = boots' => log'[i].env \in finished'
    BY DEF AckIsFact
  <2>1. i \in DOMAIN log /\ log'[i] = log[i]
    BY <1>2, <1>3
  <2>2. \A k : Before(i, k)' = Before(i, k)
    BY <1>3, <2>1 DEF Before
  <2>3. log'[i].boot # boots'
    BY <1>1, <1>2, <1>5, <2>1
  <2> QED
    BY <2>1, <2>2, <2>3 DEF IInv, AckIsFact
<1>10. Nesting' /\ LiveOnce' /\ \A k \in 1 .. Len(stack') : FrameInv(stack[k])'
  BY <1>4 DEF Nesting, LiveOnce
<1> QED
  BY <1>6, <1>7, <1>8, <1>9, <1>10 DEF IInv

\* So does every step.
LEMMA NextInv == IInv /\ [Next]_vars => IInv'
<1> SUFFICES ASSUME IInv, [Next]_vars PROVE IInv'
  OBVIOUS
<1>1. TypeOK'
  BY NextType DEF IInv
<1>2. CASE UNCHANGED vars
  BY <1>1, <1>2 DEF vars, gate, memory, ghosts, setting, IInv, Nesting, FrameInv, Unsettled,
     LiveOnce, SeenInv, AckIsFact, Before, DeliveredOnce, Callbacks
<1> QED
  BY <1>1, <1>2, LinesInv, NotifierInv, SendInv, KeyInv, CallInv, UnlockedInv, RestartInv
     DEF Next, HubStep

\* An ack on the log is a fact, for every route table, threshold and depth of
\* nested calls, whatever fails and whenever the process restarts.
THEOREM AckCorrect == Spec => []AckIsFact
<1>1. IInv => AckIsFact
  BY DEF IInv
<1> QED
  BY <1>1, InitInv, NextInv, PTL DEF Spec

\* No handler sees an envelope twice in one boot.
THEOREM DeliveredOnceCorrect == Spec => []DeliveredOnce
<1>1. IInv => DeliveredOnce
  BY DEF IInv
<1> QED
  BY <1>1, InitInv, NextInv, PTL DEF Spec

----------------------------------------------------------------------------
(* The disclosure gate: nothing gated leaves without a key, and what is    *)
(* held waits aside.  The proof builds on IInv, which says what a call in  *)
(* progress knows of seen_ids.                                             *)

\* Steps of a send that stands behind the gate and has not yet persisted.
Passed == {"cleared", "persist"}

\* Behind the gate nothing is held, and what is gated has had its key.
Through(e) == holds[e] = "none" /\ (Gated(e) => keys[e] > 0)

PassInv(f) == f.pc \in Passed => Through(f.env)

GateInv ==
  /\ IInv
  /\ HoldsAside
  /\ GateClosed
  /\ \A k \in 1 .. Len(stack) : PassInv(stack[k])

\* No frame is past the gate at first.
LEMMA InitGate == Init => GateInv
<1> SUFFICES ASSUME Init PROVE GateInv
  OBVIOUS
<1>1. Len(stack) = 0 /\ seen \cup released = {}
  BY DEF Init
<1> QED
  BY <1>1, InitInv DEF GateInv, HoldsAside, GateClosed, Init

\* A call below the top waits in foreign code, so none stands behind the gate.
LEMMA OnlyTheTop ==
  ASSUME GateInv, stack # <<>>, NEW q, TopGoes(q),
         \A e : q \in Passed /\ e = Top.env => Through(e)'
  PROVE  (\A k \in 1 .. Len(stack) : PassInv(stack[k]))'
<1>1. TypeOK /\ Nesting
  BY DEF GateInv, IInv
<1>2. /\ Len(stack) \in Nat \ {0}
      /\ Len(stack') \in {Len(stack) - 1, Len(stack)}
      /\ \A k \in 1 .. Len(stack) - 1 : stack'[k] = stack[k]
      /\ Len(stack') = Len(stack) =>
           stack'[Len(stack)].pc = q /\ stack'[Len(stack)].env = Top.env
  BY <1>1, TopGoesOn
<1> SUFFICES ASSUME NEW k \in 1 .. Len(stack') PROVE PassInv(stack[k])'
  OBVIOUS
<1>3. CASE k \in 1 .. Len(stack) - 1
  <2>1. stack'[k].pc \in Callbacks
    BY <1>1, <1>2, <1>3 DEF Nesting
  <2>2. stack'[k].pc \notin Passed
    BY <2>1 DEF Callbacks, Pages, Passed
  <2> QED
    BY <2>2 DEF PassInv
<1>4. CASE k = Len(stack) /\ Len(stack') = Len(stack)
  <2>1. stack'[k].pc = q /\ stack'[k].env = Top.env
    BY <1>2, <1>4
  <2>2. stack'[k].pc \in Passed => Through(stack[k].env)'
    BY <2>1
  <2> QED
    BY <2>2 DEF PassInv
<1> QED
  BY <1>2, <1>3, <1>4

\* A step that leaves the gate and seen_ids alone and does not enter Passed
\* from before the gate keeps the invariant.
LEMMA AsideInv ==
  ASSUME GateInv, IInv', stack # <<>>, NEW q, TopGoes(q),
         UNCHANGED <<gate, seen>>,
         q \in Passed => Through(Top.env)
  PROVE  GateInv'
<1>1. UNCHANGED <<holds, released, keys, seen>>
  BY DEF gate
<1>4. \A e : q \in Passed /\ e = Top.env => Through(e)'
  BY <1>1 DEF Through
<1>5. (\A k \in 1 .. Len(stack) : PassInv(stack[k]))'
  BY <1>4, OnlyTheTop
<1> QED
  BY <1>1, <1>5 DEF GateInv, HoldsAside, GateClosed

\* A step that stays before the gate keeps it closed,
LEMMA AsideGoto ==
  ASSUME GateInv, IInv', stack # <<>>, NEW pc \in Steps \ Passed, Goto(pc),
         UNCHANGED <<gate, seen>>
  PROVE  GateInv'
<1>1. TopGoes(pc)
  BY GotoGoes DEF GateInv, IInv
<1> QED
  BY <1>1, AsideInv

\* so does a return,
LEMMA AsideReturn ==
  ASSUME GateInv, IInv', stack # <<>>, Return, UNCHANGED <<gate, seen>>
  PROVE  GateInv'
<1>1. TopGoes("return")
  BY DEF TopGoes
<1> QED
  BY <1>1, AsideInv DEF Passed

\* and a line, but for the one behind a cleared gate.
LEMMA AsideLogs ==
  ASSUME GateInv, IInv', stack # <<>>, NEW kind, NEW next \in Steps \cup {"return"},
         Logs(kind, next), UNCHANGED <<gate, seen>>,
         next \in Passed => Top.pc = "cleared" /\ next = "persist"
  PROVE  GateInv'
<1>1. TopGoes(next) \/ TopGoes("return")
  BY LogsGoes DEF GateInv, IInv
<1>2. CASE TopGoes("return")
  BY <1>2, AsideInv DEF Passed
<1>3. CASE TopGoes(next)
  <2>1. next \in Passed => Through(Top.env)
    <3>1. PassInv(Top)
      BY LastOf DEF GateInv, IInv, TypeOK, Top
    <3> QED
      BY <3>1 DEF PassInv, Passed
  <2> QED
    BY <1>3, <2>1, AsideInv
<1> QED
  BY <1>1, <1>2, <1>3

\* So do the steps with nothing but a line,
LEMMA LinesGate ==
  ASSUME GateInv, IInv', Lines
  PROVE  GateInv'
<1>1. \A pc, kind : \A next \in Steps \cup {"return"} :
        Line(pc, kind, next) /\ (next \in Passed => pc = "cleared" /\ next = "persist")
          => GateInv'
  BY AsideLogs DEF Line, At, memory
<1> QED
  BY <1>1 DEF Lines, Steps, Passed

\* those of paging a person,
LEMMA NotifierGate ==
  ASSUME GateInv, IInv', Notifier
  PROVE  GateInv'
<1>1. ASSUME NEW pc, NEW next \in (Steps \cup {"return"}) \ Passed, Page(pc, next)
      PROVE  GateInv'
  <2>1. stack # <<>> /\ UNCHANGED <<gate, seen>>
    BY <1>1 DEF Page, At, memory
  <2>2. CASE Then(next)
    BY <1>1, <2>1, <2>2, AsideReturn, AsideGoto DEF Then
  <2>3. ASSUME NEW kind \in Outcomes, Logs(kind, next) PROVE GateInv'
    BY <1>1, <2>1, <2>3, AsideLogs
  <2> QED
    BY <1>1, <2>2, <2>3 DEF Page
<1> QED
  BY <1>1 DEF Notifier, Steps, Passed

\* those of sending,
LEMMA SendGate ==
  ASSUME GateInv, IInv', Send
  PROVE  GateInv'
<1>0. /\ stack # <<>> /\ TypeOK /\ FrameInv(Top) /\ PassInv(Top) /\ Top.env \in Envelope
  <2>1. stack # <<>>
    BY DEF Send, Duplicate, Suspend, Suspended, Admit, Schema, Forgery, OffTrack,
           GateCleared, GateHolds, OnTrack, Persist, Review, Flag, DeliverToQueue,
           NoHandler, RunHandler, HandlerReturns, HandlerRaises, Escalate, At
  <2>2. TypeOK
    BY DEF GateInv, IInv
  <2>3. FrameInv(Top) /\ PassInv(Top)
    BY <2>1, LastOf DEF GateInv, IInv, TypeOK, Top
  <2> QED
    BY <2>1, <2>2, <2>3, StackType DEF Frame
<1> USE DEF At, gate
<1>1. ASSUME Duplicate \/ Suspend \/ Admit \/ Schema \/ Forgery \/ OffTrack \/ Flag
             \/ DeliverToQueue \/ NoHandler \/ RunHandler \/ HandlerReturns
             \/ HandlerRaises \/ Escalate
      PROVE  GateInv'
  <2>1. PICK pc \in Steps \ Passed : Goto(pc)
    BY <1>1 DEF Duplicate, Suspend, Admit, Schema, Forgery, OffTrack, Flag,
       DeliverToQueue, NoHandler, RunHandler, HandlerReturns, HandlerRaises, Escalate,
       QueueAndNotify, Steps, Passed
  <2>2. UNCHANGED <<gate, seen>>
    BY <1>1 DEF Duplicate, Suspend, Admit, Schema, Forgery, OffTrack, Flag,
       DeliverToQueue, NoHandler, RunHandler, HandlerReturns, HandlerRaises, Escalate, memory
  <2> QED
    BY <1>0, <2>1, <2>2, AsideGoto
<1>2. CASE Suspended
  <2>1. CASE Logs("loop.suspended", "return")
    BY <1>0, <1>2, <2>1, AsideLogs DEF Suspended, memory, Passed
  <2>2. CASE Return
    BY <1>0, <1>2, <2>2, AsideReturn DEF Suspended, memory
  <2> QED
    BY <1>2, <2>1, <2>2 DEF Suspended
<1>3. CASE Review
  <2>1. CASE Return
    BY <1>0, <1>3, <2>1, AsideReturn DEF Review, memory
  <2>2. CASE Goto("passed") \/ Goto("failed")
    BY <1>0, <1>3, <2>2, AsideGoto DEF Review, memory, Steps, Passed
  <2> QED
    BY <1>3, <2>1, <2>2 DEF Review
<1>4. CASE GateCleared
  <2>1. Through(Top.env)
    BY <1>0, <1>4 DEF GateCleared, GateInv, HoldsAside, GateClosed, Through
  <2>2. TopGoes("cleared")
    BY <1>0, <1>4, GotoGoes DEF GateCleared, Steps
  <2>3. UNCHANGED <<holds, keys, seen>> /\ released' = released \ {Top.env}
    BY <1>4 DEF GateCleared, memory
  <2>4. \A e : "cleared" \in Passed /\ e = Top.env => Through(e)'
    BY <2>1, <2>3 DEF Through
  <2>5. (\A k \in 1 .. Len(stack) : PassInv(stack[k]))'
    BY <1>0, <2>2, <2>4, OnlyTheTop
  <2> QED
    BY <2>3, <2>5 DEF GateInv, HoldsAside, GateClosed
<1>5. CASE GateHolds
  <2>1. TopGoes("gate_page")
    BY <1>0, <1>5, GotoGoes DEF GateHolds, QueueAndNotify, Steps
  <2>2. /\ UNCHANGED <<released, keys, seen>> /\ Gated(Top.env)
        /\ Top.env \notin released /\ Top.env \notin seen
        /\ \A e \in Envelope : e # Top.env => holds'[e] = holds[e]
    BY <1>0, <1>5 DEF GateHolds, FrameInv, Pre, TypeOK
  <2>3. (\A k \in 1 .. Len(stack) : PassInv(stack[k]))'
    BY <1>0, <2>1, OnlyTheTop DEF Passed
  <2>4. HoldsAside'
    BY <2>2 DEF GateInv, HoldsAside
  <2> QED
    BY <2>2, <2>3, <2>4 DEF GateInv, GateClosed
<1>6. CASE OnTrack
  <2>1. TopGoes("persist") /\ UNCHANGED <<gate, seen>>
    BY <1>0, <1>6, GotoGoes DEF OnTrack, Steps, memory
  <2>2. Through(Top.env)
    BY <1>0, <1>6 DEF OnTrack, GateInv, HoldsAside, Through
  <2> QED
    BY <1>0, <2>1, <2>2, AsideInv
<1>7. CASE Persist
  <2>1. UNCHANGED <<holds, released, keys>> /\ Through(Top.env)
    BY <1>0, <1>7 DEF Persist, PassInv, Passed
  <2>2. seen' = seen \/ seen' = seen \cup {Top.env}
    BY <1>7 DEF Persist
  <2>3. PICK q : TopGoes(q) /\ q \notin Passed
    <3>1. CASE Return
      BY <3>1 DEF TopGoes, Passed
    <3>2. CASE Goto("selfcheck") \/ Goto("deliver")
      BY <1>0, <3>2, GotoGoes DEF Steps, Passed
    <3> QED
      BY <1>7, <3>1, <3>2, ConfigAssumption DEF Persist, AppendRaises
  <2>4. (\A k \in 1 .. Len(stack) : PassInv(stack[k]))'
    BY <1>0, <2>3, OnlyTheTop
  <2>5. HoldsAside' /\ GateClosed'
    BY <2>1, <2>2 DEF GateInv, HoldsAside, GateClosed, Through
  <2> QED
    BY <2>4, <2>5 DEF GateInv
<1> QED
  BY <1>1, <1>2, <1>3, <1>4, <1>5, <1>6, <1>7 DEF Send

\* A key moves one envelope from the hold to the released set, and is counted
\* because a trusted object carries a signature.
LEMMA KeyGate ==
  ASSUME GateInv, IInv', Key \/ Resume \/ Notify
  PROVE  GateInv'
<1>0. /\ stack # <<>> /\ TypeOK /\ Top \in Frame /\ Top.env \in Envelope
  <2>1. stack # <<>>
    BY DEF Key, KeyDenied, Release, Decline, KeyAccepted, Resume, Notify, At
  <2> QED
    BY <2>1, StackType DEF GateInv, IInv, Frame
<1> USE DEF gate
<1>1. ASSUME KeyDenied("release") \/ KeyDenied("decline") \/ Resume \/ Notify
      PROVE  GateInv'
  <2>1. PICK pc \in Steps \ Passed : Goto(pc)
    BY <1>1 DEF KeyDenied, QueueAndNotify, Resume, Notify, Steps, Passed
  <2>2. UNCHANGED <<gate, seen>>
    BY <1>1 DEF KeyDenied, Resume, Notify, memory
  <2> QED
    BY <1>0, <2>1, <2>2, AsideGoto
<1>2. CASE Decline
  <2>1. TopGoes("declined")
    BY <1>0, <1>2, GotoGoes DEF Decline, Steps
  <2>2. /\ UNCHANGED <<released, keys, seen>>
        /\ \A e \in Envelope : holds'[e] # "none" => holds[e] # "none"
    BY <1>0, <1>2 DEF Decline, KeyAccepted, memory, TypeOK
  <2>3. (\A k \in 1 .. Len(stack) : PassInv(stack[k]))'
    BY <1>0, <2>1, OnlyTheTop DEF Passed
  <2> QED
    BY <2>2, <2>3 DEF GateInv, HoldsAside, GateClosed
<1>3. CASE Release
  <2>1. TopGoes("authorized")
    <3> DEFINE f == [Top EXCEPT !.pc = "authorized", !.proof = holds[Top.env]]
    <3>1. f \in Frame /\ f.pc = "authorized" /\ f.env = Top.env
      BY <1>0 DEF TypeOK, Frame, Steps
    <3>2. stack' = [stack EXCEPT ![Len(stack)] = f]
      BY <1>3 DEF Release, Top
    <3> QED
      BY <3>1, <3>2 DEF TopGoes, Steps
  <2>2. (\A k \in 1 .. Len(stack) : PassInv(stack[k]))'
    BY <1>0, <2>1, OnlyTheTop DEF Passed
  <2>3. /\ released' = released \cup {Top.env} /\ seen' = seen
        /\ holds' = [holds EXCEPT ![Top.env] = "none"]
    BY <1>3 DEF Release, KeyAccepted, memory
  <2>4. keys' = [keys EXCEPT ![Top.env] = @ + 1]
    BY <1>3 DEF Release, KeyAccepted, CountKey, Trusted
  <2>5. HoldsAside'
    BY <1>0, <2>3 DEF GateInv, HoldsAside, TypeOK
  <2>6. GateClosed'
    BY <1>0, <2>3, <2>4 DEF GateInv, GateClosed, TypeOK
  <2> QED
    BY <2>2, <2>5, <2>6 DEF GateInv
<1> QED
  BY <1>1, <1>2, <1>3 DEF Key

\* New calls, registrations, the arming of a registry and restarts.
LEMMA OtherGate ==
  ASSUME GateInv, IInv', Caller \/ (\E a \in Agent : Register(a)) \/ Arm \/ Restart
  PROVE  GateInv'
<1>1. CASE Caller
  <2>1. PICK op \in Operations, e \in Envelope, p \in ProofKinds \cup {"none"},
             d \in {"release", "decline", "none"} : Call(op, e, p, d)
    BY <1>1, ConfigAssumption DEF Caller, Operations
  <2>2. UNCHANGED <<holds, released, keys, seen>>
    BY <2>1 DEF Call, gate, memory
  <2>3. /\ Len(stack) \in Nat /\ Len(stack') = Len(stack) + 1
        /\ stack'[Len(stack) + 1].pc = op
        /\ \A k \in 1 .. Len(stack) : stack'[k] = stack[k]
    BY <2>1 DEF Call, GateInv, IInv, TypeOK
  <2>4. (\A k \in 1 .. Len(stack) : PassInv(stack[k]))'
    <3> SUFFICES ASSUME NEW k \in 1 .. Len(stack') PROVE PassInv(stack[k])'
      OBVIOUS
    <3>1. CASE k \in 1 .. Len(stack)
      BY <2>2, <2>3, <3>1 DEF GateInv, PassInv, Through
    <3>2. CASE k = Len(stack) + 1
      BY <2>3, <3>2 DEF PassInv, Passed, Operations
    <3> QED
      BY <2>3, <3>1, <3>2
  <2> QED
    BY <2>2, <2>4 DEF GateInv, HoldsAside, GateClosed
<1>2. CASE (\E a \in Agent : Register(a)) \/ Arm
  <2>1. UNCHANGED <<stack, holds, released, keys, seen>>
    BY <1>2 DEF Register, Arm, gate, memory
  <2> QED
    BY <2>1 DEF GateInv, HoldsAside, GateClosed, PassInv, Through
<1>3. CASE Restart
  <2>1. Len(stack') = 0 /\ seen' \cup released' = {} /\ holds' = [e \in Envelope |-> "none"]
    BY <1>3 DEF Restart
  <2> QED
    BY <2>1 DEF GateInv, HoldsAside, GateClosed
<1> QED
  BY <1>1, <1>2, <1>3

\* and every step.
LEMMA NextGate == GateInv /\ [Next]_vars => GateInv'
<1> SUFFICES ASSUME GateInv, [Next]_vars PROVE GateInv'
  OBVIOUS
<1>1. IInv'
  BY NextInv DEF GateInv
<1>2. CASE UNCHANGED vars
  BY <1>1, <1>2 DEF vars, gate, memory, GateInv, HoldsAside, GateClosed, PassInv, Through
<1> QED
  BY <1>1, <1>2, LinesGate, NotifierGate, SendGate, KeyGate, OtherGate DEF Next, HubStep

\* Nothing gated is cleared, persisted or delivered in a boot that accepted no
\* trusted key for it: the gate of hub.py:580-590 for every table and schedule.
THEOREM GateCorrect == Spec => []GateClosed
<1>1. GateInv => GateClosed
  BY DEF GateInv
<1> QED
  BY <1>1, InitGate, NextGate, PTL DEF Spec

\* What is held is gated, and neither persisted nor cleared: a hold has exactly
\* one future, release or decline.
THEOREM HoldsCorrect == Spec => []HoldsAside
<1>1. GateInv => HoldsAside
  BY DEF GateInv
<1> QED
  BY <1>1, InitGate, NextGate, PTL DEF Spec
=============================================================================
