--------------------------- MODULE HubFlowProofs ---------------------------
(***************************************************************************)
(* The way of a call through Hub, and what follows from it: who is trusted *)
(* on the record, what a key lets pass, where every envelope ends, the     *)
(* numbers and counts on the way, and what the KPIs and their gate say of  *)
(* them. A step of the thread that holds the lock moves the top call along *)
(* an edge of one graph; what each invariant needs of the code is on those *)
(* edges.                                                                  *)
(***************************************************************************)
EXTENDS HubProofs, HubKpi, Positions

----------------------------------------------------------------------------
(* The graph of a call: step, what it logs, next step *)

Edges ==
  {<<"send", "none", "duplicate">>, <<"send", "none", "loop_page">>, <<"send", "none", "schema">>,
   <<"duplicate", "dedupe.hit", "return">>,
   <<"suspended", "loop.suspended", "return">>, <<"suspended", "none", "return">>,
   <<"schema", "none", "reject">>, <<"schema", "none", "track">>, <<"schema", "none", "forgery">>,
   <<"schema", "none", "verified">>, <<"schema", "none", "unarmed">>,
   <<"reject", "reject", "return">>,
   <<"verified", "signer.verified", "track">>, <<"unarmed", "signer.unarmed", "track">>,
   <<"forgery", "none", "forged_page">>, <<"forged", "integrity.violation", "reject">>,
   <<"key_forged", "key.violation", "reject">>,
   <<"track", "none", "reject">>, <<"track", "none", "unknown_page">>,
   <<"track", "none", "cleared">>, <<"track", "none", "gate_page">>, <<"track", "none", "persist">>,
   <<"unknown", "hold.clarification", "reflect">>, <<"held", "absolute_signal.hold", "reflect">>,
   <<"cleared", "absolute_signal.released", "persist">>,
   <<"persist", "envelope.persisted", "selfcheck">>, <<"persist", "envelope.persisted", "deliver">>,
   <<"selfcheck", "none", "passed">>, <<"selfcheck", "none", "failed">>,
   <<"passed", "selfcheck.passed", "deliver">>, <<"failed", "selfcheck.failed", "flag">>,
   <<"flag", "none", "flagged_page">>,
   <<"deliver", "none", "queued_page">>, <<"deliver", "none", "dead">>, <<"deliver", "none", "handler">>,
   <<"queued", "hold.queued", "return">>, <<"dead", "dead.letter", "return">>,
   <<"handler", "none", "ack">>, <<"handler", "none", "crashed">>,
   <<"crashed", "dead.letter", "alarm">>,
   <<"alarm", "none", "raised">>, <<"escalate", "none", "raised">>,
   <<"raised", "escalation.raised", "alarm_page">>,
   <<"ack", "ack", "reflect">>, <<"reflect", "hub.reflection", "return">>,
   <<"release", "none", "reject">>, <<"release", "none", "key_page">>, <<"release", "none", "authorized">>,
   <<"decline", "none", "reject">>, <<"decline", "none", "key_page">>, <<"decline", "none", "declined">>,
   <<"authorized", "disclosure.authorized", "send">>, <<"declined", "disclosure.declined", "return">>,
   <<"resume", "none", "resumed">>, <<"resumed", "loop.resumed", "return">>,
   <<"notify", "none", "alarm_page">>}

PageEdges ==
  {<<"loop_page", "suspended">>, <<"forged_page", "forged">>, <<"key_page", "key_forged">>,
   <<"unknown_page", "unknown">>,
   <<"gate_page", "held">>, <<"flagged_page", "return">>, <<"queued_page", "queued">>,
   <<"alarm_page", "return">>}

Edge(p, kind, q) ==
  <<p, kind, q>> \in Edges \/ (<<p, q>> \in PageEdges /\ kind \in Outcomes \cup {"none"})

\* The top call goes on at q with its envelope, and its object unless a key
\* hands it the held one; or it returns.
TopTo(q) ==
  \/ q = "return" /\ Return
  \/ /\ q \in Steps
     /\ \E f \in Frame : /\ f.pc = q /\ f.env = Top.env
                         /\ f.proof = (IF q = "authorized" THEN holds[Top.env] ELSE Top.proof)
                         /\ stack' = [stack EXCEPT ![Len(stack)] = f]

\* The number an entry of this kind carries.
NumberFor(kind) == IF kind = "envelope.persisted" THEN seq[Msg[Top.env].ctx] + 1 ELSE 0

\* The log gains the entry, or kind is "none".
LogTo(kind) ==
  IF kind = "none" THEN log' = log ELSE log' = Append(log, Entry(kind, Top.env, NumberFor(kind)))

\* Along an edge nothing fails; off it the call ends at a failure, its entry
\* written or not.
Way(kind, q) ==
  \/ Edge(Top.pc, kind, q) /\ fails' = fails
  \/ /\ q = "return" /\ fails' = fails + 1
     /\ kind = "none" \/ \E r \in Steps \cup {"return"} : Edge(Top.pc, kind, r)

\* What the edges do to the other variables.
Does(q) ==
  LET e == Top.env
      p == Top.pc
      persisted == p = "persist" /\ q # "return"
  IN  /\ seen' = (IF persisted THEN seen \cup {e} ELSE seen)
      /\ seq' = (IF persisted THEN [seq EXCEPT ![Msg[e].ctx] = @ + 1] ELSE seq)
      /\ loopCount' = (IF p = "send" /\ q \in {"schema", "loop_page"}
                       THEN [loopCount EXCEPT ![KeyOf(e)] = @ + 1]
                       ELSE IF p = "resume" THEN [loopCount EXCEPT ![KeyOf(e)] = 0] ELSE loopCount)
      /\ released' = (IF q = "cleared" THEN released \ {e}
                      ELSE IF q = "authorized" THEN released \cup {e} ELSE released)
      /\ keys' = (IF q = "authorized" THEN [keys EXCEPT ![e] = @ + 1] ELSE keys)
      /\ runs' = (IF q = "handler" THEN [runs EXCEPT ![e] = @ + 1] ELSE runs)
      /\ \A x \in Envelope : holds'[x] \in {holds[x], "none"} \/ (p = "track" /\ holds'[x] = Top.proof)
      /\ \A x \in QueueName : queues[x] \subseteq queues'[x]
      /\ q = "flagged_page" => e \in queues'[Clarification]

\* What the code has checked on the edges.
Asked(q) ==
  LET e == Top.env
      p == Top.pc
  IN  /\ q = "schema" => e \notin seen /\ loopCount[KeyOf(e)] + 1 <= LoopThreshold
      /\ q = "verified" => Top.proof = "stamped"
      /\ q = "unarmed" => ~armed /\ Top.proof \in {"signed", "stamped"}
      /\ p = "schema" /\ q = "track" => ~Authority(e)
      /\ q = "forgery" => Top.proof # "malformed" /\ ~Trusted(Top.proof) /\ Authority(e)
      /\ q = "cleared" => e \in released
      /\ p = "track" /\ q = "persist" => (External(e) => e \notin released)
      /\ q = "authorized" => holds[e] # "none"

Moves(kind, q) ==
  /\ stack # <<>> /\ q \in Steps \cup {"return"} /\ kind \in Kinds \cup {"none"}
  /\ TopTo(q) /\ LogTo(kind) /\ Way(kind, q) /\ Does(q) /\ Asked(q)
  /\ UNCHANGED <<armed, boots>>

----------------------------------------------------------------------------
(* Every step of the lock's thread is such a move *)

\* A step that only goes on is a move of the top frame.
LEMMA GotoTo ==
  ASSUME TypeOK, stack # <<>>, NEW pc \in Steps \ {"authorized"}, Goto(pc)
  PROVE  TopTo(pc)
<1>1. stack \in Seq(Frame) /\ Top \in Frame
  BY StackType DEF TypeOK
<1>2. stack' = [stack EXCEPT ![Len(stack)] = [Top EXCEPT !.pc = pc]]
  BY DEF Goto, Top
<1>3. /\ [Top EXCEPT !.pc = pc] \in Frame
      /\ [Top EXCEPT !.pc = pc].pc = pc
      /\ [Top EXCEPT !.pc = pc].env = Top.env
      /\ [Top EXCEPT !.pc = pc].proof = Top.proof
  BY <1>1 DEF Frame
<1> QED
  BY <1>2, <1>3 DEF TopTo

\* What a logging step does to the stack, the log and the count of failures.
LEMMA LogsTo ==
  ASSUME TypeOK, stack # <<>>, NEW kind \in Kinds \ {"envelope.persisted"},
         NEW next \in (Steps \ {"authorized"}) \cup {"return"}, Logs(kind, next), Edge(Top.pc, kind, next)
  PROVE  \/ TopTo(next) /\ LogTo(kind) /\ Way(kind, next)
         \/ TopTo("return") /\ LogTo(kind) /\ Way(kind, "return") /\ fails' = fails + 1
         \/ TopTo("return") /\ LogTo("none") /\ Way("none", "return") /\ fails' = fails + 1
<1>1. kind # "none" /\ NumberFor(kind) = 0
  BY DEF NumberFor, Kinds
<1>2. Then(next) => TopTo(next)
  BY GotoTo DEF Then, TopTo
<1>3. CASE Then(next) /\ log' = Append(log, Entry(kind, Top.env, 0)) /\ UNCHANGED fails
  BY <1>1, <1>2, <1>3 DEF LogTo, Way
<1>4. CASE AppendRaises(Entry(kind, Top.env, 0))
  <2>1. TopTo("return") /\ fails' = fails + 1
    BY <1>4 DEF AppendRaises, TopTo
  <2>2. LogTo(kind) \/ LogTo("none")
    BY <1>1, <1>4 DEF AppendRaises, LogTo
  <2> QED
    BY <2>1, <2>2 DEF Way
<1> QED
  BY <1>3, <1>4 DEF Logs

\* A step that goes on to q, logs nothing and cannot fail.
LEMMA QuietMove ==
  ASSUME TypeOK, stack # <<>>, NEW q \in Steps \ {"authorized"}, Goto(q), <<Top.pc, "none", q>> \in Edges,
         UNCHANGED <<log, fails, armed, boots>>, Does(q), Asked(q)
  PROVE  Moves("none", q)
<1>1. TopTo(q)
  BY GotoTo
<1> QED
  BY <1>1 DEF Moves, LogTo, Way, Edge

\* A queue only gains the envelope of the top frame.
LEMMA EnqueueGrows ==
  ASSUME TypeOK, NEW q \in QueueName, Enqueue(q)
  PROVE  /\ \A x \in QueueName : queues[x] \subseteq queues'[x]
         /\ Top.env \in queues'[q]
BY DEF TypeOK, Enqueue

\* Straight-line code, and the notifier.
LEMMA LogsMove ==
  ASSUME TypeOK, stack # <<>>, NEW kind \in Kinds \ {"envelope.persisted"},
         NEW next \in (Steps \cup {"return"}) \
           {"schema", "loop_page", "verified", "unarmed", "cleared", "authorized", "handler", "flagged_page",
            "forgery"},
         Logs(kind, next), Edge(Top.pc, kind, next),
         Top.pc \notin {"schema", "track", "persist", "resume"},
         UNCHANGED <<gate, memory, ghosts, setting>>
  PROVE  \E k \in Kinds \cup {"none"}, q \in Steps \cup {"return"} : Moves(k, q)
<1>1. /\ UNCHANGED <<seen, seq, loopCount, holds, released, keys, runs, queues, armed, boots>>
      /\ \A x \in QueueName : queues[x] \subseteq queues'[x]
  BY DEF gate, memory, ghosts, setting
<1>2. \A q \in {next, "return"} : Does(q) /\ Asked(q)
  <2>1. \A q \in {next, "return"} : Does(q)
    BY <1>1 DEF Does
  <2>2. \A q \in {next, "return"} : Asked(q)
    BY DEF Asked
  <2> QED
    BY <2>1, <2>2
<1>3. \/ TopTo(next) /\ LogTo(kind) /\ Way(kind, next)
      \/ TopTo("return") /\ LogTo(kind) /\ Way(kind, "return")
      \/ TopTo("return") /\ LogTo("none") /\ Way("none", "return")
  BY LogsTo
<1> QED
  BY <1>1, <1>2, <1>3 DEF Moves

\* The steps that write a line and go on are moves.
LEMMA LinesMove ==
  ASSUME TypeOK, Lines
  PROVE  \E k \in Kinds \cup {"none"}, q \in Steps \cup {"return"} : Moves(k, q)
<1>1. ASSUME NEW pc, NEW kind, NEW next, Line(pc, kind, next), <<pc, kind, next>> \in Edges,
             kind \in Kinds \ {"envelope.persisted"},
             pc \notin {"schema", "track", "persist", "resume"},
             next \in (Steps \cup {"return"}) \
               {"schema", "loop_page", "verified", "unarmed", "cleared", "authorized", "handler", "flagged_page",
            "forgery"}
      PROVE  \E k \in Kinds \cup {"none"}, q \in Steps \cup {"return"} : Moves(k, q)
  <2>1. stack # <<>> /\ Top.pc = pc /\ Logs(kind, next) /\ UNCHANGED <<gate, memory, ghosts, setting>>
    BY <1>1 DEF Line, At
  <2>2. Edge(Top.pc, kind, next)
    BY <1>1, <2>1 DEF Edge
  <2> QED
    BY <1>1, <2>1, <2>2, LogsMove
<1> DEFINE Listed(pc, kind, next) ==
      /\ Line(pc, kind, next) /\ <<pc, kind, next>> \in Edges
      /\ kind \in Kinds \ {"envelope.persisted"}
      /\ pc \notin {"schema", "track", "persist", "resume"}
      /\ next \in (Steps \cup {"return"}) \
           {"schema", "loop_page", "verified", "unarmed", "cleared", "authorized", "handler", "flagged_page",
            "forgery"}
<1>2. \E pc, kind, next : Listed(pc, kind, next)
  BY DEF Lines, Edges, Kinds, Steps
<1> QED
  BY <1>1, <1>2

\* So are those of paging a person,
LEMMA NotifierMoves ==
  ASSUME TypeOK, Notifier
  PROVE  \E k \in Kinds \cup {"none"}, q \in Steps \cup {"return"} : Moves(k, q)
<1>1. ASSUME NEW pc, NEW next, Page(pc, next), <<pc, next>> \in PageEdges
      PROVE  \E k \in Kinds \cup {"none"}, q \in Steps \cup {"return"} : Moves(k, q)
  <2>1. stack # <<>> /\ Top.pc = pc /\ UNCHANGED <<gate, memory, ghosts, setting>>
    BY <1>1 DEF Page, At
  <2>2. /\ pc \notin {"schema", "track", "persist", "resume", "send"}
        /\ next \in (Steps \cup {"return"}) \
             {"schema", "loop_page", "verified", "unarmed", "cleared", "authorized", "handler", "flagged_page",
            "forgery"}
    BY <1>1 DEF PageEdges, Steps
  <2>3. \A kind \in Outcomes \cup {"none"} : Edge(Top.pc, kind, next)
    BY <1>1, <2>1 DEF Edge
  <2>4. CASE Then(next) /\ UNCHANGED <<log, fails>>
    <3>1. TopTo(next) /\ Asked(next)
      BY <2>1, <2>2, <2>4, GotoTo DEF Then, TopTo, Asked
    <3>2. Does(next)
      BY <2>1, <2>2 DEF Does, gate, memory, ghosts
    <3> QED
      BY <2>1, <2>2, <2>3, <2>4, <3>1, <3>2 DEF Moves, LogTo, Way, setting
  <2>5. ASSUME NEW kind \in Outcomes, Logs(kind, next)
        PROVE  \E k \in Kinds \cup {"none"}, q \in Steps \cup {"return"} : Moves(k, q)
    <3>1. kind \in Kinds \ {"envelope.persisted"}
      BY ConfigAssumption DEF Kinds
    <3> QED
      BY <2>1, <2>2, <2>3, <2>5, <3>1, LogsMove
  <2> QED
    BY <1>1, <2>4, <2>5 DEF Page
<1>2. \E pc, next : Page(pc, next) /\ <<pc, next>> \in PageEdges
  BY DEF Notifier, PageEdges
<1> QED
  BY <1>1, <1>2

\* The steps of send that go on without logging.
LEMMA SendQuietMoves ==
  ASSUME TypeOK,
         \/ Duplicate \/ Suspend \/ Admit \/ Schema \/ Forgery \/ OffTrack
         \/ GateCleared \/ GateHolds \/ OnTrack \/ Flag \/ DeliverToQueue \/ NoHandler
         \/ RunHandler \/ HandlerReturns \/ HandlerRaises \/ Escalate
  PROVE  \E q \in Steps : Moves("none", q)
<1> USE DEF At, gate, memory, ghosts, setting
<1>0. stack # <<>> /\ Top.env \in Envelope
  <2>1. stack # <<>>
    BY DEF Duplicate, Suspend, Admit, Schema, Forgery, OffTrack,
           GateCleared, GateHolds, OnTrack, Flag, DeliverToQueue,
           NoHandler, RunHandler, HandlerReturns, HandlerRaises, Escalate
  <2> QED
    BY <2>1, StackType DEF Frame
<1>1. ASSUME NEW q \in QueueName, Enqueue(q)
      PROVE  (\A x \in QueueName : queues[x] \subseteq queues'[x]) /\ Top.env \in queues'[q]
  BY <1>1, EnqueueGrows
<1>2. {Clarification, Integrity, SystemError, DeadLetter} \subseteq QueueName
  BY DEF QueueName
<1>3. ASSUME NEW q \in Steps \ {"authorized"}, Goto(q), <<Top.pc, "none", q>> \in Edges,
             UNCHANGED <<log, fails, armed, boots>>, Does(q), Asked(q)
      PROVE  \E r \in Steps : Moves("none", r)
  BY <1>0, <1>3, QuietMove
<1>4. CASE Duplicate
  <2>1. Does("duplicate") /\ Asked("duplicate")
    BY <1>4 DEF Duplicate, Does, Asked
  <2> QED
    BY <1>3, <1>4, <2>1 DEF Duplicate, Steps, Edges
<1>5. CASE Suspend
  <2>1. Does("loop_page") /\ Asked("loop_page")
    BY <1>1, <1>2, <1>5 DEF Suspend, QueueAndNotify, Count, Does, Asked
  <2> QED
    BY <1>3, <1>5, <2>1 DEF Suspend, QueueAndNotify, Steps, Edges
<1>6. CASE Admit
  <2>1. Does("schema")
    BY <1>6 DEF Admit, Count, Does
  <2>2. Asked("schema")
    <3>1. loopCount[KeyOf(Top.env)] \in Nat
      BY <1>0, KeyOfType DEF TypeOK
    <3> QED
      BY <1>6, <3>1, BoundsAssumption DEF Admit, OverThreshold, Asked
  <2> QED
    BY <1>3, <1>6, <2>1, <2>2 DEF Admit, Steps, Edges
<1>7. CASE Schema
  <2>1. PICK q \in {"reject", "track", "forgery", "verified", "unarmed"} :
          /\ Goto(q)
          /\ q = "track" => ~Authority(Top.env)
          /\ q = "forgery" => Top.proof # "malformed" /\ ~Trusted(Top.proof) /\ Authority(Top.env)
          /\ q = "verified" => Top.proof = "stamped"
          /\ q = "unarmed" => ~armed /\ Top.proof \in {"signed", "stamped"}
    <3>1. CASE Top.proof = "malformed"
      BY <1>7, <3>1 DEF Schema
    <3>2. CASE Top.proof # "malformed" /\ ~Authority(Top.env)
      BY <1>7, <3>2 DEF Schema
    <3>3. CASE Top.proof # "malformed" /\ Authority(Top.env) /\ ~Trusted(Top.proof)
      BY <1>7, <3>3 DEF Schema
    <3>4. CASE Top.proof # "malformed" /\ Authority(Top.env) /\ Trusted(Top.proof)
      BY <1>7, <3>4 DEF Schema, Trusted
    <3> QED
      BY <3>1, <3>2, <3>3, <3>4
  <2>2. Does(q) /\ Asked(q)
    BY <1>7, <2>1 DEF Schema, Does, Asked
  <2> QED
    BY <1>3, <1>7, <2>1, <2>2 DEF Schema, Steps, Edges
<1>8. CASE Forgery
  <2>1. Does("forged_page") /\ Asked("forged_page")
    BY <1>1, <1>2, <1>8 DEF Forgery, QueueAndNotify, Does, Asked
  <2> QED
    BY <1>3, <1>8, <2>1 DEF Forgery, QueueAndNotify, Steps, Edges
<1>9. CASE OffTrack
  <2>1. PICK q \in {"reject", "unknown_page"} :
          Goto(q) /\ \A x \in QueueName : queues[x] \subseteq queues'[x]
    BY <1>1, <1>2, <1>9 DEF OffTrack, QueueAndNotify
  <2>2. Does(q) /\ Asked(q)
    BY <1>9, <2>1 DEF OffTrack, Does, Asked
  <2> QED
    BY <1>3, <1>9, <2>1, <2>2 DEF OffTrack, Steps, Edges
<1>10. CASE GateCleared
  <2>1. Does("cleared") /\ Asked("cleared")
    BY <1>10 DEF GateCleared, Does, Asked
  <2> QED
    BY <1>3, <1>10, <2>1 DEF GateCleared, Steps, Edges
<1>11. CASE GateHolds
  <2>1. Does("gate_page") /\ Asked("gate_page")
    BY <1>1, <1>2, <1>11 DEF GateHolds, QueueAndNotify, Does, Asked
  <2> QED
    BY <1>3, <1>11, <2>1 DEF GateHolds, QueueAndNotify, Steps, Edges
<1>12. CASE OnTrack
  <2>1. Does("persist") /\ Asked("persist")
    BY <1>12 DEF OnTrack, Does, Asked
  <2> QED
    BY <1>3, <1>12, <2>1 DEF OnTrack, Steps, Edges
<1>13. CASE Flag
  <2>1. Does("flagged_page") /\ Asked("flagged_page")
    BY <1>1, <1>2, <1>13 DEF Flag, QueueAndNotify, Does, Asked
  <2> QED
    BY <1>3, <1>13, <2>1 DEF Flag, QueueAndNotify, Steps, Edges
<1>14. CASE DeliverToQueue
  <2>1. Msg[Top.env].intent \in QueueName
    BY <1>0, <1>14 DEF DeliverToQueue, QueueName
  <2>2. Does("queued_page") /\ Asked("queued_page")
    BY <1>1, <1>14, <2>1 DEF DeliverToQueue, QueueAndNotify, Does, Asked
  <2> QED
    BY <1>3, <1>14, <2>2 DEF DeliverToQueue, QueueAndNotify, Steps, Edges
<1>15. CASE NoHandler
  <2>1. Does("dead") /\ Asked("dead")
    BY <1>1, <1>2, <1>15 DEF NoHandler, Does, Asked
  <2> QED
    BY <1>3, <1>15, <2>1 DEF NoHandler, Steps, Edges
<1>16. CASE RunHandler
  <2>1. Does("handler") /\ Asked("handler")
    BY <1>16 DEF RunHandler, Does, Asked
  <2> QED
    BY <1>3, <1>16, <2>1 DEF RunHandler, Steps, Edges
<1>17. CASE HandlerReturns
  <2>1. Does("ack") /\ Asked("ack")
    BY <1>17 DEF HandlerReturns, Does, Asked
  <2> QED
    BY <1>3, <1>17, <2>1 DEF HandlerReturns, Steps, Edges
<1>18. CASE HandlerRaises
  <2>1. Does("crashed") /\ Asked("crashed")
    BY <1>1, <1>2, <1>18 DEF HandlerRaises, Does, Asked
  <2> QED
    BY <1>3, <1>18, <2>1 DEF HandlerRaises, Steps, Edges
<1>19. CASE Escalate
  <2>1. Does("raised") /\ Asked("raised")
    BY <1>1, <1>2, <1>19 DEF Escalate, Does, Asked
  <2> QED
    BY <1>3, <1>19, <2>1 DEF Escalate, Steps, Edges
<1> QED
  BY <1>4, <1>5, <1>6, <1>7, <1>8, <1>9, <1>10, <1>11, <1>12, <1>13, <1>14, <1>15,
     <1>16, <1>17, <1>18, <1>19

\* The persist, which is the only entry with a number.
LEMMA PersistMoves ==
  ASSUME TypeOK, Persist
  PROVE  \E k \in Kinds \cup {"none"}, q \in Steps \cup {"return"} : Moves(k, q)
<1> DEFINE e == Top.env
           n == seq[Msg[e].ctx] + 1
<1>1. /\ stack # <<>> /\ Top.pc = "persist"
      /\ UNCHANGED <<loopCount, holds, released, keys, runs, queues, armed, boots>>
      /\ "envelope.persisted" \in Kinds
      /\ NumberFor("envelope.persisted") = n
  BY DEF Persist, At, gate, ghosts, setting, Kinds, NumberFor
<1>2. CASE /\ log' = Append(log, Entry("envelope.persisted", e, n))
           /\ seq' = [seq EXCEPT ![Msg[e].ctx] = n]
           /\ seen' = seen \cup {e}
           /\ Goto(IF HasSelfcheck THEN "selfcheck" ELSE "deliver")
           /\ UNCHANGED fails
  <2>1. PICK q \in {"selfcheck", "deliver"} : Goto(q)
    BY <1>2
  <2>2. TopTo(q) /\ Asked(q)
    BY <1>1, <2>1, GotoTo DEF Asked, Steps
  <2>3. Does(q)
    BY <1>1, <1>2, <2>1 DEF Does
  <2>4. LogTo("envelope.persisted") /\ Edge(Top.pc, "envelope.persisted", q)
    BY <1>1, <1>2 DEF LogTo, Edge, Edges
  <2> QED
    BY <1>1, <1>2, <2>1, <2>2, <2>3, <2>4 DEF Moves, Way, Steps
<1>3. CASE AppendRaises(Entry("envelope.persisted", e, n)) /\ UNCHANGED <<seq, seen>>
  <2>1. TopTo("return") /\ Asked("return") /\ fails' = fails + 1
    BY <1>1, <1>3 DEF AppendRaises, TopTo, Asked
  <2>2. Does("return")
    BY <1>1, <1>3 DEF Does
  <2>3. LogTo("envelope.persisted") \/ LogTo("none")
    BY <1>1, <1>3 DEF AppendRaises, LogTo
  <2>4. Edge(Top.pc, "envelope.persisted", "deliver") /\ "deliver" \in Steps
    BY <1>1 DEF Edge, Edges, Steps
  <2>5. Way("envelope.persisted", "return") /\ Way("none", "return")
    BY <2>1, <2>4 DEF Way
  <2> QED
    BY <1>1, <2>1, <2>2, <2>3, <2>5 DEF Moves
<1> QED
  BY <1>2, <1>3 DEF Persist

\* of sending,
LEMMA SendMoves ==
  ASSUME TypeOK, Send
  PROVE  \E k \in Kinds \cup {"none"}, q \in Steps \cup {"return"} : Moves(k, q)
<1>1. CASE Suspended
  <2>1. /\ stack # <<>> /\ Top.pc = "suspended"
        /\ UNCHANGED <<gate, memory, ghosts, setting>>
    BY <1>1 DEF Suspended, At
  <2>2. Edge("suspended", "loop.suspended", "return") /\ Edge("suspended", "none", "return")
    BY DEF Edge, Edges
  <2>3. CASE Logs("loop.suspended", "return")
    BY <2>1, <2>2, <2>3, LogsMove DEF Kinds
  <2>4. CASE Return /\ UNCHANGED <<log, fails>>
    <3>1. Does("return") /\ Asked("return")
      BY <2>1 DEF Does, Asked, gate, memory, ghosts
    <3> QED
      BY <2>1, <2>2, <2>4, <3>1 DEF Moves, TopTo, LogTo, Way, setting
  <2> QED
    BY <1>1, <2>3, <2>4 DEF Suspended
<1>2. CASE Review
  <2>1. /\ stack # <<>> /\ Top.pc = "selfcheck" /\ log' = log
        /\ UNCHANGED <<gate, memory, ghosts, setting>>
    BY <1>2 DEF Review, At
  <2>2. PICK q \in {"passed", "failed", "return"} : Then(q) /\ Way("none", q)
    BY <1>2, <2>1 DEF Review, Then, Way, Edge, Edges, Steps
  <2>3. TopTo(q) /\ Asked(q) /\ Does(q)
    BY <2>1, <2>2, GotoTo DEF Then, TopTo, Asked, Does, Steps, gate, memory, ghosts
  <2> QED
    BY <2>1, <2>2, <2>3 DEF Moves, LogTo, setting, Steps
<1> QED
  BY <1>1, <1>2, SendQuietMoves, PersistMoves DEF Send

\* and of keys, resumptions and notices, which write nothing there.
LEMMA KeyMoves ==
  ASSUME TypeOK, Key \/ Resume \/ Notify
  PROVE  \E q \in Steps : Moves("none", q)
<1> USE DEF At, gate, memory, ghosts, setting
<1>0. stack # <<>> /\ Top \in Frame /\ Top.env \in Envelope
  <2>1. stack # <<>>
    BY DEF Key, KeyDenied, Release, Decline, KeyAccepted, Resume, Notify
  <2> QED
    BY <2>1, StackType DEF Frame
<1>1. ASSUME NEW op \in {"release", "decline"}, KeyDenied(op)
      PROVE  \E q \in Steps : Moves("none", q)
  <2>1. PICK q \in {"reject", "key_page"} : Goto(q)
    BY <1>1 DEF KeyDenied, QueueAndNotify
  <2>2. \A x \in QueueName : queues[x] \subseteq queues'[x]
    <3>1. Enqueue(Integrity) \/ queues' = queues
      BY <1>1 DEF KeyDenied, QueueAndNotify
    <3>2. Integrity \in QueueName
      BY DEF QueueName
    <3> QED
      BY <3>1, <3>2, EnqueueGrows
  <2>3. Does(q) /\ Asked(q)
    BY <1>1, <2>1, <2>2 DEF KeyDenied, Does, Asked
  <2> QED
    BY <1>0, <1>1, <2>1, <2>3, QuietMove DEF KeyDenied, Steps, Edges
<1>2. CASE Release
  <2> DEFINE f == [Top EXCEPT !.pc = "authorized", !.proof = holds[Top.env]]
  <2>1. f \in Frame /\ f.pc = "authorized" /\ f.env = Top.env /\ f.proof = holds[Top.env]
    BY <1>0 DEF TypeOK, Frame, Steps
  <2>2. stack' = [stack EXCEPT ![Len(stack)] = f]
    BY <1>2 DEF Release, Top
  <2>3. TopTo("authorized")
    BY <2>1, <2>2 DEF TopTo, Steps
  <2>4. keys' = [keys EXCEPT ![Top.env] = @ + 1]
    BY <1>2 DEF Release, KeyAccepted, CountKey, Trusted
  <2>5. Does("authorized") /\ Asked("authorized")
    BY <1>2, <2>4 DEF Release, KeyAccepted, Does, Asked
  <2>6. Way("none", "authorized") /\ LogTo("none")
    BY <1>2 DEF Release, KeyAccepted, Way, Edge, Edges, LogTo
  <2> QED
    BY <1>0, <1>2, <2>3, <2>5, <2>6 DEF Release, KeyAccepted, Moves, Steps
<1>3. CASE Decline
  <2>1. Does("declined") /\ Asked("declined")
    BY <1>3 DEF Decline, KeyAccepted, Does, Asked
  <2> QED
    BY <1>0, <1>3, <2>1, QuietMove DEF Decline, KeyAccepted, Steps, Edges
<1>4. CASE Resume
  <2>1. Does("resumed") /\ Asked("resumed")
    BY <1>4 DEF Resume, Does, Asked
  <2> QED
    BY <1>0, <1>4, <2>1, QuietMove DEF Resume, Steps, Edges
<1>5. CASE Notify
  <2>1. Does("alarm_page") /\ Asked("alarm_page")
    BY <1>5 DEF Notify, Does, Asked
  <2> QED
    BY <1>0, <1>5, <2>1, QuietMove DEF Notify, Steps, Edges
<1> QED
  BY <1>1, <1>2, <1>3, <1>4, <1>5 DEF Key

\* Every step of the thread that holds the lock is a move along the graph, or
\* the end of a call at a failure.
LEMMA HubStepMoves ==
  ASSUME TypeOK, HubStep
  PROVE  \E k \in Kinds \cup {"none"}, q \in Steps \cup {"return"} : Moves(k, q)
BY SendMoves, KeyMoves, NotifierMoves, LinesMove DEF HubStep

----------------------------------------------------------------------------
(* The four kinds of step *)

\* A caller's operation is pushed on an idle hub or on a call in foreign code.
Pushes ==
  /\ \E f \in Frame : /\ f.pc \in Operations /\ f.pc \in Operation
                      /\ f.pc \in {"send", "release", "decline"} => f.proof \in Proofs
                      /\ stack' = Append(stack, f)
  /\ stack # <<>> => Top.pc \in Callbacks
  /\ UNCHANGED <<log, gate, memory, ghosts, setting, fails>>

\* Nothing, a registration, or the arming of the registry.
Settles ==
  /\ UNCHANGED <<stack, gate, memory, ghosts, boots>>
  /\ log' \in {log, Append(log, Entry("signer.armed", "none", 0))}
  /\ armed' \in {armed, TRUE}
  /\ fails' \in {fails, fails + 1}

\* A step moves the top frame, pushes one, settles a handler, or is a restart.
LEMMA NextSteps ==
  ASSUME TypeOK, [Next]_vars
  PROVE  \/ \E k \in Kinds \cup {"none"}, q \in Steps \cup {"return"} : Moves(k, q)
         \/ Pushes \/ Settles \/ Restart
<1>1. CASE Caller
  <2>1. PICK op \in Operations, e \in Envelope, p \in ProofKinds \cup {"none"},
             d \in {"release", "decline", "none"} :
          /\ Call(op, e, p, d) /\ op \in Operation
          /\ op \in {"send", "release", "decline"} => p \in Proofs
    <3>1. Operation \subseteq Operations /\ Proofs \subseteq ProofKinds
      BY ConfigAssumption
    <3> DEFINE Made(op, e, p, d) == /\ Call(op, e, p, d) /\ op \in Operation
                                    /\ op \in {"send", "release", "decline"} => p \in Proofs
    <3>2. CASE \E e \in Envelope, p \in Proofs : "send" \in Operation /\ Call("send", e, p, "none")
      <4>1. PICK e \in Envelope, p \in Proofs : "send" \in Operation /\ Call("send", e, p, "none")
        BY <3>2
      <4>2. Made("send", e, p, "none")
        BY <4>1
      <4> HIDE DEF Made
      <4> QED
        BY <3>1, <4>2 DEF Made, Operations
    <3>3. CASE \E op \in Operation \cap {"release", "decline"}, e \in Envelope, p \in Proofs,
                 d \in {"release", "decline"} : Call(op, e, p, d)
      BY <3>1, <3>3
    <3>4. CASE \E op \in Operation \cap {"resume", "escalate", "notify"}, e \in Envelope :
                 Call(op, e, "none", "none")
      BY <3>1, <3>4
    <3> QED
      BY <1>1, <3>2, <3>3, <3>4 DEF Caller
  <2> DEFINE f == [pc |-> op, env |-> e, proof |-> p, decision |-> d]
  <2>2. f \in Frame /\ f.pc \in Operations
    BY DEF Frame, Operations, Steps
  <2>3. /\ f.pc \in Operation /\ (f.pc \in {"send", "release", "decline"} => f.proof \in Proofs)
        /\ stack' = Append(stack, f)
    BY <2>1 DEF Call
  <2> HIDE DEF f
  <2> QED
    BY <2>1, <2>2, <2>3 DEF Call, Pushes
<1>2. CASE (\E a \in Agent : Register(a)) \/ Arm \/ UNCHANGED vars
  BY <1>2 DEF Register, Arm, Settles, vars, gate, memory, ghosts, setting
<1> QED
  BY <1>1, <1>2, HubStepMoves DEF Next

\* What a move finds on top.
LEMMA MovesTop ==
  ASSUME TypeOK, NEW kind, NEW q, Moves(kind, q)
  PROVE  /\ Len(stack) \in 1 .. Len(stack) /\ stack[Len(stack)] = Top
         /\ Top \in Frame /\ Top.env \in Envelope
<1>1. Len(stack) \in 1 .. Len(stack) /\ stack[Len(stack)] \in Frame
  BY LastOf DEF TypeOK, Moves
<1> QED
  BY <1>1 DEF Top, Frame

\* What a move leaves on the stack: below it calls that wait in foreign code.
LEMMA StackAfter ==
  ASSUME TypeOK, Nesting, NEW kind, NEW q, Moves(kind, q)
  PROVE  /\ Len(stack) \in Nat \ {0} /\ Top \in Frame /\ stack[Len(stack)] = Top
         /\ \A k \in 1 .. Len(stack') :
              \/ k \in 1 .. Len(stack) - 1 /\ stack'[k] = stack[k] /\ stack[k].pc \in Callbacks
              \/ /\ k = Len(stack) /\ stack'[k].pc = q /\ stack'[k].env = Top.env
                 /\ stack'[k].proof = (IF q = "authorized" THEN holds[Top.env] ELSE Top.proof)
         /\ \A k \in 1 .. Len(stack) - 1 : k \in 1 .. Len(stack') /\ stack'[k] = stack[k]
         /\ IF q = "return" THEN stack' # <<>> => Top'.pc \in Callbacks
            ELSE Len(stack) \in 1 .. Len(stack') /\ stack' # <<>> /\ Top'.pc = q /\ Top'.env = Top.env
<1>1. stack \in Seq(Frame) /\ stack # <<>> /\ Top \in Frame /\ Len(stack) \in Nat \ {0}
  BY LastOf DEF TypeOK, Moves, Top
<1>2. \A k \in 1 .. Len(stack) - 1 : stack[k].pc \in Callbacks
  BY DEF Nesting
<1>3. CASE q = "return"
  <2>1. Return
    BY <1>3 DEF Moves, TopTo, Steps
  <2>2. /\ stack' \in Seq(Frame) /\ Len(stack') = Len(stack) - 1
        /\ \A i \in 1 .. Len(stack') : stack'[i] = stack[i]
    BY <1>1, <2>1, Popped DEF Return
  <2>3. stack' # <<>> => Top' = stack[Len(stack) - 1] /\ Len(stack) - 1 \in 1 .. Len(stack) - 1
    BY <1>1, <2>2 DEF Top
  <2> QED
    BY <1>1, <1>2, <1>3, <2>2, <2>3 DEF Top
<1>4. CASE q # "return"
  <2>1. PICK f \in Frame : /\ f.pc = q /\ f.env = Top.env
                           /\ f.proof = (IF q = "authorized" THEN holds[Top.env] ELSE Top.proof)
                           /\ stack' = [stack EXCEPT ![Len(stack)] = f]
    BY <1>4 DEF Moves, TopTo
  <2>2. /\ Len(stack') = Len(stack) /\ stack'[Len(stack)] = f
        /\ \A k \in 1 .. Len(stack) - 1 : stack'[k] = stack[k]
    BY <1>1, <2>1
  <2>3. Top' = f /\ stack' # <<>> /\ stack[Len(stack)] = Top
    BY <1>1, <2>2 DEF Top
  <2>4. \A k \in 1 .. Len(stack') : k \in 1 .. Len(stack) - 1 \/ k = Len(stack)
    BY <1>1, <2>2
  <2>5. \A k \in 1 .. Len(stack') :
          \/ k \in 1 .. Len(stack) - 1 /\ stack'[k] = stack[k] /\ stack[k].pc \in Callbacks
          \/ /\ k = Len(stack) /\ stack'[k].pc = q /\ stack'[k].env = Top.env
             /\ stack'[k].proof = (IF q = "authorized" THEN holds[Top.env] ELSE Top.proof)
    BY <1>2, <2>1, <2>2, <2>4
  <2>6. Top'.pc = q /\ Top'.env = Top.env
    BY <2>1, <2>3
  <2>7. Len(stack) \in 1 .. Len(stack') /\ \A k \in 1 .. Len(stack) - 1 : k \in 1 .. Len(stack')
    BY <1>1, <2>2
  <2> QED
    BY <1>1, <1>4, <2>2, <2>3, <2>5, <2>6, <2>7
<1> QED
  BY <1>3, <1>4

\* A push adds an operation on top of what was there.
LEMMA StackElsewhere ==
  ASSUME TypeOK, Pushes \/ Settles
  PROVE  /\ \A k \in 1 .. Len(stack') : \/ k \in 1 .. Len(stack) /\ stack'[k] = stack[k]
                                       \/ stack'[k].pc \in Operations
         /\ \A k \in 1 .. Len(stack) : k \in 1 .. Len(stack') /\ stack'[k] = stack[k]
         /\ Pushes => stack' # <<>> /\ Top'.pc \in Operations
         /\ Settles => stack' = stack
<1>1. stack \in Seq(Frame)
  BY DEF TypeOK
<1>2. CASE Settles /\ ~Pushes
  BY <1>2 DEF Settles
<1>3. CASE Pushes
  <2>1. PICK f \in Frame : f.pc \in Operations /\ stack' = Append(stack, f)
    BY <1>3 DEF Pushes
  <2>2. /\ stack' \in Seq(Frame) /\ Len(stack') = Len(stack) + 1 /\ Len(stack) \in Nat
        /\ \A k \in 1 .. Len(stack) : stack'[k] = stack[k]
        /\ stack'[Len(stack) + 1] = f
    BY <1>1, <2>1, Pushed
  <2>3. \A k \in 1 .. Len(stack') : k \in 1 .. Len(stack) \/ k = Len(stack) + 1
    BY <2>2
  <2>4. stack' # <<>> /\ Top' = f
    BY <2>2 DEF Top
  <2>5. Settles => stack' = stack
    BY DEF Settles
  <2> QED
    BY <2>1, <2>2, <2>3, <2>4, <2>5
<1> QED
  BY <1>2, <1>3

\* What a move leaves on the log.
LEMMA LogAfter ==
  ASSUME TypeOK, NEW kind, NEW q, Moves(kind, q)
  PROVE  /\ Len(log) \in Nat /\ DOMAIN log = 1 .. Len(log)
         /\ kind = "none" => log' = log
         /\ kind # "none" =>
              /\ DOMAIN log' = 1 .. Len(log) + 1 /\ Len(log') = Len(log) + 1
              /\ \A i \in DOMAIN log : log'[i] = log[i]
              /\ log'[Len(log) + 1] = [kind |-> kind, env |-> Top.env,
                                       seq |-> NumberFor(kind), boot |-> boots]
<1>1. log \in Seq(LogEntry)
  BY DEF TypeOK
<1>2. kind # "none" => log' = Append(log, Entry(kind, Top.env, NumberFor(kind)))
  BY DEF Moves, LogTo
<1> QED
  BY <1>1, <1>2 DEF Moves, LogTo, Entry

\* Steps of a send that has persisted and not yet come to its outcome.
After == {"selfcheck", "passed", "failed", "flag", "deliver", "queued_page", "queued",
          "dead", "handler", "crashed", "ack"}

\* How a step is reached, for the steps the invariants speak of.
LEMMA Ways ==
  ASSUME NEW kind, NEW q, Moves(kind, q)
  PROVE  /\ q \in {"verified", "unarmed"} => Top.pc = "schema"
         /\ q = "track" => \/ Top.pc = "schema"
                           \/ Top.pc = "verified" /\ kind = "signer.verified"
                           \/ Top.pc = "unarmed" /\ kind = "signer.unarmed"
         /\ q = "cleared" => Top.pc = "track"
         /\ q = "persist" => Top.pc \in {"track", "cleared"}
         /\ q = "schema" => Top.pc = "send"
         /\ q = "selfcheck" => Top.pc = "persist"
         /\ q \in {"passed", "failed"} => Top.pc = "selfcheck"
         /\ q = "deliver" => Top.pc \in {"persist", "passed"}
         /\ q = "flag" => Top.pc = "failed" /\ kind = "selfcheck.failed"
         /\ q = "handler" => Top.pc = "deliver"
         /\ q = "authorized" => Top.pc = "release"
         /\ q = "resumed" => Top.pc = "resume"
         /\ kind = "envelope.persisted" => Top.pc = "persist"
         /\ kind = "absolute_signal.released" => Top.pc = "cleared"
         /\ kind = "loop.resumed" => Top.pc = "resumed"
         /\ Top.pc = "authorized" => \/ kind = "disclosure.authorized"
                                     \/ fails' = fails + 1
         /\ q # "return" => fails' = fails
         /\ Top.pc = "resume" => q = "resumed" \/ fails' = fails + 1
         /\ Top.pc = "resumed" => kind = "loop.resumed" \/ fails' = fails + 1
         /\ q \in Pre => Top.pc \in Pre \/ (Top.pc = "send" /\ q = "schema")
         /\ kind = "envelope.persisted" => q \notin Pre
         /\ Top.pc = "persist" => q \in After \/ q = "return"
         /\ Top.pc \in After =>
              \/ q \in After
              \/ kind \in {"ack", "hold.queued", "dead.letter"}
              \/ Top.pc = "flag" /\ q = "flagged_page"
              \/ fails' = fails + 1
BY ConfigAssumption DEF Moves, Way, Edge, Edges, PageEdges, Steps, Pre, After

\* The log only grows, by one entry a step; what stood before an old entry
\* stands there for good.
LEMMA LogStep ==
  ASSUME TypeOK, [Next]_vars
  PROVE  /\ Len(log) \in Nat /\ DOMAIN log = 1 .. Len(log) /\ DOMAIN log' = 1 .. Len(log')
         /\ Len(log') \in {Len(log), Len(log) + 1}
         /\ \A i \in DOMAIN log : log'[i] = log[i]
         /\ \A i \in DOMAIN log : \A kind : Before(i, kind)' = Before(i, kind)
<1>1. log \in Seq(LogEntry)
  BY DEF TypeOK
<1>2. \E x : log' \in {log, Append(log, x)}
  <2>1. \A k, q : Moves(k, q) => \E x : log' \in {log, Append(log, x)}
    BY DEF Moves, LogTo
  <2>2. Pushes \/ Settles \/ Restart => \E x : log' \in {log, Append(log, x)}
    BY DEF Pushes, Settles, Restart
  <2> QED
    BY <2>1, <2>2, NextSteps
<1>3. /\ Len(log) \in Nat /\ DOMAIN log = 1 .. Len(log) /\ DOMAIN log' = 1 .. Len(log')
      /\ Len(log') \in {Len(log), Len(log) + 1}
      /\ \A i \in DOMAIN log : log'[i] = log[i]
  <2>1. CASE log' = log
    BY <1>1, <2>1
  <2>2. ASSUME NEW x, log' = Append(log, x)
        PROVE  /\ Len(log) \in Nat /\ DOMAIN log = 1 .. Len(log) /\ DOMAIN log' = 1 .. Len(log')
               /\ Len(log') \in {Len(log), Len(log) + 1}
               /\ \A i \in DOMAIN log : log'[i] = log[i]
    BY <1>1, <2>2
  <2> QED
    BY <1>2, <2>1, <2>2
<1>4. \A i \in DOMAIN log : \A kind : Before(i, kind)' = Before(i, kind)
  <2> SUFFICES ASSUME NEW i \in DOMAIN log, NEW kind PROVE Before(i, kind)' = Before(i, kind)
    OBVIOUS
  <2>0. \A j \in 1 .. i - 1 : j \in DOMAIN log
    <3>1. Len(log) \in Nat /\ i \in 1 .. Len(log) /\ DOMAIN log = 1 .. Len(log)
      BY <1>3
    <3>2. \A j \in 1 .. i - 1 : j \in 1 .. Len(log)
      BY <3>1
    <3> QED
      BY <3>1, <3>2
  <2>1. log'[i] = log[i] /\ \A j \in 1 .. i - 1 : log'[j] = log[j]
    BY <1>3, <2>0, Zenon
  <2> QED
    BY <2>1 DEF Before
<1> QED
  BY <1>3, <1>4

\* The same, of a move alone.
LEMMA MovesLog ==
  ASSUME TypeOK, NEW kind, NEW q, Moves(kind, q), NEW i \in DOMAIN log
  PROVE  log'[i] = log[i] /\ \A m : Before(i, m)' = Before(i, m)
<1>1. \A j \in DOMAIN log : log'[j] = log[j]
  BY LogAfter
<1>2. \A j \in 1 .. i - 1 : j \in DOMAIN log
  <2>1. Len(log) \in Nat /\ i \in 1 .. Len(log) /\ DOMAIN log = 1 .. Len(log)
    BY LogAfter
  <2>2. \A j \in 1 .. i - 1 : j \in 1 .. Len(log)
    BY <2>1
  <2> QED
    BY <2>1, <2>2
<1>3. \A m : Before(i, m)' = Before(i, m)
  BY <1>1, <1>2 DEF Before
<1> QED
  BY <1>1, <1>3

\* The new entry of a move is about the top call, and what this boot's log said
\* of that envelope stands before it.
LEMMA NewEntry ==
  ASSUME TypeOK, NEW kind, NEW q, Moves(kind, q), NEW i \in DOMAIN log', i \notin DOMAIN log
  PROVE  /\ kind # "none" /\ i = Len(log) + 1
         /\ log'[i].kind = kind /\ log'[i].env = Top.env /\ log'[i].boot = boots
         /\ log'[i].seq = NumberFor(kind)
         /\ \A m : Now(m, Top.env) \subseteq Before(i, m)'
<1>0. /\ Len(log) \in Nat /\ DOMAIN log = 1 .. Len(log)
      /\ kind = "none" => log' = log
      /\ kind # "none" =>
           /\ DOMAIN log' = 1 .. Len(log) + 1 /\ Len(log') = Len(log) + 1
           /\ \A j \in DOMAIN log : log'[j] = log[j]
           /\ log'[Len(log) + 1] = [kind |-> kind, env |-> Top.env,
                                    seq |-> NumberFor(kind), boot |-> boots]
  BY LogAfter, Zenon
<1>1. kind # "none"
  BY <1>0
<1>2. i = Len(log) + 1
  <2>1. Len(log) \in Nat /\ i \in 1 .. Len(log) + 1 /\ i \notin 1 .. Len(log)
    BY <1>0, <1>1
  <2> QED
    BY <2>1
<1>3. /\ log'[i].kind = kind /\ log'[i].env = Top.env /\ log'[i].boot = boots
      /\ log'[i].seq = NumberFor(kind)
  BY <1>0, <1>1, <1>2
<1>4. \A m : Now(m, Top.env) \subseteq Before(i, m)'
  <2> SUFFICES ASSUME NEW m, NEW j \in Now(m, Top.env) PROVE j \in Before(i, m)'
    OBVIOUS
  <2>1. j \in DOMAIN log /\ log[j].kind = m /\ log[j].env = Top.env /\ log[j].boot = boots
    BY DEF Now
  <2>2. j \in 1 .. i - 1
    <3>1. Len(log) \in Nat /\ j \in 1 .. Len(log)
      BY <1>0, <2>1
    <3> QED
      BY <1>2, <3>1
  <2>3. log'[j] = log[j]
    BY <1>0, <1>1, <2>1
  <2> QED
    BY <1>3, <2>1, <2>2, <2>3 DEF Before
<1> QED
  BY <1>1, <1>2, <1>3, <1>4

\* No other step writes about an envelope.
LEMMA OtherEntry ==
  ASSUME TypeOK, Pushes \/ Settles \/ Restart, NEW i \in DOMAIN log', i \notin DOMAIN log
  PROVE  log'[i].kind \in {"signer.armed", "hub.boot"}
<1>1. log \in Seq(LogEntry)
  BY DEF TypeOK
<1>2. \/ log' = Append(log, Entry("signer.armed", "none", 0))
      \/ log' = Append(log, [kind |-> "hub.boot", env |-> "none", seq |-> 0, boot |-> boots + 1])
  BY DEF Pushes, Settles, Restart
<1> QED
  BY <1>1, <1>2 DEF Entry

\* The entries about e in this boot, after each kind of step.
LEMMA NowAfter ==
  ASSUME TypeOK, NEW kind, NEW q, Moves(kind, q), NEW m \in Kinds, NEW e
  PROVE  /\ Len(log) + 1 \notin Now(m, e)
         /\ Now(m, e)' = IF kind = m /\ e = Top.env THEN Now(m, e) \cup {Len(log) + 1}
                         ELSE Now(m, e)
<1>1. boots' = boots /\ "none" \notin Kinds
  BY DEF Moves, Kinds
<1>0. /\ Len(log) \in Nat /\ DOMAIN log = 1 .. Len(log)
      /\ kind = "none" => log' = log
      /\ kind # "none" =>
           /\ DOMAIN log' = 1 .. Len(log) + 1
           /\ \A i \in DOMAIN log : log'[i] = log[i]
           /\ log'[Len(log) + 1] = [kind |-> kind, env |-> Top.env,
                                    seq |-> NumberFor(kind), boot |-> boots]
  BY LogAfter, Zenon
<1>2. CASE kind = "none"
  BY <1>0, <1>1, <1>2 DEF Now
<1>3. CASE kind # "none"
  BY <1>0, <1>1, <1>3 DEF Now
<1> QED
  BY <1>2, <1>3

\* Pushing and settling write no line, and a restart begins a boot without lines.
LEMMA NowElsewhere ==
  ASSUME IInv, NEW m \in Kinds \ {"hub.boot", "signer.armed"}, NEW e
  PROVE  /\ Pushes \/ Settles => Now(m, e)' = Now(m, e)
         /\ Restart => Now(m, e)' = {}
<1>1. log \in Seq(LogEntry) /\ boots \in Nat
  BY DEF IInv, TypeOK
<1>2. ASSUME Pushes \/ Settles PROVE Now(m, e)' = Now(m, e)
  <2> DEFINE entry == Entry("signer.armed", "none", 0)
  <2>1. boots' = boots /\ log' \in {log, Append(log, entry)}
    BY <1>2 DEF Pushes, Settles, setting
  <2>2. entry.kind # m
    BY DEF Entry
  <2> HIDE DEF entry
  <2>3. CASE log' = log
    BY <2>1, <2>3 DEF Now
  <2>4. CASE log' = Append(log, entry)
    BY <1>1, <2>1, <2>2, <2>4 DEF Now
  <2> QED
    BY <2>1, <2>3, <2>4
<1>3. ASSUME Restart PROVE Now(m, e)' = {}
  <2> DEFINE entry == [kind |-> "hub.boot", env |-> "none", seq |-> 0, boot |-> boots + 1]
  <2>1. boots' = boots + 1 /\ log' = Append(log, entry) /\ entry.kind # m
    BY <1>3 DEF Restart
  <2> HIDE DEF entry
  <2>2. \A i \in DOMAIN log : log[i].boot <= boots /\ log[i].boot \in Nat
    <3>1. \A i \in DOMAIN log : log[i] \in LogEntry
      BY <1>1
    <3> QED
      BY <3>1 DEF IInv, LogEntry
  <2>3. \A i \in DOMAIN log' : log'[i].kind = m => log'[i].boot # boots'
    <3> SUFFICES ASSUME NEW i \in DOMAIN log', log'[i].kind = m PROVE log'[i].boot # boots'
      OBVIOUS
    <3>1. i \in DOMAIN log /\ log'[i] = log[i]
      BY <1>1, <2>1
    <3> QED
      BY <1>1, <2>1, <2>2, <3>1
  <2> QED
    BY <2>3 DEF Now
<1> QED
  BY <1>2, <1>3

----------------------------------------------------------------------------
(* Who is trusted, on the record *)

\* Steps of a send whose signer has been checked.
Checked == {"track", "cleared", "persist", "selfcheck", "passed", "deliver", "handler"}

\* What an object must prove where a registry is armed at boot, and where not.
Enough == IF BootArmed THEN {"stamped"} ELSE {"signed", "stamped"}

\* The envelopes with the verdict on their signer on the log of this boot.
Vouched == {e \in Envelope : \/ Now("signer.verified", e) # {}
                             \/ ~BootArmed /\ Now("signer.unarmed", e) # {}}

AuthFrame(f) ==
  Authority(f.env) =>
    /\ f.pc = "verified" => f.proof = "stamped"
    /\ f.pc = "unarmed" => ~BootArmed
    /\ f.pc \in Checked \cup {"unarmed"} => f.proof \in Enough
    /\ f.pc \in {"track", "cleared", "persist"} => f.env \in Vouched

\* The first half of AuthorityProven, about one entry.
AuthEntry(i) ==
  log[i].kind = "envelope.persisted" /\ Authority(log[i].env) =>
    \/ Before(i, "signer.verified") # {}
    \/ ~BootArmed /\ Before(i, "signer.unarmed") # {}

AuthInv ==
  /\ IInv
  /\ BootArmed => armed
  /\ \A i \in DOMAIN log : AuthEntry(i)
  /\ \A k \in 1 .. Len(stack) : AuthFrame(stack[k])

\* An armed registry stays armed for the life of the process.
LEMMA ArmedStays ==
  ASSUME TypeOK, BootArmed => armed, [Next]_vars
  PROVE  BootArmed => armed'
<1>1. \A k, q : Moves(k, q) => armed' = armed
  BY DEF Moves
<1>2. Pushes => armed' = armed
  BY DEF Pushes, setting
<1>3. Settles \/ Restart => armed' \in {armed, TRUE, BootArmed}
  BY DEF Settles, Restart
<1> QED
  BY <1>1, <1>2, <1>3, NextSteps

\* The verdicts on the log stay within a boot.
LEMMA VouchedStays ==
  ASSUME IInv, Pushes \/ Settles \/ \E k, q : Moves(k, q)
  PROVE  Vouched \subseteq Vouched'
<1>1. {"signer.verified", "signer.unarmed"} \subseteq Kinds \ {"hub.boot", "signer.armed"}
  BY DEF Kinds
<1>2. ASSUME NEW m \in {"signer.verified", "signer.unarmed"}, NEW e
      PROVE  Now(m, e) \subseteq Now(m, e)'
  <2>1. Pushes \/ Settles => Now(m, e)' = Now(m, e)
    BY <1>1, <1>2, NowElsewhere
  <2>2. ASSUME NEW k, NEW q, Moves(k, q) PROVE Now(m, e) \subseteq Now(m, e)'
    <3>1. Now(m, e)' \in {Now(m, e), Now(m, e) \cup {Len(log) + 1}}
      BY <1>1, <1>2, <2>2, NowAfter DEF IInv
    <3> QED
      BY <3>1
  <2> QED
    BY <2>1, <2>2
<1> QED
  BY <1>2 DEF Vouched

\* A new entry about a persisted authority envelope comes from a call that was
\* vouched for.
LEMMA AuthEntries ==
  ASSUME AuthInv, IInv', [Next]_vars
  PROVE  \A i \in DOMAIN log' : AuthEntry(i)'
<1> SUFFICES ASSUME NEW i \in DOMAIN log' PROVE AuthEntry(i)'
  OBVIOUS
<1>0. TypeOK /\ IInv
  BY DEF AuthInv, IInv
<1>1. /\ Len(log) \in Nat /\ DOMAIN log = 1 .. Len(log) /\ DOMAIN log' = 1 .. Len(log')
      /\ Len(log') \in {Len(log), Len(log) + 1}
      /\ \A j \in DOMAIN log : log'[j] = log[j]
      /\ \A j \in DOMAIN log : \A kind : Before(j, kind)' = Before(j, kind)
  BY <1>0, LogStep
<1>2. CASE i \in DOMAIN log
  <2>1. AuthEntry(i) /\ log'[i] = log[i]
    BY <1>1, <1>2 DEF AuthInv
  <2>2. /\ Before(i, "signer.verified")' = Before(i, "signer.verified")
        /\ Before(i, "signer.unarmed")' = Before(i, "signer.unarmed")
    BY <1>1, <1>2
  <2> QED
    BY <2>1, <2>2 DEF AuthEntry
<1>3. ASSUME i \notin DOMAIN log, NEW k, NEW q, Moves(k, q)
      PROVE  AuthEntry(i)'
  <2>1. /\ log'[i].kind = k /\ log'[i].env = Top.env
        /\ \A m : Now(m, Top.env) \subseteq Before(i, m)'
    BY <1>0, <1>3, NewEntry
  <2> SUFFICES ASSUME k = "envelope.persisted", Authority(Top.env)
               PROVE  \/ Before(i, "signer.verified")' # {}
                      \/ ~BootArmed /\ Before(i, "signer.unarmed")' # {}
    BY <2>1 DEF AuthEntry
  <2>2. Top.pc = "persist"
    BY <1>3, Ways
  <2>3. AuthFrame(Top)
    BY <1>0, <1>3, MovesTop DEF AuthInv
  <2>4. Top.env \in Vouched
    BY <2>2, <2>3 DEF AuthFrame
  <2> QED
    BY <2>1, <2>4 DEF Vouched
<1>4. CASE i \notin DOMAIN log /\ (Pushes \/ Settles \/ Restart)
  BY <1>0, <1>4, OtherEntry DEF AuthEntry
<1> QED
  BY <1>0, <1>2, <1>3, <1>4, NextSteps

\* A move keeps what every frame knows of its verdict.
LEMMA AuthMoves ==
  ASSUME AuthInv, NEW k, NEW q, Moves(k, q)
  PROVE  (\A j \in 1 .. Len(stack) : AuthFrame(stack[j]))'
<1>0. IInv /\ TypeOK /\ Nesting
  BY DEF AuthInv, IInv
<1>1. Vouched \subseteq Vouched'
  BY <1>0, VouchedStays
<1>2. AuthFrame(Top) /\ Top.env \in Envelope
  BY <1>0, MovesTop DEF AuthInv
<1>w. /\ q = "track" => \/ Top.pc = "schema"
                        \/ Top.pc = "verified" /\ k = "signer.verified"
                        \/ Top.pc = "unarmed" /\ k = "signer.unarmed"
      /\ q \in Checked \ {"track"} => Top.pc \in Checked
      /\ q \in {"cleared", "persist"} => Top.pc \in {"track", "cleared"}
  BY Ways DEF Checked
<1>a. Asked(q) /\ boots' = boots
  BY DEF Moves
<1> SUFFICES ASSUME NEW j \in 1 .. Len(stack') PROVE AuthFrame(stack[j])'
  OBVIOUS
<1>3. CASE j \in 1 .. Len(stack) - 1 /\ stack'[j] = stack[j]
  <2>1. AuthFrame(stack[j])
    <3>1. j \in 1 .. Len(stack)
      BY <1>0, <1>3, StackAfter
    <3> QED
      BY <3>1 DEF AuthInv
  <2> QED
    BY <1>1, <1>3, <2>1 DEF AuthFrame
<1>4. CASE /\ j = Len(stack) /\ stack'[j].pc = q /\ stack'[j].env = Top.env
           /\ q # "authorized" => stack'[j].proof = Top.proof
  <2> SUFFICES ASSUME Authority(Top.env)
               PROVE  /\ q = "verified" => stack'[j].proof = "stamped"
                      /\ q = "unarmed" => ~BootArmed
                      /\ q \in Checked \cup {"unarmed"} => stack'[j].proof \in Enough
                      /\ q \in {"track", "cleared", "persist"} => Top.env \in Vouched'
    BY <1>4 DEF AuthFrame
  <2>1. q = "verified" => stack'[j].proof = "stamped"
    BY <1>4, <1>a DEF Asked
  <2>2. q = "unarmed" => ~BootArmed /\ Top.proof \in {"signed", "stamped"}
    BY <1>a DEF Asked, AuthInv
  <2>3. q = "track" => \/ Top.pc = "verified" /\ k = "signer.verified"
                       \/ Top.pc = "unarmed" /\ k = "signer.unarmed"
    BY <1>a, <1>w DEF Asked
  <2>4. q \in Checked \cup {"unarmed"} => stack'[j].proof \in Enough
    <3>1. q \in Checked => Top.pc \in Checked \cup {"unarmed"} \/ Top.pc = "verified"
      BY <1>w, <2>3
    <3>2. q \in Checked => Top.proof \in Enough
      BY <1>2, <3>1 DEF AuthFrame, Enough
    <3> QED
      BY <1>4, <2>2, <3>2 DEF Enough, Checked
  <2>5. q \in {"track", "cleared", "persist"} => Top.env \in Vouched'
    <3>1. CASE q \in {"cleared", "persist"}
      BY <1>1, <1>2, <1>w, <3>1 DEF AuthFrame
    <3>2. CASE q = "track"
      <4>1. \A e : e = Top.env => Now(k, e)' = Now(k, e) \cup {Len(log) + 1}
        BY <1>0, <2>3, <3>2, NowAfter DEF Kinds
      <4>2. k = "signer.unarmed" => ~BootArmed
        BY <1>2, <2>3, <3>2 DEF AuthFrame
      <4>3. \A e : e = Top.env /\ e \in Envelope => e \in Vouched'
        <5> SUFFICES ASSUME NEW e \in Envelope, e = Top.env PROVE e \in Vouched'
          OBVIOUS
        <5>1. Now(k, e)' # {}
          BY <4>1
        <5>2. CASE k = "signer.verified"
          BY <5>1, <5>2 DEF Vouched
        <5>3. CASE k = "signer.unarmed"
          BY <4>2, <5>1, <5>3 DEF Vouched
        <5> QED
          BY <2>3, <3>2, <5>2, <5>3
      <4> QED
        BY <1>2, <4>3
    <3> QED
      BY <3>1, <3>2
  <2> QED
    BY <2>1, <2>2, <2>4, <2>5
<1> QED
  BY <1>0, <1>3, <1>4, StackAfter

\* So do the other steps.
LEMMA AuthElsewhere ==
  ASSUME AuthInv, Pushes \/ Settles \/ Restart
  PROVE  (\A j \in 1 .. Len(stack) : AuthFrame(stack[j]))'
<1>0. IInv /\ TypeOK /\ stack \in Seq(Frame)
  BY DEF AuthInv, IInv, TypeOK
<1> SUFFICES ASSUME NEW j \in 1 .. Len(stack') PROVE AuthFrame(stack[j])'
  OBVIOUS
<1>1. CASE Restart
  BY <1>1 DEF Restart
<1>2. CASE Pushes \/ Settles
  <2>1. Vouched \subseteq Vouched'
    BY <1>0, <1>2, VouchedStays
  <2>2. \/ j \in 1 .. Len(stack) /\ stack'[j] = stack[j]
        \/ stack'[j].pc \in Operations
    BY <1>0, <1>2, StackElsewhere
  <2>3. CASE j \in 1 .. Len(stack) /\ stack'[j] = stack[j]
    <3>1. AuthFrame(stack[j])
      BY <2>3 DEF AuthInv
    <3> QED
      BY <2>1, <2>3, <3>1 DEF AuthFrame
  <2>4. CASE stack'[j].pc \in Operations
    BY <2>4 DEF AuthFrame, Operations, Checked
  <2> QED
    BY <2>2, <2>3, <2>4
<1> QED
  BY <1>1, <1>2

\* So does every step.
LEMMA AuthNext == AuthInv /\ [Next]_vars => AuthInv'
<1> SUFFICES ASSUME AuthInv, [Next]_vars PROVE AuthInv'
  OBVIOUS
<1>1. IInv' /\ TypeOK
  BY NextInv DEF AuthInv, IInv
<1>2. (BootArmed => armed)'
  BY <1>1, ArmedStays DEF AuthInv
<1>3. (\A i \in DOMAIN log : AuthEntry(i))'
  BY <1>1, AuthEntries
<1>4. (\A j \in 1 .. Len(stack) : AuthFrame(stack[j]))'
  BY <1>1, AuthMoves, AuthElsewhere, NextSteps
<1> QED
  BY <1>1, <1>2, <1>3, <1>4 DEF AuthInv

\* No authority envelope is persisted unless its signer was verified on the
\* record of that boot, or declared unarmed where no registry was armed at boot,
\* and none gets past the gate on less (hub.py:528-552): for every route table,
\* every nesting, every failure and every restart.
THEOREM AuthorityCorrect == Spec => []AuthorityProven
<1>1. Init => AuthInv
  <2> SUFFICES ASSUME Init PROVE AuthInv
    OBVIOUS
  <2>1. DOMAIN log = {1} /\ log[1].kind = "hub.boot" /\ Len(stack) = 0 /\ armed = BootArmed
    BY DEF Init
  <2> QED
    BY <2>1, InitInv DEF AuthInv, AuthEntry
<1>2. AuthInv => AuthorityProven
  <2> SUFFICES ASSUME AuthInv PROVE AuthorityProven
    OBVIOUS
  <2>1. DOMAIN stack = 1 .. Len(stack)
    BY DEF AuthInv, IInv, TypeOK
  <2> QED
    BY <2>1 DEF AuthInv, AuthEntry, AuthFrame, AuthorityProven, Checked, Enough
<1> QED
  BY <1>1, <1>2, AuthNext, PTL DEF Spec

----------------------------------------------------------------------------
(* What a key lets pass *)

\* The envelope of the top call, while it stands at pc.
AtTop(pc) == IF At(pc) THEN {Top.env} ELSE {}

\* Which frame stands where after a step, for steps that never wait.
LEMMA AtTopAfter ==
  ASSUME TypeOK, Nesting, NEW pc \in Steps \ Callbacks
  PROVE  /\ \A k, q : Moves(k, q) => AtTop(pc)' = IF q = pc THEN {Top.env} ELSE {}
         /\ Pushes /\ pc \notin Operations => AtTop(pc)' = {} /\ AtTop(pc) = {}
         /\ Settles => AtTop(pc)' = AtTop(pc)
         /\ Restart => AtTop(pc)' = {}
<1>1. ASSUME NEW k, NEW q, Moves(k, q)
      PROVE  AtTop(pc)' = IF q = pc THEN {Top.env} ELSE {}
  <2>1. IF q = "return" THEN stack' # <<>> => Top'.pc \in Callbacks
        ELSE stack' # <<>> /\ Top'.pc = q /\ Top'.env = Top.env
    BY <1>1, StackAfter
  <2>2. pc # "return"
    BY DEF Steps
  <2> QED
    BY <2>1, <2>2 DEF AtTop, At
<1>2. Pushes /\ pc \notin Operations => AtTop(pc)' = {} /\ AtTop(pc) = {}
  <2>1. Pushes => stack' # <<>> /\ Top'.pc \in Operations
    BY StackElsewhere
  <2>2. Pushes /\ stack # <<>> => Top.pc \in Callbacks
    BY DEF Pushes
  <2> QED
    BY <2>1, <2>2 DEF AtTop, At
<1>3. Settles => AtTop(pc)' = AtTop(pc)
  BY DEF Settles, AtTop, At, Top
<1>4. Restart => AtTop(pc)' = {}
  BY DEF Restart, AtTop, At
<1> QED
  BY <1>1, <1>2, <1>3, <1>4

\* An armed pass is for a gated message not yet persisted, and a send behind
\* the gate has used its own.
ReleaseInv ==
  /\ GateInv
  /\ \A e \in released : Gated(e) /\ e \notin seen
  /\ \A k \in 1 .. Len(stack) : stack[k].pc \in Passed => stack[k].env \notin released

\* A move keeps the count of passes armed and used.
LEMMA ReleaseMoves ==
  ASSUME ReleaseInv, GateInv', NEW k, NEW q, Moves(k, q)
  PROVE  ReleaseInv'
<1>0. TypeOK /\ Nesting /\ HoldsAside
  BY DEF ReleaseInv, GateInv, IInv
<1>1. /\ Top.env \in Envelope
      /\ Top.pc \in Passed => Top.env \notin released
  BY <1>0, MovesTop DEF ReleaseInv
<1>2. /\ seen' = IF Top.pc = "persist" /\ q # "return" THEN seen \cup {Top.env} ELSE seen
      /\ released' = IF q = "cleared" THEN released \ {Top.env}
                     ELSE IF q = "authorized" THEN released \cup {Top.env} ELSE released
      /\ q = "authorized" => holds[Top.env] # "none"
      /\ Top.pc = "track" /\ q = "persist" => (External(Top.env) => Top.env \notin released)
  BY DEF Moves, Does, Asked
<1>3. /\ q = "authorized" => Top.pc = "release"
      /\ q = "persist" => Top.pc \in {"track", "cleared"}
  BY Ways
<1>4. \A e \in released' : Gated(e) /\ e \notin seen'
  <2>1. q = "authorized" => Gated(Top.env) /\ Top.env \notin seen
    BY <1>0, <1>1, <1>2 DEF HoldsAside
  <2> QED
    BY <1>1, <1>2, <1>3, <2>1 DEF ReleaseInv, Passed
<1>5. q \in Passed => Top.env \notin released'
  <2>1. Top.env \in released => External(Top.env)
    BY DEF ReleaseInv, Gated
  <2> QED
    BY <1>1, <1>2, <1>3, <2>1 DEF Passed
<1>6. ASSUME NEW j \in 1 .. Len(stack') PROVE stack'[j].pc \in Passed => stack'[j].env \notin released'
  <2>1. \/ stack'[j].pc \in Callbacks
        \/ stack'[j].pc = q /\ stack'[j].env = Top.env
    BY <1>0, StackAfter
  <2> QED
    BY <1>5, <2>1 DEF Callbacks, Pages, Passed
<1> QED
  BY <1>4, <1>6 DEF ReleaseInv

\* So does every step,
LEMMA ReleaseNext == ReleaseInv /\ [Next]_vars => ReleaseInv'
<1> SUFFICES ASSUME ReleaseInv, [Next]_vars PROVE ReleaseInv'
  OBVIOUS
<1>1. GateInv' /\ TypeOK
  BY NextGate DEF ReleaseInv, GateInv, IInv
<1>2. CASE Pushes \/ Settles
  <2>1. UNCHANGED <<released, seen>>
    BY <1>2 DEF Pushes, Settles, gate, memory
  <2>2. \A j \in 1 .. Len(stack') : \/ j \in 1 .. Len(stack) /\ stack'[j] = stack[j]
                                    \/ stack'[j].pc \in Operations
    BY <1>1, <1>2, StackElsewhere
  <2> QED
    BY <1>1, <2>1, <2>2 DEF ReleaseInv, Operations, Passed
<1>3. CASE Restart
  BY <1>1, <1>3 DEF Restart, ReleaseInv
<1> QED
  BY <1>1, <1>2, <1>3, ReleaseMoves, NextSteps

\* and it is right at first.
LEMMA ReleaseInit == Init => ReleaseInv
<1> SUFFICES ASSUME Init PROVE ReleaseInv
  OBVIOUS
<1>1. released = {} /\ Len(stack) = 0
  BY DEF Init
<1> QED
  BY <1>1, InitGate DEF ReleaseInv

\* The step that runs a handler finds the envelope on the log of this boot and
\* its gate pass consumed (hub.py:616).
THEOREM PersistFirstCorrect == Spec => PersistFirst
<1> DEFINE A == \A e \in Envelope : runs'[e] > runs[e] =>
                  Now("envelope.persisted", e) # {} /\ e \notin released
<1>1. ReleaseInv /\ [Next]_vars => A
  <2> SUFFICES ASSUME ReleaseInv, [Next]_vars, NEW e \in Envelope, runs'[e] > runs[e]
               PROVE  Now("envelope.persisted", e) # {} /\ e \notin released
    OBVIOUS
  <2>0. TypeOK /\ IInv /\ runs[e] \in Nat
    BY DEF ReleaseInv, GateInv, IInv, TypeOK
  <2>1. runs' # runs
    BY <2>0
  <2>2. ~(Pushes \/ Settles \/ Restart)
    BY <2>1 DEF Pushes, Settles, Restart, ghosts
  <2>3. PICK k, q : Moves(k, q)
    BY <2>0, <2>2, NextSteps
  <2>4. q = "handler" /\ e = Top.env
    <3>1. runs' = IF q = "handler" THEN [runs EXCEPT ![Top.env] = @ + 1] ELSE runs
      BY <2>3 DEF Moves, Does
    <3> QED
      BY <2>0, <3>1 DEF TypeOK
  <2>5. Top.pc = "deliver"
    BY <2>3, <2>4, Ways
  <2>6. FrameInv(Top)
    BY <2>0, <2>3, MovesTop DEF IInv
  <2>7. e \in seen
    BY <2>4, <2>5, <2>6 DEF FrameInv, Live, Pending
  <2>8. Now("envelope.persisted", e) # {}
    BY <2>0, <2>7 DEF IInv, SeenInv, Now
  <2> QED
    BY <2>7, <2>8 DEF ReleaseInv
<1> QED
  BY <1>1, ReleaseInit, ReleaseNext, PTL DEF Spec, PersistFirst

\* The entries of one kind about e are finitely many; one more is one more.
LEMMA NowCard ==
  ASSUME TypeOK, NEW m, NEW e
  PROVE  /\ IsFiniteSet(Now(m, e)) /\ Cardinality(Now(m, e)) \in Nat
         /\ \A i : i \notin Now(m, e) =>
              Cardinality(Now(m, e) \cup {i}) = Cardinality(Now(m, e)) + 1
<1>1. Len(log) \in Nat /\ DOMAIN log = 1 .. Len(log)
  BY DEF TypeOK
<1>2. IsFiniteSet(1 .. Len(log)) /\ Now(m, e) \subseteq 1 .. Len(log)
  BY <1>1, FS_Interval DEF Now
<1>3. IsFiniteSet(Now(m, e))
  BY <1>2, FS_Subset
<1> QED
  BY <1>3, FS_CardinalityType, FS_AddElement

Bit(b) == IF b THEN 1 ELSE 0

\* The passes of e on the log, armed, and in the hand of the top call.
Passes(e) ==
  Cardinality(Now("absolute_signal.released", e)) + Bit(e \in released) + Bit(e \in AtTop("cleared"))

KeysInv ==
  /\ IInv
  /\ \A e \in Envelope : Passes(e) <= keys[e]

\* A move passes the gate no more often than keys were accepted.
LEMMA KeysMoves ==
  ASSUME KeysInv, NEW k, NEW q, Moves(k, q), NEW e \in Envelope
  PROVE  Passes(e)' <= keys'[e]
<1> DEFINE m == "absolute_signal.released"
           n == Cardinality(Now(m, e))
<1>0. TypeOK /\ Nesting /\ IInv /\ keys[e] \in Nat /\ keys \in [Envelope -> Nat]
      /\ Top.env \in Envelope /\ m \in Kinds /\ "cleared" \in Steps \ Callbacks
  BY MovesTop DEF KeysInv, IInv, TypeOK, Kinds, Steps, Callbacks, Pages
<1>1. /\ released' = IF q = "cleared" THEN released \ {Top.env}
                     ELSE IF q = "authorized" THEN released \cup {Top.env} ELSE released
      /\ keys' = IF q = "authorized" THEN [keys EXCEPT ![Top.env] = @ + 1] ELSE keys
      /\ q = "cleared" => Top.env \in released
      /\ stack # <<>>
  BY DEF Moves, Does, Asked
<1>2. /\ q = "authorized" => Top.pc = "release"
      /\ q = "cleared" => Top.pc = "track"
      /\ k = m => Top.pc = "cleared"
  BY Ways
<1>3. AtTop("cleared")' = IF q = "cleared" THEN {Top.env} ELSE {}
  BY <1>0, AtTopAfter
<1>4. AtTop("cleared") = IF Top.pc = "cleared" THEN {Top.env} ELSE {}
  BY <1>1 DEF AtTop, At
<1>5. n \in Nat /\ Cardinality(Now(m, e)') = IF k = m /\ e = Top.env THEN n + 1 ELSE n
  BY <1>0, NowCard, NowAfter
<1>6. n + Bit(e \in released) + Bit(e \in AtTop("cleared")) <= keys[e]
  BY DEF KeysInv, Passes
<1>7. Passes(e)' = Cardinality(Now(m, e)') + Bit(e \in released') + Bit(e \in AtTop("cleared")')
  BY DEF Passes, Bit
<1> HIDE DEF n, m
<1>8. CASE e # Top.env
  <2>1. keys'[e] = keys[e] /\ (e \in released' <=> e \in released)
    BY <1>0, <1>1, <1>8
  <2>2. Cardinality(Now(m, e)') = n /\ e \notin AtTop("cleared")'
    BY <1>3, <1>5, <1>8
  <2> QED
    BY <1>0, <1>5, <1>6, <1>7, <2>1, <2>2 DEF Bit
<1>9. CASE e = Top.env /\ q = "cleared"
  <2>1. k # m /\ e \in released /\ e \notin released' /\ keys' = keys
    BY <1>1, <1>2, <1>9
  <2> QED
    BY <1>0, <1>3, <1>4, <1>5, <1>6, <1>7, <1>9, <2>1 DEF Bit
<1>10. CASE e = Top.env /\ q = "authorized"
  <2>1. k # m /\ keys'[e] = keys[e] + 1 /\ e \notin AtTop("cleared")'
    BY <1>0, <1>1, <1>2, <1>3, <1>10
  <2> QED
    BY <1>0, <1>4, <1>5, <1>6, <1>7, <1>10, <2>1 DEF Bit
<1>11. CASE e = Top.env /\ q \notin {"cleared", "authorized"}
  <2>1. released' = released /\ keys' = keys /\ e \notin AtTop("cleared")'
    BY <1>1, <1>3, <1>11
  <2>2. k = m => e \in AtTop("cleared")
    BY <1>2, <1>4, <1>11
  <2> QED
    BY <1>0, <1>4, <1>5, <1>6, <1>7, <1>11, <2>1, <2>2 DEF Bit
<1> QED
  BY <1>8, <1>9, <1>10, <1>11

\* Every step keeps it.
LEMMA KeysNext == KeysInv /\ [Next]_vars => KeysInv'
<1> SUFFICES ASSUME KeysInv, [Next]_vars PROVE KeysInv'
  OBVIOUS
<1>0. IInv' /\ IInv /\ TypeOK /\ Nesting
  BY NextInv DEF KeysInv, IInv
<1>1. "absolute_signal.released" \in Kinds \ {"hub.boot", "signer.armed"}
      /\ "cleared" \in Steps \ Callbacks /\ "cleared" \notin Operations
  BY DEF Kinds, Steps, Callbacks, Pages, Operations
<1>2. CASE Pushes \/ Settles
  <2> SUFFICES ASSUME NEW e \in Envelope PROVE Passes(e)' <= keys'[e]
    BY <1>0 DEF KeysInv
  <2>1. UNCHANGED <<released, keys>>
    BY <1>2 DEF Pushes, Settles, gate
  <2>2. Now("absolute_signal.released", e)' = Now("absolute_signal.released", e)
    BY <1>0, <1>1, <1>2, NowElsewhere
  <2>3. AtTop("cleared")' = AtTop("cleared")
    BY <1>0, <1>1, <1>2, AtTopAfter
  <2>4. Passes(e) <= keys[e]
    BY DEF KeysInv
  <2> QED
    BY <2>1, <2>2, <2>3, <2>4 DEF Passes, Bit
<1>3. CASE Restart
  <2> SUFFICES ASSUME NEW e \in Envelope PROVE Passes(e)' <= keys'[e]
    BY <1>0 DEF KeysInv
  <2>1. released' = {} /\ keys'[e] = 0
    BY <1>3 DEF Restart
  <2>2. Now("absolute_signal.released", e)' = {}
    BY <1>0, <1>1, <1>3, NowElsewhere
  <2>3. AtTop("cleared")' = {}
    BY <1>0, <1>1, <1>3, AtTopAfter
  <2>4. Cardinality({}) = 0
    BY FS_EmptySet
  <2> QED
    BY <2>1, <2>2, <2>3, <2>4 DEF Passes, Bit
<1>4. ASSUME NEW k, NEW q, Moves(k, q) PROVE KeysInv'
  BY <1>0, <1>4, KeysMoves DEF KeysInv
<1> QED
  BY <1>0, <1>2, <1>3, <1>4, NextSteps

\* The gate is passed at most once for each key accepted in a boot, the pass
\* still armed counted in (hub.py:583): a key cannot be reused by a retry, a
\* nested send or a failed append.
THEOREM KeysCorrect == Spec => []OneKeyOnePass
<1>1. Init => KeysInv
  <2> SUFFICES ASSUME Init PROVE KeysInv
    OBVIOUS
  <2>1. /\ DOMAIN log = {1} /\ log[1].kind = "hub.boot" /\ released = {} /\ stack = <<>>
        /\ \A e \in Envelope : keys[e] = 0
    BY DEF Init
  <2>2. \A e \in Envelope : Now("absolute_signal.released", e) = {} /\ e \notin AtTop("cleared")
    BY <2>1 DEF Now, AtTop, At
  <2>3. Cardinality({}) = 0
    BY FS_EmptySet
  <2>4. \A e \in Envelope : Passes(e) = 0
    <3> SUFFICES ASSUME NEW e \in Envelope PROVE Passes(e) = 0
      OBVIOUS
    <3>1. Cardinality(Now("absolute_signal.released", e)) = 0
      BY <2>2, <2>3
    <3>2. Bit(e \in released) = 0 /\ Bit(e \in AtTop("cleared")) = 0
      BY <2>1, <2>2 DEF Bit
    <3> QED
      BY <3>1, <3>2 DEF Passes
  <2> QED
    BY <2>1, <2>4, InitInv DEF KeysInv
<1>2. KeysInv => OneKeyOnePass
  <2> SUFFICES ASSUME KeysInv, NEW e \in Envelope
               PROVE  Cardinality(Now("absolute_signal.released", e))
                        + (IF e \in released THEN 1 ELSE 0) <= keys[e]
    BY DEF OneKeyOnePass
  <2>1. Cardinality(Now("absolute_signal.released", e)) \in Nat /\ keys[e] \in Nat
    BY NowCard DEF KeysInv, IInv, TypeOK
  <2> QED
    BY <2>1 DEF KeysInv, Passes, Bit
<1> QED
  BY <1>1, <1>2, KeysNext, PTL DEF Spec

\* The envelopes whose authorization is on the log of this boot.
Authorized == {e \in Envelope : Now("disclosure.authorized", e) # {}}

\* A pass is armed or used only behind its authorization, unless an append has
\* failed: Release arms the pass before the append that records it.
RecordInv ==
  /\ IInv
  /\ fails = 0 =>
       /\ AuthorizationRecorded
       /\ released \subseteq Authorized \cup AtTop("authorized")
       /\ AtTop("cleared") \subseteq Authorized

\* The clause of AuthorizationRecorded for one entry.
RecordedEntry(i) ==
  log[i].kind = "absolute_signal.released" => Before(i, "disclosure.authorized") # {}

\* A move keeps an authorization behind every pass.
LEMMA RecordMoves ==
  ASSUME RecordInv, IInv', NEW k, NEW q, Moves(k, q)
  PROVE  RecordInv'
<1> SUFFICES ASSUME fails' = 0
             PROVE  /\ AuthorizationRecorded'
                    /\ released' \subseteq Authorized' \cup AtTop("authorized")'
                    /\ AtTop("cleared")' \subseteq Authorized'
  BY DEF RecordInv
<1>0. /\ TypeOK /\ Nesting /\ IInv /\ fails \in Nat /\ Top.env \in Envelope
      /\ "disclosure.authorized" \in Kinds
      /\ "cleared" \in Steps \ Callbacks /\ "authorized" \in Steps \ Callbacks
  BY MovesTop DEF RecordInv, IInv, TypeOK, Kinds, Steps, Callbacks, Pages
<1>1. /\ released' = IF q = "cleared" THEN released \ {Top.env}
                     ELSE IF q = "authorized" THEN released \cup {Top.env} ELSE released
      /\ q = "cleared" => Top.env \in released
      /\ stack # <<>> /\ fails' \in {fails, fails + 1}
  BY DEF Moves, Does, Asked, Way
<1>2. fails = 0 /\ fails' = fails
  BY <1>0, <1>1
<1>3. /\ q = "authorized" => Top.pc = "release"
      /\ q = "cleared" => Top.pc = "track"
      /\ k = "absolute_signal.released" => Top.pc = "cleared"
      /\ Top.pc = "authorized" => k = "disclosure.authorized"
  <2>1. Top.pc = "authorized" => k = "disclosure.authorized" \/ fails' = fails + 1
    BY Ways
  <2>2. fails' # fails + 1
    BY <1>2
  <2> QED
    BY <2>1, <2>2, Ways
<1>4. /\ AuthorizationRecorded
      /\ released \subseteq Authorized \cup AtTop("authorized")
      /\ AtTop("cleared") \subseteq Authorized
  BY <1>2 DEF RecordInv
<1>5. /\ AtTop("cleared")' = IF q = "cleared" THEN {Top.env} ELSE {}
      /\ AtTop("authorized")' = IF q = "authorized" THEN {Top.env} ELSE {}
  BY <1>0, AtTopAfter
<1>6. /\ AtTop("cleared") = IF Top.pc = "cleared" THEN {Top.env} ELSE {}
      /\ AtTop("authorized") = IF Top.pc = "authorized" THEN {Top.env} ELSE {}
  BY <1>1 DEF AtTop, At
<1>7. Authorized \subseteq Authorized' /\ (Top.pc = "authorized" => Top.env \in Authorized')
  <2>1. \A e : Now("disclosure.authorized", e)' =
                 IF k = "disclosure.authorized" /\ e = Top.env
                 THEN Now("disclosure.authorized", e) \cup {Len(log) + 1}
                 ELSE Now("disclosure.authorized", e)
    BY <1>0, NowAfter
  <2>2. Authorized \subseteq Authorized'
    BY <2>1 DEF Authorized
  <2>3. k = "disclosure.authorized" => \A e \in Envelope : e = Top.env => e \in Authorized'
    BY <2>1 DEF Authorized
  <2> QED
    BY <1>0, <1>3, <2>2, <2>3
<1>8. released' \subseteq Authorized' \cup AtTop("authorized")'
  BY <1>1, <1>3, <1>4, <1>5, <1>6, <1>7
<1>9. AtTop("cleared")' \subseteq Authorized'
  BY <1>1, <1>3, <1>4, <1>5, <1>6, <1>7
<1>10. AuthorizationRecorded'
  <2> SUFFICES ASSUME NEW i \in DOMAIN log' PROVE RecordedEntry(i)'
    BY DEF AuthorizationRecorded, RecordedEntry
  <2>1. CASE i \in DOMAIN log
    <3>1. /\ log'[i] = log[i]
          /\ Before(i, "disclosure.authorized")' = Before(i, "disclosure.authorized")
      BY <1>0, <2>1, MovesLog
    <3> QED
      BY <1>4, <2>1, <3>1 DEF AuthorizationRecorded, RecordedEntry
  <2>2. CASE i \notin DOMAIN log
    <3>1. /\ log'[i].kind = k
          /\ \A m : Now(m, Top.env) \subseteq Before(i, m)'
      BY <1>0, <2>2, NewEntry
    <3>2. k = "absolute_signal.released" => Now("disclosure.authorized", Top.env) # {}
      BY <1>3, <1>4, <1>6 DEF Authorized
    <3> QED
      BY <3>1, <3>2 DEF RecordedEntry
  <2> QED
    BY <2>1, <2>2
<1> QED
  BY <1>8, <1>9, <1>10

\* So does every step.
LEMMA RecordNext == RecordInv /\ [Next]_vars => RecordInv'
<1> SUFFICES ASSUME RecordInv, [Next]_vars PROVE RecordInv'
  OBVIOUS
<1>0. /\ IInv' /\ IInv /\ TypeOK /\ Nesting /\ fails \in Nat
      /\ "disclosure.authorized" \in Kinds \ {"hub.boot", "signer.armed"}
      /\ \A pc \in {"cleared", "authorized"} : pc \in Steps \ Callbacks /\ pc \notin Operations
  BY NextInv DEF RecordInv, IInv, TypeOK, Kinds, Steps, Callbacks, Pages, Operations
<1>1. CASE Pushes \/ Settles \/ Restart
  <2> SUFFICES ASSUME fails' = 0
               PROVE  /\ AuthorizationRecorded'
                      /\ released' \subseteq Authorized' \cup AtTop("authorized")'
                      /\ AtTop("cleared")' \subseteq Authorized'
    BY <1>0 DEF RecordInv
  <2>1. fails' \in {fails, fails + 1}
    BY <1>1 DEF Pushes, Settles, Restart
  <2>2. fails = 0
    BY <1>0, <2>1
  <2>3. AuthorizationRecorded'
    <3> SUFFICES ASSUME NEW i \in DOMAIN log' PROVE RecordedEntry(i)'
      BY DEF AuthorizationRecorded, RecordedEntry
    <3>1. CASE i \in DOMAIN log
      <4>1. /\ log'[i] = log[i]
            /\ Before(i, "disclosure.authorized")' = Before(i, "disclosure.authorized")
        BY <1>0, <3>1, LogStep
      <4> QED
        BY <2>2, <3>1, <4>1 DEF RecordInv, AuthorizationRecorded, RecordedEntry
    <3>2. CASE i \notin DOMAIN log
      BY <1>0, <1>1, <3>2, OtherEntry DEF RecordedEntry
    <3> QED
      BY <3>1, <3>2
  <2>4. CASE Pushes \/ Settles
    <3>1. released' = released
      BY <2>4 DEF Pushes, Settles, gate
    <3>2. \A pc \in {"cleared", "authorized"} : AtTop(pc)' = AtTop(pc)
      BY <1>0, <2>4, AtTopAfter
    <3>3. \A e : Now("disclosure.authorized", e)' = Now("disclosure.authorized", e)
      BY <1>0, <2>4, NowElsewhere
    <3>4. Authorized' = Authorized
      BY <3>3 DEF Authorized
    <3> QED
      BY <2>2, <2>3, <3>1, <3>2, <3>4 DEF RecordInv
  <2>5. CASE Restart
    <3>1. released' = {}
      BY <2>5 DEF Restart
    <3>2. AtTop("cleared")' = {}
      BY <1>0, <2>5, AtTopAfter
    <3> QED
      BY <2>3, <3>1, <3>2
  <2> QED
    BY <1>1, <2>4, <2>5
<1> QED
  BY <1>0, <1>1, RecordMoves, NextSteps

\* While no append has failed, every pass of the gate stands behind its
\* authorization on the log (hub.py:357-358).  With a failed append it need not:
\* the run hub_release_unrecorded shows the trace.
THEOREM RecordedCorrect == Spec => [](fails = 0 => AuthorizationRecorded)
<1>1. Init => RecordInv
  <2> SUFFICES ASSUME Init PROVE RecordInv
    OBVIOUS
  <2>1. DOMAIN log = {1} /\ log[1].kind = "hub.boot" /\ released = {} /\ stack = <<>>
    BY DEF Init
  <2> QED
    BY <2>1, InitInv DEF RecordInv, AuthorizationRecorded, AtTop, At
<1>2. RecordInv => (fails = 0 => AuthorizationRecorded)
  BY DEF RecordInv
<1> QED
  BY <1>1, <1>2, RecordNext, PTL DEF Spec

----------------------------------------------------------------------------
(* Where every envelope ends *)

\* The outcomes NothingVanishes asks for.
Settled ==
  {e \in Envelope :
     \/ \E kind \in {"ack", "hold.queued", "dead.letter"} : Now(kind, e) # {}
     \/ Now("selfcheck.failed", e) # {} /\ e \in queues[Clarification]}

Reviewed == {e \in Envelope : Now("selfcheck.failed", e) # {}}

\* The envelopes of calls that still have to bring them to an outcome.
Underway == {stack[k].env : k \in {j \in 1 .. Len(stack) : stack[j].pc \in After}}

\* The envelopes no outcome and no call answers for: a failed append or reviewer
\* loses the one it was about, and no other.
Lost == seen \ (Settled \cup Underway)

VanishInv ==
  /\ IInv
  /\ AtTop("flag") \subseteq Reviewed
  /\ IsFiniteSet(Lost) /\ Cardinality(Lost) <= fails

\* A smaller set has no more elements.
LEMMA LessOrEqual ==
  ASSUME NEW S, IsFiniteSet(S), NEW T \in SUBSET S, NEW m \in Nat, Cardinality(S) <= m
  PROVE  IsFiniteSet(T) /\ Cardinality(T) <= m
<1>1. IsFiniteSet(T) /\ Cardinality(T) <= Cardinality(S)
  BY FS_Subset
<1>2. Cardinality(T) \in Nat /\ Cardinality(S) \in Nat
  BY <1>1, FS_CardinalityType
<1> QED
  BY <1>1, <1>2

\* A move loses an envelope only by a failure.
LEMMA VanishMoves ==
  ASSUME VanishInv, IInv', NEW k, NEW q, Moves(k, q)
  PROVE  VanishInv'
<1>0. /\ TypeOK /\ Nesting /\ IInv /\ fails \in Nat /\ Top.env \in Envelope
      /\ "flag" \in Steps \ Callbacks /\ Clarification \in QueueName
      /\ {"ack", "hold.queued", "dead.letter", "selfcheck.failed"} \subseteq Kinds
  BY MovesTop DEF VanishInv, IInv, TypeOK, Kinds, Steps, Callbacks, Pages, QueueName
<1>1. /\ seen' = IF Top.pc = "persist" /\ q # "return" THEN seen \cup {Top.env} ELSE seen
      /\ \A x \in QueueName : queues[x] \subseteq queues'[x]
      /\ q = "flagged_page" => Top.env \in queues'[Clarification]
      /\ stack # <<>> /\ fails' \in {fails, fails + 1} /\ k \in Kinds \cup {"none"}
  BY DEF Moves, Does, Way
<1>3. AtTop("flag") \subseteq Reviewed /\ IsFiniteSet(Lost) /\ Cardinality(Lost) <= fails
  BY DEF VanishInv
<1>4. \A m \in Kinds : \A e : /\ Now(m, e) \subseteq Now(m, e)'
                              /\ k = m /\ e = Top.env => Now(m, e)' # {}
  <2> SUFFICES ASSUME NEW m \in Kinds, NEW e
               PROVE  /\ Now(m, e) \subseteq Now(m, e)'
                      /\ k = m /\ e = Top.env => Now(m, e)' # {}
    OBVIOUS
  <2>1. Now(m, e)' = IF k = m /\ e = Top.env THEN Now(m, e) \cup {Len(log) + 1} ELSE Now(m, e)
    BY <1>0, NowAfter
  <2> QED
    BY <2>1
<1>5. Settled \subseteq Settled' /\ Reviewed \subseteq Reviewed'
  BY <1>0, <1>1, <1>4 DEF Settled, Reviewed
<1>6. k \in {"ack", "hold.queued", "dead.letter"} => Top.env \in Settled'
  <2>1. \A e \in Envelope : e = Top.env /\ k \in {"ack", "hold.queued", "dead.letter"} => e \in Settled'
    BY <1>0, <1>4 DEF Settled
  <2> QED
    BY <1>0, <2>1
<1>7. k = "selfcheck.failed" => Top.env \in Reviewed'
  <2>1. \A e \in Envelope : e = Top.env /\ k = "selfcheck.failed" => e \in Reviewed'
    BY <1>0, <1>4 DEF Reviewed
  <2> QED
    BY <1>0, <2>1
<1>8. Top.pc = "flag" /\ q = "flagged_page" => Top.env \in Settled'
  <2>1. Top.pc = "flag" => Top.env \in Reviewed'
    BY <1>1, <1>3, <1>5 DEF AtTop, At
  <2>2. \A e \in Envelope : e \in Reviewed' /\ e \in queues'[Clarification] => e \in Settled'
    BY DEF Settled, Reviewed
  <2> QED
    BY <1>0, <1>1, <2>1, <2>2
<1>9. q \in After => Top.env \in Underway'
  <2>1. q # "return" => Len(stack) \in 1 .. Len(stack')
    BY <1>0, StackAfter
  <2>2. \A j \in 1 .. Len(stack') : j = Len(stack) =>
          \/ j \in 1 .. Len(stack) - 1
          \/ stack'[j].pc = q /\ stack'[j].env = Top.env
    BY <1>0, StackAfter
  <2>3. Len(stack) \in Nat /\ Len(stack) \notin 1 .. Len(stack) - 1
    <3>1. Len(stack) \in Nat \ {0}
      BY <1>0, StackAfter
    <3> QED
      BY <3>1
  <2>4. q # "return" => stack'[Len(stack)].pc = q /\ stack'[Len(stack)].env = Top.env
    BY <2>1, <2>2, <2>3
  <2> QED
    BY <2>1, <2>4 DEF Underway, After
<1>10. ASSUME NEW e \in Underway
       PROVE  e \in Settled' \cup Underway' \/ (e = Top.env /\ fails' = fails + 1)
  <2>1. PICK j \in 1 .. Len(stack) : stack[j].env = e /\ stack[j].pc \in After
    BY <1>10 DEF Underway
  <2>2. CASE j \in 1 .. Len(stack) - 1
    <3>1. j \in 1 .. Len(stack') /\ stack'[j] = stack[j]
      BY <1>0, <2>2, StackAfter
    <3> QED
      BY <2>1, <3>1 DEF Underway
  <2>3. CASE j = Len(stack)
    <3>1. Top.env = e /\ Top.pc \in After
      BY <1>0, <2>1, <2>3, MovesTop
    <3>2. \/ q \in After
          \/ k \in {"ack", "hold.queued", "dead.letter"}
          \/ Top.pc = "flag" /\ q = "flagged_page"
          \/ fails' = fails + 1
      BY <3>1, Ways
    <3> QED
      BY <1>6, <1>8, <1>9, <3>1, <3>2
  <2>4. j \in 1 .. Len(stack) - 1 \/ j = Len(stack)
    <3>1. Len(stack) \in Nat \ {0}
      BY <1>0, StackAfter
    <3> QED
      BY <3>1
  <2> QED
    BY <2>2, <2>3, <2>4
<1>11. Top.pc = "persist" /\ q # "return" => q \in After
  BY Ways
<1>12. /\ IsFiniteSet(Lost') /\ Cardinality(Lost') <= fails'
  <2>1. \A e \in Lost' : e \in Lost \/ (e = Top.env /\ fails' = fails + 1)
    BY <1>1, <1>5, <1>9, <1>10, <1>11 DEF Lost
  <2>2. CASE fails' = fails + 1
    <3>1. Lost' \subseteq Lost \cup {Top.env}
      BY <2>1
    <3>2. /\ IsFiniteSet(Lost \cup {Top.env})
          /\ Cardinality(Lost \cup {Top.env}) <= fails + 1
      <4>1. /\ IsFiniteSet(Lost \cup {Top.env})
            /\ Cardinality(Lost \cup {Top.env}) =
                 IF Top.env \in Lost THEN Cardinality(Lost) ELSE Cardinality(Lost) + 1
        BY <1>3, FS_AddElement
      <4>2. Cardinality(Lost) \in Nat
        BY <1>3, FS_CardinalityType
      <4> QED
        BY <1>0, <1>3, <4>1, <4>2
    <3>3. fails + 1 \in Nat
      BY <1>0
    <3>4. IsFiniteSet(Lost') /\ Cardinality(Lost') <= fails + 1
      BY <3>1, <3>2, <3>3, LessOrEqual
    <3> QED
      BY <2>2, <3>4
  <2>3. CASE fails' = fails
    <3>1. Lost' \subseteq Lost
      BY <1>0, <2>1, <2>3
    <3> QED
      BY <1>0, <1>3, <2>3, <3>1, LessOrEqual
  <2> QED
    BY <1>1, <2>2, <2>3
<1>13. AtTop("flag")' \subseteq Reviewed'
  <2>1. AtTop("flag")' = IF q = "flag" THEN {Top.env} ELSE {}
    BY <1>0, AtTopAfter
  <2>2. q = "flag" => k = "selfcheck.failed"
    BY Ways
  <2> QED
    BY <1>7, <2>1, <2>2
<1> QED
  BY <1>12, <1>13 DEF VanishInv

\* So does every step,
LEMMA VanishNext == VanishInv /\ [Next]_vars => VanishInv'
<1> SUFFICES ASSUME VanishInv, [Next]_vars PROVE VanishInv'
  OBVIOUS
<1>0. /\ IInv' /\ IInv /\ TypeOK /\ Nesting /\ fails \in Nat
      /\ "flag" \in Steps \ Callbacks /\ "flag" \notin Operations
      /\ {"ack", "hold.queued", "dead.letter", "selfcheck.failed"}
           \subseteq Kinds \ {"hub.boot", "signer.armed"}
  BY NextInv DEF VanishInv, IInv, TypeOK, Kinds, Steps, Callbacks, Pages, Operations
<1>1. CASE Pushes \/ Settles
  <2>1. fails' \in {fails, fails + 1} /\ UNCHANGED <<seen, queues>>
    BY <1>1 DEF Pushes, Settles, memory
  <2>2. AtTop("flag") \subseteq Reviewed /\ IsFiniteSet(Lost) /\ Cardinality(Lost) <= fails
    BY DEF VanishInv
  <2>3. \A m \in {"ack", "hold.queued", "dead.letter", "selfcheck.failed"} : \A e :
          Now(m, e)' = Now(m, e)
    BY <1>0, <1>1, NowElsewhere
  <2>4. Settled' = Settled /\ Reviewed' = Reviewed
    BY <2>1, <2>3 DEF Settled, Reviewed
  <2>5. AtTop("flag")' = AtTop("flag")
    BY <1>0, <1>1, AtTopAfter
  <2>6. Underway \subseteq Underway'
    <3>1. \A j \in 1 .. Len(stack) : j \in 1 .. Len(stack') /\ stack'[j] = stack[j]
      BY <1>0, <1>1, StackElsewhere
    <3> QED
      BY <3>1 DEF Underway
  <2>7. Lost' \subseteq Lost
    BY <2>1, <2>4, <2>6 DEF Lost
  <2>8. IsFiniteSet(Lost') /\ Cardinality(Lost') <= fails'
    <3>1. IsFiniteSet(Lost') /\ Cardinality(Lost') <= fails /\ Cardinality(Lost') \in Nat
      BY <1>0, <2>2, <2>7, LessOrEqual, FS_CardinalityType
    <3> QED
      BY <1>0, <2>1, <3>1
  <2> QED
    BY <1>0, <2>2, <2>4, <2>5, <2>8 DEF VanishInv
<1>2. CASE Restart
  <2>1. seen' = {} /\ fails' = fails
    BY <1>2 DEF Restart
  <2>2. AtTop("flag")' = {}
    BY <1>0, <1>2, AtTopAfter
  <2>3. Lost' = {} /\ IsFiniteSet({}) /\ Cardinality({}) = 0
    BY <2>1, FS_EmptySet DEF Lost
  <2> QED
    BY <1>0, <2>1, <2>2, <2>3 DEF VanishInv
<1> QED
  BY <1>0, <1>1, <1>2, VanishMoves, NextSteps

\* and nothing is lost at first.
LEMMA VanishInit == Init => VanishInv
<1> SUFFICES ASSUME Init PROVE VanishInv
  OBVIOUS
<1>1. seen = {} /\ stack = <<>> /\ fails = 0
  BY DEF Init
<1>2. Lost = {} /\ IsFiniteSet({}) /\ Cardinality({}) = 0
  BY <1>1, FS_EmptySet DEF Lost
<1> QED
  BY <1>1, <1>2, InitInv DEF VanishInv, AtTop, At

\* When no call runs, the lost are the seen without an outcome.
LEMMA IdleLost == VanishInv /\ stack = <<>> => Lost = seen \ Settled
<1>1. stack = <<>> => Underway = {}
  BY DEF Underway
<1> QED
  BY <1>1 DEF Lost

\* When the hub is idle, the envelopes it marked seen in this boot that came to
\* no outcome are at most as many as the appends and reviewers that failed.
THEOREM LostAreFailures ==
  Spec => [](stack = <<>> => Cardinality(seen \ Settled) <= fails)
<1>1. VanishInv => (stack = <<>> => Cardinality(seen \ Settled) <= fails)
  BY IdleLost DEF VanishInv
<1> QED
  BY <1>1, VanishInit, VanishNext, PTL DEF Spec

\* Failures never vanish (hub.py:12): while no append and no reviewer has
\* failed, an idle hub has an outcome for every envelope it marked seen.
THEOREM VanishCorrect == Spec => [](fails = 0 => NothingVanishes)
<1>1. VanishInv => (fails = 0 => NothingVanishes)
  <2> SUFFICES ASSUME VanishInv, fails = 0, stack = <<>> PROVE seen \subseteq Settled
    BY DEF NothingVanishes, Settled
  <2>1. IsFiniteSet(Lost) /\ Cardinality(Lost) = 0
    <3>1. IsFiniteSet(Lost) /\ Cardinality(Lost) \in Nat /\ Cardinality(Lost) <= 0
      BY FS_CardinalityType DEF VanishInv
    <3> QED
      BY <3>1
  <2> QED
    BY <2>1, IdleLost, FS_EmptySet
<1> QED
  BY <1>1, VanishInit, VanishNext, PTL DEF Spec

----------------------------------------------------------------------------
(* Loop protection *)

\* The entries of one kind about a pair (context, intent) in this boot, and the
\* persists of the pair since its last recorded resumption: LoopBound counts them.
OfPair(kind, k) ==
  {i \in DOMAIN log : /\ log[i].kind = kind /\ log[i].boot = boots
                      /\ log[i].env \in Envelope
                      /\ KeyOf(log[i].env) = k}

Since(k) == {i \in OfPair("envelope.persisted", k) : \A r \in OfPair("loop.resumed", k) : r < i}

\* The pairs of the top call, on its way to a persist and after a resumption.
Admitted == IF stack # <<>> /\ Top.pc \in Pre THEN {KeyOf(Top.env)} ELSE {}
Resumed  == IF stack # <<>> /\ Top.pc = "resumed" THEN {KeyOf(Top.env)} ELSE {}

\* The budget of a pair: the threshold, once more for each failed append, since
\* a resumption that is not recorded resets the count all the same.
Spare == LoopThreshold * fails

LoopOf(k) ==
  LET n == Cardinality(Since(k)) + Bit(k \in Admitted)
  IN  /\ n <= LoopThreshold + Spare
      /\ k \notin Resumed => n <= loopCount[k] + Spare

LoopInv ==
  /\ IInv
  /\ \A k \in LoopKey : LoopOf(k)

\* The persists since a resumption can be counted.
LEMMA SinceCard ==
  ASSUME TypeOK, NEW k
  PROVE  /\ IsFiniteSet(Since(k)) /\ Cardinality(Since(k)) \in Nat
         /\ \A i : i \notin Since(k) => Cardinality(Since(k) \cup {i}) = Cardinality(Since(k)) + 1
<1>1. Len(log) \in Nat /\ DOMAIN log = 1 .. Len(log)
  BY DEF TypeOK
<1>2. IsFiniteSet(1 .. Len(log)) /\ Since(k) \subseteq 1 .. Len(log)
  BY <1>1, FS_Interval DEF Since, OfPair
<1>3. IsFiniteSet(Since(k))
  BY <1>2, FS_Subset
<1> QED
  BY <1>3, FS_CardinalityType, FS_AddElement

\* How a move changes what Since counts.
LEMMA SinceAfter ==
  ASSUME TypeOK, NEW kind, NEW q, Moves(kind, q), NEW k
  PROVE  /\ Len(log) + 1 \notin Since(k)
         /\ Since(k)' =
              IF kind = "envelope.persisted" /\ KeyOf(Top.env) = k THEN Since(k) \cup {Len(log) + 1}
              ELSE IF kind = "loop.resumed" /\ KeyOf(Top.env) = k THEN {}
              ELSE Since(k)
<1>0. /\ Len(log) \in Nat /\ DOMAIN log = 1 .. Len(log) /\ boots' = boots
      /\ kind = "none" => log' = log
      /\ kind # "none" =>
           /\ DOMAIN log' = 1 .. Len(log) + 1
           /\ \A j \in DOMAIN log : log'[j] = log[j]
           /\ log'[Len(log) + 1].kind = kind /\ log'[Len(log) + 1].env = Top.env
           /\ log'[Len(log) + 1].boot = boots
  <2>1. /\ Len(log) \in Nat /\ DOMAIN log = 1 .. Len(log)
        /\ kind = "none" => log' = log
        /\ kind # "none" =>
             /\ DOMAIN log' = 1 .. Len(log) + 1
             /\ \A j \in DOMAIN log : log'[j] = log[j]
             /\ log'[Len(log) + 1] = [kind |-> kind, env |-> Top.env,
                                      seq |-> NumberFor(kind), boot |-> boots]
    BY LogAfter, Zenon
  <2> QED
    BY <2>1 DEF Moves
<1>1. Top.env \in Envelope
  BY MovesTop
<1>2. \A m : m \in {"envelope.persisted", "loop.resumed"} =>
        OfPair(m, k)' = IF kind = m /\ KeyOf(Top.env) = k THEN OfPair(m, k) \cup {Len(log) + 1}
                        ELSE OfPair(m, k)
  <2>1. CASE kind = "none"
    BY <1>0, <2>1 DEF OfPair
  <2>2. CASE kind # "none"
    BY <1>0, <1>1, <2>2 DEF OfPair
  <2> QED
    BY <2>1, <2>2
<1>3. \A m : \A i \in OfPair(m, k) : i \in Nat /\ i < Len(log) + 1
  BY <1>0 DEF OfPair
<1>4. Since(k)' = {i \in OfPair("envelope.persisted", k)' :
                     \A r \in OfPair("loop.resumed", k)' : r < i}
  BY DEF Since
<1>5. CASE kind = "envelope.persisted" /\ KeyOf(Top.env) = k
  <2>1. /\ OfPair("envelope.persisted", k)' = OfPair("envelope.persisted", k) \cup {Len(log) + 1}
        /\ OfPair("loop.resumed", k)' = OfPair("loop.resumed", k)
    BY <1>2, <1>5
  <2> QED
    BY <1>3, <1>4, <1>5, <2>1 DEF Since
<1>6. CASE kind = "loop.resumed" /\ KeyOf(Top.env) = k
  <2>1. /\ OfPair("envelope.persisted", k)' = OfPair("envelope.persisted", k)
        /\ Len(log) + 1 \in OfPair("loop.resumed", k)'
    BY <1>2, <1>6
  <2>2. \A i \in OfPair("envelope.persisted", k) : ~(Len(log) + 1 < i)
    BY <1>0, <1>3
  <2>3. Since(k)' = {}
    BY <1>4, <2>1, <2>2
  <2>4. Len(log) + 1 \notin Since(k)
    BY <1>0, <1>3 DEF Since
  <2> QED
    BY <1>6, <2>3, <2>4
<1>7. CASE ~(kind \in {"envelope.persisted", "loop.resumed"} /\ KeyOf(Top.env) = k)
  <2>1. /\ OfPair("envelope.persisted", k)' = OfPair("envelope.persisted", k)
        /\ OfPair("loop.resumed", k)' = OfPair("loop.resumed", k)
    BY <1>2, <1>7
  <2>2. Len(log) + 1 \notin Since(k)
    BY <1>0, <1>3 DEF Since
  <2> QED
    BY <1>4, <1>7, <2>1, <2>2 DEF Since
<1> QED
  BY <1>5, <1>6, <1>7

\* Pushing and settling add none, and a restart forgets them.
LEMMA SinceElsewhere ==
  ASSUME IInv, NEW k
  PROVE  /\ Pushes \/ Settles => Since(k)' = Since(k)
         /\ Restart => Since(k)' = {}
<1>1. \A m, i : i \in OfPair(m, k) <=> \E e \in Envelope : KeyOf(e) = k /\ i \in Now(m, e)
  BY DEF OfPair, Now
<1>2. \A m, i : i \in OfPair(m, k)' <=> \E e \in Envelope : KeyOf(e) = k /\ i \in Now(m, e)'
  BY DEF OfPair, Now
<1>3. {"envelope.persisted", "loop.resumed"} \subseteq Kinds \ {"hub.boot", "signer.armed"}
  BY DEF Kinds
<1>4. ASSUME Pushes \/ Settles PROVE Since(k)' = Since(k)
  <2>1. \A m \in {"envelope.persisted", "loop.resumed"} : \A e : Now(m, e)' = Now(m, e)
    BY <1>3, <1>4, NowElsewhere
  <2>2. \A m \in {"envelope.persisted", "loop.resumed"} : OfPair(m, k)' = OfPair(m, k)
    <3>1. \A m \in {"envelope.persisted", "loop.resumed"} :
            \A i : i \in OfPair(m, k)' <=> i \in OfPair(m, k)
      BY <1>1, <1>2, <2>1
    <3> QED
      BY <3>1
  <2> QED
    BY <2>2 DEF Since
<1>5. ASSUME Restart PROVE Since(k)' = {}
  <2>1. \A e : Now("envelope.persisted", e)' = {}
    BY <1>3, <1>5, NowElsewhere
  <2>2. OfPair("envelope.persisted", k)' = {}
    BY <1>2, <2>1
  <2> QED
    BY <2>2 DEF Since
<1> QED
  BY <1>4, <1>5

\* One more failed append is worth one more threshold.
LEMMA SpareGrows ==
  ASSUME fails \in Nat, fails' \in {fails, fails + 1}
  PROVE  /\ Spare \in Nat /\ Spare' \in {Spare, Spare + LoopThreshold}
         /\ fails' = fails + 1 => Spare' = Spare + LoopThreshold
<1>1. \A t, f \in Nat : t * f \in Nat /\ t * (f + 1) = t * f + t
  OBVIOUS
<1>2. /\ LoopThreshold * fails \in Nat
      /\ LoopThreshold * (fails + 1) = LoopThreshold * fails + LoopThreshold
  BY <1>1, BoundsAssumption
<1>3. CASE fails' = fails
  <2>1. Spare' = Spare
    BY <1>3 DEF Spare
  <2> QED
    BY <1>2, <1>3, <2>1 DEF Spare
<1>4. CASE fails' = fails + 1
  <2>1. Spare' = LoopThreshold * (fails + 1)
    BY <1>4 DEF Spare
  <2> QED
    BY <1>2, <2>1, Zenon DEF Spare
<1> QED
  BY <1>3, <1>4

\* A move keeps the budget of a pair: a persist is paid for by the call admitted,
\* a resumption empties the count, and a failed resumption adds to the spare.
LEMMA LoopMoves ==
  ASSUME LoopInv, IInv', NEW kind, NEW q, Moves(kind, q), NEW k \in LoopKey
  PROVE  LoopOf(k)'
<1> DEFINE n == Cardinality(Since(k))
           m == Cardinality(Since(k)')
           c == loopCount[k]
           d == loopCount'[k]
           key == KeyOf(Top.env)
<1>0. /\ TypeOK /\ Nesting /\ IInv /\ fails \in Nat /\ LoopThreshold \in Nat /\ key \in LoopKey
      /\ n \in Nat /\ c \in Nat /\ loopCount \in [LoopKey -> Nat] /\ d \in Nat
  BY MovesTop, SinceCard, KeyOfType, BoundsAssumption DEF LoopInv, IInv, TypeOK
<1>1. /\ loopCount' = (IF Top.pc = "send" /\ q \in {"schema", "loop_page"}
                       THEN [loopCount EXCEPT ![key] = @ + 1]
                       ELSE IF Top.pc = "resume" THEN [loopCount EXCEPT ![key] = 0] ELSE loopCount)
      /\ q = "schema" => loopCount[key] + 1 <= LoopThreshold
      /\ stack # <<>> /\ fails' \in {fails, fails + 1}
  BY DEF Moves, Does, Asked, Way
<1>2. /\ Spare \in Nat /\ Spare' \in {Spare, Spare + LoopThreshold}
      /\ fails' = fails + 1 => Spare' = Spare + LoopThreshold
  BY <1>0, <1>1, SpareGrows
<1>3. /\ Admitted = IF Top.pc \in Pre THEN {key} ELSE {}
      /\ Resumed = IF Top.pc = "resumed" THEN {key} ELSE {}
  BY <1>1 DEF Admitted, Resumed
<1>4. /\ Admitted' = IF q \in Pre THEN {key} ELSE {}
      /\ Resumed' = IF q = "resumed" THEN {key} ELSE {}
  <2>1. IF q = "return" THEN stack' # <<>> => Top'.pc \in Callbacks
        ELSE stack' # <<>> /\ Top'.pc = q /\ Top'.env = Top.env
    BY <1>0, StackAfter
  <2>2. CASE q = "return"
    BY <2>1, <2>2 DEF Admitted, Resumed, Callbacks, Pages, Pre
  <2>3. CASE q # "return"
    <3>1. KeyOf(Top'.env) = key
      BY <2>1, <2>3 DEF KeyOf
    <3> QED
      BY <2>1, <2>3, <3>1 DEF Admitted, Resumed, KeyOf
  <2> QED
    BY <2>2, <2>3
<1>5. /\ kind = "envelope.persisted" => Top.pc = "persist" /\ q \notin Pre
      /\ kind = "loop.resumed" => Top.pc = "resumed"
      /\ q \in Pre => Top.pc \in Pre \/ (Top.pc = "send" /\ q = "schema")
      /\ Top.pc = "resumed" => kind = "loop.resumed" \/ fails' = fails + 1
      /\ Top.pc = "resume" => q = "resumed" \/ fails' = fails + 1
  BY Ways
<1>6. m = IF kind = "envelope.persisted" /\ key = k THEN n + 1
          ELSE IF kind = "loop.resumed" /\ key = k THEN 0 ELSE n
  BY <1>0, SinceAfter, SinceCard, FS_EmptySet
<1>7. /\ n + Bit(k \in Admitted) <= LoopThreshold + Spare
      /\ k \notin Resumed => n + Bit(k \in Admitted) <= c + Spare
  BY DEF LoopInv, LoopOf
<1>8. SUFFICES /\ m + Bit(k \in Admitted') <= LoopThreshold + Spare'
               /\ k \notin Resumed' => m + Bit(k \in Admitted') <= d + Spare'
  BY DEF LoopOf, Bit
<1> DEFINE a == Bit(k \in Admitted)
           b == Bit(k \in Admitted')
           s == Spare
           z == Spare'
           t == LoopThreshold
<1>9. /\ n \in Nat /\ c \in Nat /\ d \in Nat /\ s \in Nat /\ t \in Nat
      /\ z \in {s, s + t} /\ (fails' = fails + 1 => z = s + t)
      /\ n + a <= t + s /\ (k \notin Resumed => n + a <= c + s)
      /\ a = (IF k \in Admitted THEN 1 ELSE 0) /\ b = (IF k \in Admitted' THEN 1 ELSE 0)
  BY <1>0, <1>2, <1>7 DEF Bit
<1>10. SUFFICES m + b <= t + z /\ (k \notin Resumed' => m + b <= d + z)
  OBVIOUS
<1> HIDE DEF n, m, c, d, key, a, b, s, z, t
<1>11. CASE key # k
  <2>1. m = n /\ k \notin Admitted /\ k \notin Admitted' /\ k \notin Resumed /\ d = c
    BY <1>0, <1>1, <1>3, <1>4, <1>6, <1>11 DEF c, d
  <2>2. a = 0 /\ b = 0 /\ n + 0 <= c + s
    BY <1>9, <2>1
  <2> QED
    BY <1>9, <2>1, <2>2
<1>12. CASE key = k /\ kind = "envelope.persisted"
  <2>1. /\ m = n + 1 /\ k \in Admitted /\ k \notin Admitted' /\ k \notin Resumed /\ d = c
    BY <1>1, <1>3, <1>4, <1>5, <1>6, <1>12 DEF Pre, c, d
  <2>2. a = 1 /\ b = 0 /\ n + 1 <= c + s /\ n + 1 <= t + s
    BY <1>9, <2>1
  <2> QED
    BY <1>9, <2>1, <2>2
<1>13. CASE key = k /\ kind = "loop.resumed"
  <2>1. m = 0 /\ k \notin Admitted'
    BY <1>4, <1>5, <1>6, <1>13 DEF Pre
  <2>2. b = 0
    BY <1>9, <2>1
  <2> QED
    BY <1>9, <2>1, <2>2
<1>14. CASE key = k /\ kind \notin {"envelope.persisted", "loop.resumed"}
  <2>0. m = n
    BY <1>6, <1>14
  <2>1. CASE Top.pc = "send" /\ q = "schema"
    <3>1. k \notin Admitted /\ k \notin Resumed /\ d = c + 1 /\ c + 1 <= t
      BY <1>0, <1>1, <1>3, <1>14, <2>1 DEF Pre, c, d, t, key
    <3>2. a = 0 /\ b \in {0, 1} /\ n + 0 <= c + s
      BY <1>9, <3>1
    <3> QED
      BY <1>9, <2>0, <3>1, <3>2
  <2>2. CASE q \in Pre /\ Top.pc \in Pre
    <3>1. k \in Admitted /\ k \in Admitted' /\ k \notin Resumed /\ d = c
      BY <1>1, <1>3, <1>4, <1>14, <2>2 DEF Pre, c, d
    <3>2. a = 1 /\ b = 1 /\ n + 1 <= c + s /\ n + 1 <= t + s
      BY <1>9, <3>1
    <3> QED
      BY <1>9, <2>0, <3>1, <3>2
  <2>3. CASE q \notin Pre /\ Top.pc \in {"resume", "resumed"}
    <3>1. k \notin Admitted' /\ (k \in Resumed' \/ fails' = fails + 1)
      BY <1>4, <1>5, <1>14, <2>3
    <3>2. b = 0 /\ a \in {0, 1}
      BY <1>9, <3>1
    <3>3. n <= t + s
      BY <1>9, <3>2
    <3> QED
      BY <1>9, <2>0, <3>1, <3>2, <3>3
  <2>4. CASE q \notin Pre /\ Top.pc \notin {"resume", "resumed"}
    <3>1. k \notin Admitted' /\ k \notin Resumed /\ d \in {c, c + 1}
      BY <1>0, <1>1, <1>3, <1>4, <1>14, <2>4 DEF c, d, key
    <3>2. b = 0 /\ a \in {0, 1} /\ n + a <= c + s
      BY <1>9, <3>1
    <3>3. n <= c + s /\ n <= t + s
      BY <1>9, <3>2
    <3> QED
      BY <1>9, <2>0, <3>1, <3>2, <3>3
  <2> QED
    BY <1>5, <2>1, <2>2, <2>3, <2>4
<1> QED
  BY <1>11, <1>12, <1>13, <1>14

\* Every step keeps the count of a pair,
LEMMA LoopNext == LoopInv /\ [Next]_vars => LoopInv'
<1> SUFFICES ASSUME LoopInv, [Next]_vars PROVE LoopInv'
  OBVIOUS
<1>0. /\ IInv' /\ IInv /\ TypeOK /\ Nesting /\ fails \in Nat /\ LoopThreshold \in Nat
  BY NextInv, BoundsAssumption DEF LoopInv, IInv, TypeOK
<1>1. CASE Pushes \/ Settles
  <2> SUFFICES ASSUME NEW k \in LoopKey PROVE LoopOf(k)'
    BY <1>0 DEF LoopInv
  <2>1. loopCount' = loopCount /\ fails' \in {fails, fails + 1}
    BY <1>1 DEF Pushes, Settles, memory
  <2>2. Since(k)' = Since(k)
    BY <1>0, <1>1, SinceElsewhere
  <2>3. /\ k \in Admitted' => k \in Admitted
        /\ k \in Resumed => k \in Resumed'
    <3>1. CASE Settles
      BY <3>1 DEF Settles, Admitted, Resumed, Top, KeyOf
    <3>2. CASE Pushes
      <4>1. Top'.pc \in Operations
        BY <1>0, <3>2, StackElsewhere
      <4>2. stack # <<>> => Top.pc \in Callbacks
        BY <3>2 DEF Pushes
      <4> QED
        BY <4>1, <4>2 DEF Admitted, Resumed, Operations, Callbacks, Pages, Pre
    <3> QED
      BY <1>1, <3>1, <3>2
  <2>4. LoopOf(k) /\ Cardinality(Since(k)) \in Nat /\ loopCount[k] \in Nat
    BY <1>0, SinceCard DEF LoopInv, TypeOK
  <2>5. Spare \in Nat /\ Spare' \in {Spare, Spare + LoopThreshold}
    BY <1>0, <2>1, SpareGrows
  <2>6. SUFFICES /\ Cardinality(Since(k)) + Bit(k \in Admitted') <= LoopThreshold + Spare'
                 /\ k \notin Resumed' => Cardinality(Since(k)) + Bit(k \in Admitted') <= loopCount[k] + Spare'
    BY <2>1, <2>2 DEF LoopOf, Bit
  <2> DEFINE n == Cardinality(Since(k))
             a == Bit(k \in Admitted)
             b == Bit(k \in Admitted')
             s == Spare
             z == Spare'
             c == loopCount[k]
             t == LoopThreshold
  <2>7. /\ n \in Nat /\ c \in Nat /\ s \in Nat /\ t \in Nat /\ z \in {s, s + t}
        /\ n + a <= t + s /\ (k \notin Resumed => n + a <= c + s)
        /\ a \in {0, 1} /\ b \in {0, 1} /\ b <= a
    BY <1>0, <2>3, <2>4, <2>5 DEF LoopOf, Bit
  <2>8. SUFFICES n + b <= t + z /\ (k \notin Resumed' => n + b <= c + z)
    OBVIOUS
  <2> HIDE DEF n, a, b, s, z, c, t
  <2>9. n + b <= t + z
    BY <2>7
  <2>10. ASSUME k \notin Resumed PROVE n + b <= c + z
    BY <2>7, <2>10
  <2> QED
    BY <2>3, <2>9, <2>10
<1>2. CASE Restart
  <2> SUFFICES ASSUME NEW k \in LoopKey PROVE LoopOf(k)'
    BY <1>0 DEF LoopInv
  <2>1. Cardinality(Since(k)') = 0
    BY <1>0, <1>2, SinceElsewhere, FS_EmptySet
  <2>2. loopCount'[k] = 0 /\ Admitted' = {} /\ fails' = fails
    BY <1>2 DEF Restart, Admitted
  <2>3. Spare' \in Nat
    BY <1>0, <2>2, SpareGrows
  <2>4. Bit(k \in Admitted') = 0
    BY <2>2 DEF Bit
  <2> QED
    BY <1>0, <2>1, <2>2, <2>3, <2>4 DEF LoopOf
<1> QED
  BY <1>0, <1>1, <1>2, LoopMoves, NextSteps DEF LoopInv

\* and it is zero at first.
LEMMA LoopInit == Init => LoopInv
<1> SUFFICES ASSUME Init PROVE LoopInv
  OBVIOUS
<1>1. /\ DOMAIN log = {1} /\ log[1].kind = "hub.boot" /\ stack = <<>> /\ fails = 0
      /\ LoopThreshold \in Nat
  BY BoundsAssumption DEF Init
<1> SUFFICES ASSUME NEW k \in LoopKey PROVE LoopOf(k)
  BY InitInv DEF LoopInv
<1>2. Since(k) = {}
  BY <1>1 DEF Since, OfPair
<1>3. Cardinality(Since(k)) = 0
  BY <1>2, FS_EmptySet
<1>4. Spare = 0 /\ Admitted = {} /\ loopCount[k] = 0
  BY <1>1 DEF Spare, Admitted, Init
<1> QED
  BY <1>1, <1>3, <1>4 DEF LoopOf, Bit

\* Between two recorded resumptions, and within a boot, no more envelopes of a
\* (context, intent) pair are persisted than the threshold, once more for each
\* append that failed.
THEOREM LoopBudget ==
  Spec => [](\A k \in LoopKey : Cardinality(Since(k)) <= LoopThreshold * (fails + 1))
<1>1. LoopInv => \A k \in LoopKey : Cardinality(Since(k)) <= LoopThreshold * (fails + 1)
  <2> SUFFICES ASSUME LoopInv, NEW k \in LoopKey
               PROVE  Cardinality(Since(k)) <= LoopThreshold * (fails + 1)
    OBVIOUS
  <2>1. /\ Cardinality(Since(k)) \in Nat /\ fails \in Nat /\ LoopThreshold \in Nat
        /\ LoopOf(k)
    BY SinceCard, BoundsAssumption DEF LoopInv, IInv, TypeOK
  <2>2. Cardinality(Since(k)) <= LoopThreshold + LoopThreshold * fails
    <3>1. Spare \in Nat
      BY <2>1, \A t, f \in Nat : t * f \in Nat DEF Spare
    <3>2. Cardinality(Since(k)) <= LoopThreshold + Spare
      BY <2>1, <3>1 DEF LoopOf, Bit
    <3> QED
      BY <3>2 DEF Spare
  <2>3. LoopThreshold * (fails + 1) = LoopThreshold + LoopThreshold * fails
    BY <2>1
  <2> QED
    BY <2>2, <2>3
<1> QED
  BY <1>1, LoopInit, LoopNext, PTL DEF Spec

\* Loop protection (hub.py:508-510): while no append has failed, at most
\* loop_threshold envelopes of a pair are persisted between two resumptions.
THEOREM LoopCorrect == Spec => [](fails = 0 => LoopBound)
<1>1. (\A k \in LoopKey : Cardinality(Since(k)) <= LoopThreshold * (fails + 1))
        => (fails = 0 => LoopBound)
  <2> SUFFICES ASSUME \A k \in LoopKey : Cardinality(Since(k)) <= LoopThreshold * (fails + 1),
                      fails = 0, NEW k \in LoopKey
               PROVE  Cardinality(Since(k)) <= LoopThreshold
    BY DEF LoopBound, Since, OfPair
  <2> QED
    BY BoundsAssumption
<1> QED
  BY <1>1, LoopBudget, PTL

----------------------------------------------------------------------------
(* Sequence numbers *)

\* The entries that persist an envelope, with the context each belongs to.
Persisted == {i \in DOMAIN log : log[i].kind = "envelope.persisted"}
CtxOf(i) == Msg[log[i].env].ctx

\* The persists of its context that stand before an entry in its boot.
InBoot(i) ==
  {j \in Persisted : j < i /\ log[j].boot = log[i].boot /\ CtxOf(j) = CtxOf(i)}

\* First clause of GaplessSequence, about one entry.
Steady(i) ==
  /\ \A j \in InBoot(i) : log[j].seq <= log[i].seq
  /\ log[i].seq = 1 \/ \E j \in InBoot(i) : log[j].seq + 1 = log[i].seq

\* The entries that repeat a number, and those of this boot whose number the hub
\* has not committed, since their append raised with the entry written.  The
\* first of these in a context is the one the next number will repeat.
Repeats == {i \in Persisted : \E j \in InBoot(i) : log[j].seq = log[i].seq}
Ahead   == {i \in Persisted : log[i].boot = boots /\ log[i].seq = seq[CtxOf(i)] + 1}
Open    == Ahead \ Repeats

GapInv ==
  /\ IInv
  /\ \A i \in Persisted : log[i].env \in Envelope /\ Steady(i)
  /\ \A i \in Persisted : log[i].boot = boots => log[i].seq <= seq[CtxOf(i)] + 1
  /\ \A c \in Ctx : seq[c] > 0 =>
       \E i \in Persisted : log[i].boot = boots /\ CtxOf(i) = c /\ log[i].seq = seq[c]
  /\ \A i \in Ahead : \E o \in Open : CtxOf(o) = CtxOf(i)
  /\ IsFiniteSet(Repeats \cup Open) /\ Cardinality(Repeats \cup Open) <= fails

\* An entry once written keeps its place among the persists.
LEMMA PersistsStand ==
  ASSUME TypeOK, [Next]_vars
  PROVE  /\ \A i \in DOMAIN log : /\ log'[i] = log[i] /\ InBoot(i)' = InBoot(i)
                                  /\ i \in Persisted' <=> i \in Persisted
                                  /\ i \in Repeats' <=> i \in Repeats
                                  /\ i \in Persisted => CtxOf(i)' = CtxOf(i) /\ Steady(i)' = Steady(i)
         /\ \A i \in DOMAIN log : i \in Nat /\ log[i].seq \in Nat /\ log[i].boot \in Nat
         /\ DOMAIN log \subseteq DOMAIN log'
<1>0. /\ Len(log) \in Nat /\ DOMAIN log = 1 .. Len(log) /\ DOMAIN log' = 1 .. Len(log')
      /\ Len(log') \in {Len(log), Len(log) + 1}
      /\ \A i \in DOMAIN log : log'[i] = log[i]
  BY LogStep
<1>1. DOMAIN log \subseteq DOMAIN log' /\ \A i \in DOMAIN log : i \in Nat
  <2>1. \A m \in Nat : 1 .. m \subseteq 1 .. m + 1 /\ \A i \in 1 .. m : i \in Nat
    OBVIOUS
  <2> QED
    BY <1>0, <2>1
<1>2. \A i \in DOMAIN log : \A j \in DOMAIN log' : j < i => j \in DOMAIN log
  <2>1. \A m \in Nat : \A i \in 1 .. m : \A j \in 1 .. m + 1 : j < i => j \in 1 .. m
    OBVIOUS
  <2> QED
    BY <1>0, <2>1
<1>3. \A i \in DOMAIN log : i \in Persisted' <=> i \in Persisted
  BY <1>0, <1>1 DEF Persisted
<1>4. ASSUME NEW i \in DOMAIN log PROVE InBoot(i)' = InBoot(i)
  <2>1. \A j : j \in InBoot(i)' <=> j \in InBoot(i)
    BY <1>0, <1>1, <1>2, <1>3 DEF InBoot, Persisted, CtxOf
  <2> QED
    BY <2>1
<1>5. \A i : InBoot(i) \subseteq DOMAIN log
  BY DEF InBoot, Persisted
<1>6. \A i \in DOMAIN log : /\ i \in Repeats' <=> i \in Repeats
                            /\ CtxOf(i)' = CtxOf(i) /\ Steady(i)' = Steady(i)
  BY <1>0, <1>3, <1>4, <1>5 DEF Repeats, CtxOf, Steady
<1>7. \A i \in DOMAIN log : log[i].seq \in Nat /\ log[i].boot \in Nat
  <2>1. \A i \in DOMAIN log : log[i] \in LogEntry
    BY DEF TypeOK
  <2> QED
    BY <2>1 DEF LogEntry
<1> QED
  BY <1>0, <1>1, <1>3, <1>4, <1>6, <1>7

\* The invariant lives on when no envelope is persisted and no number is given.
LEMMA GapStands ==
  ASSUME GapInv, IInv', [Next]_vars, Persisted' = Persisted, UNCHANGED <<seq, boots>>,
         fails' \in {fails, fails + 1}
  PROVE  GapInv'
<1>0. /\ TypeOK /\ fails \in Nat
      /\ \A i \in Persisted : /\ log'[i] = log[i] /\ CtxOf(i)' = CtxOf(i)
                              /\ Steady(i)' = Steady(i) /\ (i \in Repeats' <=> i \in Repeats)
  <2>1. TypeOK /\ fails \in Nat /\ Persisted \subseteq DOMAIN log
    BY DEF GapInv, IInv, TypeOK, Persisted
  <2> QED
    BY <2>1, PersistsStand
<1>1. Repeats' = Repeats
  <2>1. Repeats \subseteq Persisted /\ Repeats' \subseteq Persisted'
    BY DEF Repeats
  <2> QED
    BY <1>0, <2>1
<1>2. Ahead' = Ahead
  <2>1. \A i : i \in Ahead' <=> i \in Ahead
    BY <1>0 DEF Ahead
  <2> QED
    BY <2>1
<1>3. Open' = Open /\ Open \subseteq Persisted /\ Ahead \subseteq Persisted
  BY <1>1, <1>2 DEF Open, Ahead
<1>4. Cardinality(Repeats \cup Open) <= fails'
  <2>1. Cardinality(Repeats \cup Open) \in Nat
    BY FS_CardinalityType DEF GapInv
  <2> QED
    BY <1>0, <2>1 DEF GapInv
<1>5. \A i \in Persisted : log[i].env \in Envelope /\ Steady(i)
  BY DEF GapInv
<1>6. \A i \in Persisted : log[i].boot = boots => log[i].seq <= seq[CtxOf(i)] + 1
  BY DEF GapInv
<1>7. \A i \in Persisted' : log'[i].boot = boots' => log'[i].seq <= seq'[CtxOf(i)'] + 1
  BY <1>0, <1>6
<1>8. \A c \in Ctx : seq'[c] > 0 =>
        \E i \in Persisted' : log'[i].boot = boots' /\ CtxOf(i)' = c /\ log'[i].seq = seq'[c]
  <2>1. \A c \in Ctx : seq[c] > 0 =>
          \E i \in Persisted : log[i].boot = boots /\ CtxOf(i) = c /\ log[i].seq = seq[c]
    BY DEF GapInv
  <2> QED
    BY <1>0, <2>1
<1>9. \A i \in Ahead' : \E o \in Open' : CtxOf(o)' = CtxOf(i)'
  <2>1. \A i \in Ahead : \E o \in Open : CtxOf(o) = CtxOf(i)
    BY DEF GapInv
  <2> QED
    BY <1>0, <1>2, <1>3, <2>1
<1>10. \A i \in Persisted' : log'[i].env \in Envelope /\ Steady(i)'
  BY <1>0, <1>5
<1>11. IsFiniteSet(Repeats' \cup Open')
  BY <1>1, <1>3 DEF GapInv
<1> QED
  BY <1>1, <1>3, <1>4, <1>7, <1>8, <1>9, <1>10, <1>11 DEF GapInv

\* A number is given by the persist that succeeds, and by no other step.
LEMMA PersistWays ==
  ASSUME TypeOK, NEW kind, NEW q, Moves(kind, q)
  PROVE  /\ kind = "envelope.persisted" =>
              /\ Top.pc = "persist"
              /\ (q # "return" /\ fails' = fails) \/ (q = "return" /\ fails' = fails + 1)
         /\ kind # "envelope.persisted" /\ Top.pc = "persist" => q = "return"
         /\ fails' \in {fails, fails + 1}
BY ConfigAssumption DEF Moves, Way, Edge, Edges, PageEdges, Steps

\* The persists of this boot in one context, and the entry a persist adds to them.
InContext(c) == {j \in Persisted : log[j].boot = boots /\ CtxOf(j) = c}

\* What a persisted line adds to those of its context.
LEMMA NewPersist ==
  ASSUME GapInv, [Next]_vars, NEW q, Moves("envelope.persisted", q),
         NEW n, n = Len(log) + 1, NEW c, c = Msg[Top.env].ctx
  PROVE  /\ n \notin DOMAIN log /\ Persisted' = Persisted \cup {n}
         /\ log'[n].env = Top.env /\ log'[n].boot = boots /\ log'[n].seq = seq[c] + 1
         /\ CtxOf(n)' = c
         /\ InBoot(n)' = InContext(c)
         /\ \A j \in InContext(c) : log'[j] = log[j]
<1>0. TypeOK
  BY DEF GapInv, IInv
<1>1. /\ Len(log) \in Nat /\ DOMAIN log = 1 .. Len(log)
      /\ DOMAIN log' = 1 .. n
      /\ \A i \in DOMAIN log : log'[i] = log[i]
      /\ log'[n] = [kind |-> "envelope.persisted", env |-> Top.env,
                    seq |-> NumberFor("envelope.persisted"), boot |-> boots]
  BY <1>0, LogAfter
<1>2. /\ n \notin DOMAIN log /\ n \in DOMAIN log'
      /\ \A i \in DOMAIN log' : i = n \/ i \in DOMAIN log
      /\ \A i \in DOMAIN log : i < n /\ i \in DOMAIN log'
  BY <1>1
<1>3. log'[n].kind = "envelope.persisted" /\ log'[n].env = Top.env /\ log'[n].boot = boots
  BY <1>1
<1>4. log'[n].seq = seq[c] + 1
  BY <1>1 DEF NumberFor
<1>5. Persisted' = Persisted \cup {n}
  <2>1. \A i : i \in Persisted' <=> i \in Persisted \cup {n}
    BY <1>1, <1>2, <1>3 DEF Persisted
  <2> QED
    BY <2>1
<1>6. CtxOf(n)' = c
  BY <1>3 DEF CtxOf
<1>7. \A j \in Persisted : j < n /\ j # n /\ log'[j] = log[j] /\ CtxOf(j)' = CtxOf(j)
  BY <1>1, <1>2 DEF Persisted, CtxOf
<1>8. InBoot(n)' = InContext(c)
  <2>1. ~(n < n)
    BY <1>1
  <2>2. \A j : j \in InBoot(n)' <=> j \in InContext(c)
    BY <1>3, <1>5, <1>6, <1>7, <2>1 DEF InBoot, InContext
  <2> QED
    BY <2>2
<1> QED
  BY <1>2, <1>3, <1>4, <1>5, <1>6, <1>7, <1>8 DEF InContext

\* A persist, its append whole or raised after the entry was written.
LEMMA GapPersists ==
  ASSUME GapInv, IInv', [Next]_vars, NEW q, Moves("envelope.persisted", q)
  PROVE  GapInv'
<1>0. PICK n, c, s : n = Len(log) + 1 /\ c = Msg[Top.env].ctx /\ s = seq[c]
  OBVIOUS
<1>1. /\ TypeOK /\ Top.env \in Envelope /\ c \in Ctx /\ s \in Nat /\ seq \in [Ctx -> Nat]
      /\ fails \in Nat /\ boots' = boots
  BY <1>0, MovesTop DEF GapInv, IInv, TypeOK, Ctx, Moves
<1>2. /\ n \notin DOMAIN log /\ Persisted' = Persisted \cup {n}
      /\ log'[n].env = Top.env /\ log'[n].boot = boots /\ log'[n].seq = s + 1
      /\ CtxOf(n)' = c /\ InBoot(n)' = InContext(c)
      /\ \A j \in InContext(c) : log'[j] = log[j]
  BY <1>0, NewPersist
<1>3. /\ Persisted \subseteq DOMAIN log
      /\ \A i \in Persisted : /\ log'[i] = log[i] /\ CtxOf(i)' = CtxOf(i)
                              /\ Steady(i)' = Steady(i) /\ (i \in Repeats' <=> i \in Repeats)
                              /\ log[i].seq \in Nat /\ i # n /\ CtxOf(i) \in Ctx
  <2>1. Persisted \subseteq DOMAIN log /\ \A i \in Persisted : CtxOf(i) \in Ctx
    BY DEF Persisted, GapInv, CtxOf, Ctx
  <2> QED
    BY <1>1, <1>2, <2>1, PersistsStand
<1>4. /\ \A i \in Persisted : log[i].env \in Envelope /\ Steady(i)
      /\ \A i \in Persisted : log[i].boot = boots => log[i].seq <= seq[CtxOf(i)] + 1
      /\ \A i \in Ahead : \E o \in Open : CtxOf(o) = CtxOf(i)
      /\ IsFiniteSet(Repeats \cup Open) /\ Cardinality(Repeats \cup Open) <= fails
      /\ Cardinality(Repeats \cup Open) \in Nat
  BY FS_CardinalityType DEF GapInv
<1>5. s > 0 => \E i \in InContext(c) : log[i].seq = s
  BY <1>0, <1>1 DEF GapInv, InContext
<1>6. \A i \in InContext(c) : log[i].seq <= s + 1 /\ log[i].seq \in Nat
  BY <1>0, <1>3, <1>4 DEF InContext
<1>7. Steady(n)'
  <2>1. \A j \in InBoot(n)' : log'[j].seq <= log'[n].seq
    BY <1>2, <1>6
  <2>2. log'[n].seq = 1 \/ \E j \in InBoot(n)' : log'[j].seq + 1 = log'[n].seq
    <3>1. CASE s = 0
      BY <1>2, <3>1
    <3>2. CASE s > 0
      BY <1>2, <1>5, <3>2
    <3> QED
      BY <1>1, <3>1, <3>2
  <2> QED
    BY <2>1, <2>2 DEF Steady
<1>8. \A i \in Persisted' : log'[i].env \in Envelope /\ Steady(i)'
  BY <1>1, <1>2, <1>3, <1>4, <1>7
<1>9. n \in Repeats' <=> \E j \in InContext(c) : log[j].seq = s + 1
  BY <1>2 DEF Repeats
<1>10. (n \in Repeats') => \E o \in Open : CtxOf(o) = c
  <2>1. ASSUME NEW j \in InContext(c), log[j].seq = s + 1
        PROVE  \E o \in Open : CtxOf(o) = c
    BY <1>0, <1>4, <2>1 DEF InContext, Ahead
  <2> QED
    BY <1>9, <2>1
<1>11. Repeats \subseteq Persisted /\ Open \subseteq Ahead /\ Ahead \subseteq Persisted
  BY DEF Repeats, Open, Ahead
<1>12. Repeats' \subseteq Repeats \cup {n}
  <2>1. Repeats' \subseteq Persisted'
    BY DEF Repeats
  <2> QED
    BY <1>2, <1>3, <2>1
<1>13. CASE q # "return" /\ fails' = fails
  <2>1. /\ seq' = [seq EXCEPT ![c] = s + 1]
    <3>1. Top.pc = "persist"
      BY <1>1, PersistWays
    <3> QED
      BY <1>0, <1>1, <1>13, <3>1 DEF Moves, Does
  <2>2. /\ seq'[c] = s + 1 /\ \A d \in Ctx : d # c => seq'[d] = seq[d]
    BY <1>1, <2>1
  <2>3. \A i \in Persisted' : log'[i].boot = boots' => log'[i].seq <= seq'[CtxOf(i)'] + 1
    <3>1. log'[n].seq <= seq'[CtxOf(n)'] + 1
      BY <1>1, <1>2, <2>2
    <3>2. ASSUME NEW i \in Persisted, log'[i].boot = boots'
          PROVE  log'[i].seq <= seq'[CtxOf(i)'] + 1
      <4>1. CASE CtxOf(i) = c
        BY <1>1, <1>3, <1>6, <2>2, <3>2, <4>1 DEF InContext
      <4>2. CASE CtxOf(i) # c
        BY <1>1, <1>3, <1>4, <2>2, <3>2, <4>2
      <4> QED
        BY <4>1, <4>2
    <3> QED
      BY <1>2, <3>1, <3>2
  <2>4. \A d \in Ctx : seq'[d] > 0 =>
          \E i \in Persisted' : log'[i].boot = boots' /\ CtxOf(i)' = d /\ log'[i].seq = seq'[d]
    <3> SUFFICES ASSUME NEW d \in Ctx, seq'[d] > 0
                 PROVE  \E i \in Persisted' :
                          log'[i].boot = boots' /\ CtxOf(i)' = d /\ log'[i].seq = seq'[d]
      OBVIOUS
    <3>1. CASE d = c
      BY <1>1, <1>2, <2>2, <3>1
    <3>2. CASE d # c
      <4>1. PICK i \in Persisted : log[i].boot = boots /\ CtxOf(i) = d /\ log[i].seq = seq[d]
        BY <2>2, <3>2 DEF GapInv
      <4> QED
        BY <1>1, <1>2, <1>3, <2>2, <3>2, <4>1
    <3> QED
      BY <3>1, <3>2
  <2>5. \A i \in Ahead' : i \in Ahead /\ CtxOf(i) # c
    <3> SUFFICES ASSUME NEW i \in Ahead' PROVE i \in Ahead /\ CtxOf(i) # c
      OBVIOUS
    <3>1. i \in Persisted' /\ log'[i].boot = boots /\ log'[i].seq = seq'[CtxOf(i)'] + 1
      BY <1>1 DEF Ahead
    <3>2. i # n
      BY <1>1, <1>2, <2>2, <3>1
    <3>3. i \in Persisted
      BY <1>2, <3>1, <3>2
    <3>4. CtxOf(i) # c
      BY <1>1, <1>3, <1>6, <2>2, <3>1, <3>3 DEF InContext
    <3> QED
      BY <1>3, <2>2, <3>1, <3>3, <3>4 DEF Ahead
  <2>6. \A i \in Ahead : CtxOf(i) # c => i \in Ahead'
    BY <1>1, <1>2, <1>3, <1>11, <2>2 DEF Ahead
  <2>7. \A i : i \in Open' <=> i \in Open /\ CtxOf(i) # c
    BY <1>3, <1>11, <2>5, <2>6 DEF Open
  <2>8. \A i \in Ahead' : \E o \in Open' : CtxOf(o)' = CtxOf(i)'
    BY <1>3, <1>4, <1>11, <2>5, <2>7
  <2>9. IsFiniteSet(Repeats' \cup Open') /\ Cardinality(Repeats' \cup Open') <= fails'
    <3>1. CASE n \notin Repeats'
      <4>1. Repeats' \cup Open' \subseteq Repeats \cup Open
        BY <1>12, <2>7, <3>1
      <4> QED
        BY <1>1, <1>4, <1>13, <4>1, LessOrEqual
    <3>2. CASE n \in Repeats'
      <4>1. PICK o \in Open : CtxOf(o) = c
        BY <1>10, <3>2
      <4>2. o \notin Open' /\ o \notin Repeats' /\ o \notin Repeats
        BY <1>3, <1>11, <2>7, <4>1 DEF Open
      <4> DEFINE R == Repeats \cup Open
                 T == R \ {o}
      <4>3. Repeats' \cup Open' \subseteq T \cup {n}
        BY <1>12, <2>7, <4>2
      <4>4. IsFiniteSet(T) /\ Cardinality(T) = Cardinality(R) - 1
        BY <1>4, <4>1, FS_RemoveElement
      <4>5. IsFiniteSet(T \cup {n}) /\ Cardinality(T \cup {n}) <= fails
        <5>1. n \notin T
          BY <1>3, <1>11
        <5>2. IsFiniteSet(T \cup {n}) /\ Cardinality(T \cup {n}) = Cardinality(T) + 1
          BY <4>4, <5>1, FS_AddElement
        <5> HIDE DEF R, T
        <5> QED
          BY <1>1, <1>4, <4>4, <5>2 DEF R
      <4> HIDE DEF T
      <4> QED
        BY <1>1, <1>13, <4>3, <4>5, LessOrEqual
    <3> QED
      BY <3>1, <3>2
  <2> QED
    BY <1>8, <2>3, <2>4, <2>8, <2>9 DEF GapInv
<1>14. CASE q = "return" /\ fails' = fails + 1
  <2>1. seq' = seq
    BY <1>14 DEF Moves, Does
  <2>2. \A i \in Persisted' : log'[i].boot = boots' => log'[i].seq <= seq'[CtxOf(i)'] + 1
    <3>1. log'[n].seq <= seq'[CtxOf(n)'] + 1
      BY <1>0, <1>1, <1>2, <2>1
    <3> QED
      BY <1>1, <1>2, <1>3, <1>4, <2>1, <3>1
  <2>3. \A d \in Ctx : seq'[d] > 0 =>
          \E i \in Persisted' : log'[i].boot = boots' /\ CtxOf(i)' = d /\ log'[i].seq = seq'[d]
    <3>1. \A d \in Ctx : seq[d] > 0 =>
            \E i \in Persisted : log[i].boot = boots /\ CtxOf(i) = d /\ log[i].seq = seq[d]
      BY DEF GapInv
    <3> QED
      BY <1>1, <1>2, <1>3, <2>1, <3>1
  <2>4. n \in Ahead'
    BY <1>0, <1>1, <1>2, <2>1 DEF Ahead
  <2>5. \A i \in Persisted : i \in Ahead' <=> i \in Ahead
    BY <1>1, <1>2, <1>3, <2>1 DEF Ahead
  <2>6. Ahead' \subseteq Persisted \cup {n}
    BY <1>2 DEF Ahead
  <2>7. Open \subseteq Open' /\ Open' \subseteq Open \cup {n}
    BY <1>3, <1>11, <2>5, <2>6 DEF Open
  <2>8. \A i \in Ahead' : \E o \in Open' : CtxOf(o)' = CtxOf(i)'
    <3> SUFFICES ASSUME NEW i \in Ahead' PROVE \E o \in Open' : CtxOf(o)' = CtxOf(i)'
      OBVIOUS
    <3>1. CASE i \in Persisted
      BY <1>3, <1>4, <1>11, <2>5, <2>7, <3>1
    <3>2. CASE i = n /\ n \in Repeats'
      BY <1>2, <1>3, <1>10, <1>11, <2>7, <3>2
    <3>3. CASE i = n /\ n \notin Repeats'
      BY <2>4, <3>3 DEF Open
    <3> QED
      BY <2>6, <3>1, <3>2, <3>3
  <2>9. IsFiniteSet(Repeats' \cup Open') /\ Cardinality(Repeats' \cup Open') <= fails'
    <3> DEFINE R == Repeats \cup Open
    <3>1. Repeats' \cup Open' \subseteq R \cup {n}
      BY <1>12, <2>7
    <3>2. IsFiniteSet(R \cup {n}) /\ Cardinality(R \cup {n}) <= fails + 1
      <4>1. n \notin R
        BY <1>3, <1>11
      <4>2. IsFiniteSet(R \cup {n}) /\ Cardinality(R \cup {n}) = Cardinality(R) + 1
        BY <1>4, <4>1, FS_AddElement
      <4> HIDE DEF R
      <4> QED
        BY <1>1, <1>4, <4>2 DEF R
    <3> HIDE DEF R
    <3>3. fails + 1 \in Nat
      BY <1>1
    <3> QED
      BY <1>14, <3>1, <3>2, <3>3, LessOrEqual
  <2> QED
    BY <1>8, <2>2, <2>3, <2>8, <2>9 DEF GapInv
<1> QED
  BY <1>1, <1>13, <1>14, PersistWays

\* The persists stay the same when a step adds no entry that persists.
LEMMA SamePersists ==
  ASSUME TypeOK, [Next]_vars,
         \A i \in DOMAIN log' : i \notin DOMAIN log => log'[i].kind # "envelope.persisted"
  PROVE  Persisted' = Persisted
<1>1. \A i : i \in Persisted' <=> i \in Persisted
  <2>1. \A i \in DOMAIN log : log'[i] = log[i] /\ i \in DOMAIN log'
    BY PersistsStand
  <2> QED
    BY <2>1 DEF Persisted
<1> QED
  BY <1>1

\* A new process numbers from 1 again; the entries of the old one stand.
LEMMA GapRestart ==
  ASSUME GapInv, IInv', [Next]_vars, Restart
  PROVE  GapInv'
<1>0. TypeOK /\ boots \in Nat /\ boots' = boots + 1 /\ fails' = fails /\ seq' = [c \in Ctx |-> 0]
  BY DEF GapInv, IInv, TypeOK, Restart
<1>1. Persisted' = Persisted
  <2>1. \A i \in DOMAIN log' : i \notin DOMAIN log => log'[i].kind # "envelope.persisted"
    BY <1>0, OtherEntry
  <2> QED
    BY <1>0, <2>1, SamePersists
<1>2. \A i \in Persisted : /\ log'[i] = log[i] /\ Steady(i)' = Steady(i)
                           /\ i \in Repeats' <=> i \in Repeats
                           /\ log[i].env \in Envelope /\ Steady(i)
                           /\ log[i].boot # boots'
  <2>1. Persisted \subseteq DOMAIN log
    BY DEF Persisted
  <2>2. \A i \in DOMAIN log : log[i].boot \in Nat /\ log[i].boot <= boots
    BY <1>0, PersistsStand DEF GapInv, IInv
  <2>3. \A i \in DOMAIN log : log[i].boot # boots'
    BY <1>0, <2>2
  <2> QED
    BY <1>0, <2>1, <2>3, PersistsStand DEF GapInv
<1>3. Ahead' = {}
  BY <1>1, <1>2 DEF Ahead
<1>4. Repeats' \cup Open' = Repeats
  <2>1. \A i : i \in Repeats' <=> i \in Repeats
    BY <1>1, <1>2 DEF Repeats
  <2> QED
    BY <1>3, <2>1 DEF Open
<1>5. IsFiniteSet(Repeats) /\ Cardinality(Repeats) <= fails
  <2>1. fails \in Nat
    BY <1>0 DEF TypeOK
  <2> QED
    BY <2>1, LessOrEqual DEF GapInv
<1>6. \A c \in Ctx : ~(seq'[c] > 0)
  BY <1>0
<1>7. \A i \in Persisted' : log'[i].env \in Envelope /\ Steady(i)' /\ log'[i].boot # boots'
  BY <1>1, <1>2
<1> QED
  BY <1>0, <1>3, <1>4, <1>5, <1>6, <1>7 DEF GapInv

\* Every step keeps the numbers of a context,
LEMMA GapNext == GapInv /\ [Next]_vars => GapInv'
<1> SUFFICES ASSUME GapInv, [Next]_vars PROVE GapInv'
  OBVIOUS
<1>0. IInv /\ IInv' /\ TypeOK
  BY NextInv DEF GapInv, IInv
<1>1. ASSUME NEW k, NEW q, Moves(k, q), k # "envelope.persisted" PROVE GapInv'
  <2>1. \A i \in DOMAIN log' : i \notin DOMAIN log => log'[i].kind # "envelope.persisted"
    BY <1>0, <1>1, NewEntry
  <2>2. Persisted' = Persisted
    BY <1>0, <2>1, SamePersists
  <2>3. (Top.pc = "persist" => q = "return") /\ fails' \in {fails, fails + 1}
    BY <1>0, <1>1, PersistWays
  <2>4. UNCHANGED <<seq, boots>>
    BY <1>1, <2>3 DEF Moves, Does
  <2> QED
    BY <1>0, <2>2, <2>3, <2>4, GapStands
<1>2. CASE Pushes \/ Settles
  <2>1. \A i \in DOMAIN log' : i \notin DOMAIN log => log'[i].kind # "envelope.persisted"
    BY <1>0, <1>2, OtherEntry
  <2>2. Persisted' = Persisted
    BY <1>0, <2>1, SamePersists
  <2>3. UNCHANGED <<seq, boots>> /\ fails' \in {fails, fails + 1}
    BY <1>2 DEF Pushes, Settles, memory, setting
  <2> QED
    BY <1>0, <2>2, <2>3, GapStands
<1>3. CASE Restart
  BY <1>0, <1>3, GapRestart
<1> QED
  BY <1>0, <1>1, <1>2, <1>3, GapPersists, NextSteps

\* of which there are none at first.
LEMMA GapInit == Init => GapInv
<1> SUFFICES ASSUME Init PROVE GapInv
  OBVIOUS
<1>1. DOMAIN log = {1} /\ log[1].kind = "hub.boot" /\ fails = 0 /\ seq = [c \in Ctx |-> 0]
  BY DEF Init
<1>2. Persisted = {}
  BY <1>1 DEF Persisted
<1>3. Ahead = {} /\ Repeats \cup Open = {}
  BY <1>2 DEF Ahead, Open, Repeats
<1>4. IsFiniteSet(Repeats \cup Open) /\ Cardinality(Repeats \cup Open) = 0
  BY <1>3, FS_EmptySet
<1>5. \A c \in Ctx : ~(seq[c] > 0)
  BY <1>1
<1> QED
  BY <1>1, <1>2, <1>3, <1>4, <1>5, InitInv DEF GapInv

\* The hub is the single writer of sequence (core.py:7): within a boot the
\* persisted numbers of a context never fall and never skip, and over the whole
\* log no more of them repeat an earlier one than appends failed.
THEOREM GaplessCorrect == Spec => []GaplessSequence
<1>1. GapInv => GaplessSequence
  <2> SUFFICES ASSUME GapInv PROVE GaplessSequence
    OBVIOUS
  <2>1. Cardinality(Repeats) <= fails
    <3>1. fails \in Nat
      BY DEF GapInv, IInv, TypeOK
    <3> QED
      BY <3>1, LessOrEqual DEF GapInv
  <2>2. \A i \in Persisted : Steady(i)
    BY DEF GapInv
  <2> QED
    BY <2>1, <2>2 DEF GaplessSequence, Repeats, Steady, InBoot, Persisted, CtxOf
<1> QED
  BY <1>1, GapInit, GapNext, PTL DEF Spec

----------------------------------------------------------------------------
(* The sequence KPI *)

\* Boots on the log: their numbers never fall, a hub.boot entry begins each, and
\* this boot has begun.
BootInv ==
  /\ GapInv
  /\ \A i, j \in DOMAIN log : i <= j => log[i].boot <= log[j].boot
  /\ \A b \in DOMAIN log : log[b].kind = "hub.boot" =>
       \A i \in DOMAIN log : i < b => log[i].boot < log[b].boot
  /\ \A i \in DOMAIN log : \E b \in DOMAIN log :
       b <= i /\ log[b].kind = "hub.boot" /\ log[b].boot = log[i].boot
  /\ \E b \in DOMAIN log : log[b].kind = "hub.boot" /\ log[b].boot = boots

\* An entry is of this boot, or begins the next one.
LEMMA BootStep ==
  ASSUME TypeOK, [Next]_vars
  PROVE  \/ /\ boots' = boots
            /\ \A i \in DOMAIN log' : i \notin DOMAIN log =>
                 log'[i].boot = boots /\ log'[i].kind # "hub.boot"
         \/ /\ boots' = boots + 1 /\ Len(log') = Len(log) + 1
            /\ log'[Len(log')].boot = boots + 1 /\ log'[Len(log')].kind = "hub.boot"
<1>0. log \in Seq(LogEntry)
  BY DEF TypeOK
<1>1. ASSUME NEW k, NEW q, Moves(k, q)
      PROVE  /\ boots' = boots
             /\ \A i \in DOMAIN log' : i \notin DOMAIN log =>
                  log'[i].boot = boots /\ log'[i].kind # "hub.boot"
  <2>1. boots' = boots
    BY <1>1 DEF Moves
  <2>2. k # "hub.boot"
    BY <1>1, ConfigAssumption DEF Moves, Way, Edge, Edges, PageEdges
  <2> QED
    BY <1>1, <2>1, <2>2, NewEntry
<1>2. CASE Pushes
  <2>1. log' = log /\ boots' = boots
    BY <1>2 DEF Pushes, setting
  <2> QED
    BY <2>1
<1>3. CASE Settles
  <2>1. boots' = boots
    BY <1>3 DEF Settles
  <2>2. log' \in {log, Append(log, [kind |-> "signer.armed", env |-> "none", seq |-> 0, boot |-> boots])}
    BY <1>3 DEF Settles, Entry
  <2> QED
    BY <1>0, <2>1, <2>2
<1>4. CASE Restart
  <2>1. /\ boots' = boots + 1
        /\ log' = Append(log, [kind |-> "hub.boot", env |-> "none", seq |-> 0, boot |-> boots + 1])
    BY <1>4 DEF Restart
  <2> QED
    BY <1>0, <2>1
<1> QED
  BY <1>1, <1>2, <1>3, <1>4, NextSteps

\* Every step keeps the order of the boots.
LEMMA BootNext == BootInv /\ [Next]_vars => BootInv'
<1> SUFFICES ASSUME BootInv, [Next]_vars PROVE BootInv'
  OBVIOUS
<1>0. /\ TypeOK /\ GapInv' /\ boots \in Nat
      /\ \A i \in DOMAIN log : log[i].boot \in Nat /\ log[i].boot <= boots
  <2>1. TypeOK /\ GapInv'
    BY GapNext DEF BootInv, GapInv, IInv
  <2>2. boots \in Nat /\ \A i \in DOMAIN log : log[i].boot <= boots
    BY <2>1 DEF BootInv, GapInv, IInv, TypeOK
  <2> QED
    BY <2>1, <2>2, PersistsStand
<1>1. /\ Len(log) \in Nat /\ DOMAIN log = 1 .. Len(log) /\ DOMAIN log' = 1 .. Len(log')
      /\ Len(log') \in {Len(log), Len(log) + 1}
      /\ \A i \in DOMAIN log : log'[i] = log[i]
  BY <1>0, LogStep
<1> DEFINE n == Len(log')
<1>2. /\ \A i \in DOMAIN log' : i \in DOMAIN log \/ i = n
      /\ \A i \in DOMAIN log : i \in DOMAIN log' /\ i \in Nat /\ i <= n
      /\ n \notin DOMAIN log => \A i \in DOMAIN log : i < n /\ ~(n <= i)
      /\ n \in Nat
  <2>1. ASSUME NEW m \in Nat, NEW k \in {m, m + 1}
        PROVE  /\ \A i \in 1 .. k : i \in 1 .. m \/ i = k
               /\ \A i \in 1 .. m : i \in 1 .. k /\ i \in Nat /\ i <= k
               /\ k \notin 1 .. m => \A i \in 1 .. m : i < k /\ ~(k <= i)
               /\ k \in Nat
    OBVIOUS
  <2>2. Len(log) \in Nat /\ n \in {Len(log), Len(log) + 1}
    BY <1>1
  <2> HIDE DEF n
  <2>3. DOMAIN log' = 1 .. n
    BY <1>1 DEF n
  <2>4. /\ \A i \in 1 .. n : i \in 1 .. Len(log) \/ i = n
        /\ \A i \in 1 .. Len(log) : i \in 1 .. n /\ i \in Nat /\ i <= n
        /\ n \notin 1 .. Len(log) => \A i \in 1 .. Len(log) : i < n /\ ~(n <= i)
        /\ n \in Nat
    BY <2>1, <2>2
  <2>5. DOMAIN log = 1 .. Len(log)
    BY <1>1
  <2> QED
    BY <2>3, <2>4, <2>5, Zenon
<1>3. /\ \A i, j \in DOMAIN log : i <= j => log[i].boot <= log[j].boot
      /\ \A b \in DOMAIN log : log[b].kind = "hub.boot" =>
           \A i \in DOMAIN log : i < b => log[i].boot < log[b].boot
      /\ \A i \in DOMAIN log : \E b \in DOMAIN log :
           b <= i /\ log[b].kind = "hub.boot" /\ log[b].boot = log[i].boot
      /\ \E b \in DOMAIN log : log[b].kind = "hub.boot" /\ log[b].boot = boots
  BY DEF BootInv
<1>4. ASSUME n \notin DOMAIN log, n \in DOMAIN log',
             \/ log'[n].boot = boots /\ log'[n].kind # "hub.boot" /\ boots' = boots
             \/ log'[n].boot = boots + 1 /\ log'[n].kind = "hub.boot" /\ boots' = boots + 1
      PROVE  BootInv'
  <2>0. \A i \in DOMAIN log : i < n /\ ~(n <= i)
    BY <1>2, <1>4
  <2>1. \A i \in DOMAIN log : log'[i].boot <= log'[n].boot
    <3>1. log'[n].boot \in {boots, boots + 1}
      BY <1>4
    <3>2. \A i \in DOMAIN log : log'[i].boot \in Nat /\ log'[i].boot <= boots
      BY <1>0, <1>1
    <3> HIDE DEF n
    <3> QED
      BY <1>0, <3>1, <3>2
  <2>2. \A i, j \in DOMAIN log' : i <= j => log'[i].boot <= log'[j].boot
    <3>1. log'[n].boot <= log'[n].boot
      BY <1>0, <1>4
    <3> HIDE DEF n
    <3> QED
      BY <1>1, <1>2, <1>3, <2>0, <2>1, <3>1
  <2>3. \A b \in DOMAIN log' : log'[b].kind = "hub.boot" =>
          \A i \in DOMAIN log' : i < b => log'[i].boot < log'[b].boot
    <3> SUFFICES ASSUME NEW b \in DOMAIN log', log'[b].kind = "hub.boot", NEW i \in DOMAIN log', i < b
                 PROVE  log'[i].boot < log'[b].boot
      OBVIOUS
    <3>1. i \in DOMAIN log
      <4>1. b = n \/ b \in DOMAIN log
        BY <1>2
      <4>2. i = n => FALSE
        <5>1. CASE b = n
          BY <1>2, <5>1
        <5>2. CASE b \in DOMAIN log
          BY <2>0, <1>2, <5>2
        <5> QED
          BY <4>1, <5>1, <5>2
      <4> QED
        BY <1>2, <4>2
    <3>2. CASE b \in DOMAIN log
      BY <1>1, <1>3, <3>1, <3>2
    <3>3. CASE b = n
      <4>1. log'[b].boot = boots + 1
        BY <1>4, <3>3
      <4>2. log'[i] = log[i] /\ log[i].boot \in Nat /\ log[i].boot <= boots
        BY <1>0, <1>1, <3>1
      <4>3. log'[i].boot < boots + 1
        BY <1>0, <4>2
      <4> QED
        BY <4>1, <4>3
    <3> QED
      BY <1>2, <3>2, <3>3
  <2>4. \A i \in DOMAIN log : \E b \in DOMAIN log' :
          b <= i /\ log'[b].kind = "hub.boot" /\ log'[b].boot = log'[i].boot
    <3> SUFFICES ASSUME NEW i \in DOMAIN log
                 PROVE  \E b \in DOMAIN log' :
                          b <= i /\ log'[b].kind = "hub.boot" /\ log'[b].boot = log'[i].boot
      OBVIOUS
    <3>1. PICK b \in DOMAIN log : b <= i /\ log[b].kind = "hub.boot" /\ log[b].boot = log[i].boot
      BY <1>3
    <3>2. b \in DOMAIN log' /\ log'[b] = log[b] /\ log'[i] = log[i]
      BY <1>1, <1>2
    <3> QED
      BY <3>1, <3>2
  <2>5. \E b \in DOMAIN log' : b <= n /\ log'[b].kind = "hub.boot" /\ log'[b].boot = boots'
    <3>1. CASE log'[n].kind = "hub.boot"
      <4>1. n <= n
        BY <1>2
      <4> QED
        BY <1>4, <3>1, <4>1
    <3>2. CASE log'[n].kind # "hub.boot"
      <4>1. PICK b \in DOMAIN log : log[b].kind = "hub.boot" /\ log[b].boot = boots
        BY <1>3
      <4>2. b \in DOMAIN log' /\ b <= n /\ log'[b] = log[b]
        BY <1>1, <1>2
      <4> QED
        BY <1>4, <3>2, <4>1, <4>2
    <3> QED
      BY <3>1, <3>2
  <2>6. log'[n].boot = boots'
    BY <1>4
  <2>7. \A i \in DOMAIN log' : \E b \in DOMAIN log' :
          b <= i /\ log'[b].kind = "hub.boot" /\ log'[b].boot = log'[i].boot
    <3> HIDE DEF n
    <3> QED
      BY <1>2, <2>4, <2>5, <2>6
  <2> QED
    BY <1>0, <2>2, <2>3, <2>5, <2>7 DEF BootInv
<1>5. ASSUME DOMAIN log' = DOMAIN log, boots' = boots PROVE BootInv'
  BY <1>0, <1>1, <1>3, <1>5 DEF BootInv
<1>6. CASE n = Len(log)
  <2>0. Len(log') # Len(log) + 1
    <3>1. Len(log) \in Nat /\ Len(log') = Len(log)
      BY <1>1, <1>6
    <3>2. \A m \in Nat : m # m + 1
      OBVIOUS
    <3> QED
      BY <3>1, <3>2
  <2>1. boots' = boots
    BY <1>0, <2>0, BootStep
  <2> QED
    BY <1>1, <1>5, <1>6, <2>1
<1>7. CASE n = Len(log) + 1
  <2>1. n \notin DOMAIN log /\ n \in DOMAIN log'
    BY <1>1, <1>7
  <2> QED
    BY <1>0, <1>4, <2>1, BootStep
<1> QED
  BY <1>1, <1>6, <1>7

LEMMA BootInit == Init => BootInv
<1> SUFFICES ASSUME Init PROVE BootInv
  OBVIOUS
<1>1. DOMAIN log = {1} /\ log[1].kind = "hub.boot" /\ log[1].boot = 1 /\ boots = 1
  BY DEF Init
<1> QED
  BY <1>1, GapInit DEF BootInv

\* A renewal starts a context's numbers anew, in a boot that has none of them yet.
Renewals == {i \in Persisted : /\ \E j \in Persisted : j < i /\ CtxOf(j) = CtxOf(i)
                               /\ InBoot(i) = {}}

\* The persists of a context among the first n entries, and its last one.
Upto(c, n)    == {i \in Persisted : i <= n /\ CtxOf(i) = c}
LastOne(i, n) == i \in Persisted /\ i <= n /\ \A j \in Upto(CtxOf(i), n) : j <= i

Walks == [gaps : Nat, restarts : Nat, expected : [Ctx -> Nat], booted : SUBSET Ctx]

\* What the walk knows after n entries.
Tells(w, n) ==
  /\ w \in Walks
  /\ w.gaps = Cardinality(Repeats \cap (1 .. n))
  /\ w.restarts = Cardinality(Renewals \cap (1 .. n))
  /\ \A c \in Ctx : Upto(c, n) = {} => w.expected[c] = 0 /\ c \notin w.booted
  /\ \A i \in Persisted : LastOne(i, n) =>
       /\ w.expected[CtxOf(i)] = log[i].seq + 1
       /\ CtxOf(i) \in w.booted <=>
            \E b \in DOMAIN log : i < b /\ b <= n /\ log[b].kind = "hub.boot"

\* The numbers of two neighbouring persists of a context: in one boot the later is
\* the earlier again or the next; a later boot begins with 1, after its hub.boot.
LEMMA Neighbours ==
  ASSUME BootInv, NEW n \in Persisted, NEW i \in Persisted, CtxOf(i) = CtxOf(n), i < n,
         LastOne(i, n - 1)
  PROVE  \/ /\ log[n].seq \in {log[i].seq, log[i].seq + 1}
            /\ n \in Repeats <=> log[n].seq = log[i].seq
            /\ n \notin Renewals
            /\ ~\E b \in DOMAIN log : i < b /\ b <= n - 1 /\ log[b].kind = "hub.boot"
         \/ /\ log[n].seq = 1 /\ n \notin Repeats /\ n \in Renewals
            /\ \E b \in DOMAIN log : i < b /\ b <= n - 1 /\ log[b].kind = "hub.boot"
<1>0. /\ Persisted \subseteq DOMAIN log
      /\ \A j \in DOMAIN log : j \in Nat /\ log[j].seq \in Nat /\ log[j].boot \in Nat
      /\ \A j \in Persisted : Steady(j)
  <2>1. TypeOK /\ \A j \in Persisted : Steady(j)
    BY DEF BootInv, GapInv, IInv
  <2>2. Persisted \subseteq DOMAIN log
    BY DEF Persisted
  <2>3. log \in Seq(LogEntry)
    BY <2>1 DEF TypeOK
  <2>4. \A j \in DOMAIN log : j \in Nat /\ log[j] \in LogEntry
    BY <2>3
  <2> QED
    BY <2>1, <2>2, <2>4 DEF LogEntry
<1>1. /\ \A j, k \in DOMAIN log : j <= k => log[j].boot <= log[k].boot
      /\ \A b \in DOMAIN log : log[b].kind = "hub.boot" =>
           \A j \in DOMAIN log : j < b => log[j].boot < log[b].boot
      /\ \A j \in DOMAIN log : \E b \in DOMAIN log :
           b <= j /\ log[b].kind = "hub.boot" /\ log[b].boot = log[j].boot
  BY DEF BootInv
<1>2. /\ i \in Nat /\ n \in Nat /\ log[i].seq \in Nat /\ log[n].seq \in Nat
      /\ log[i].boot \in Nat /\ log[n].boot \in Nat /\ log[i].boot <= log[n].boot
  BY <1>0, <1>1
<1>3. \A j \in InBoot(n) : /\ j \in Persisted /\ j \in Nat /\ j <= i
                           /\ log[j].boot = log[n].boot /\ CtxOf(j) = CtxOf(i)
                           /\ log[j].seq \in Nat /\ log[j].boot <= log[i].boot
  <2> SUFFICES ASSUME NEW j \in InBoot(n)
               PROVE  /\ j \in Persisted /\ j \in Nat /\ j <= i
                      /\ log[j].boot = log[n].boot /\ CtxOf(j) = CtxOf(i)
                      /\ log[j].seq \in Nat /\ log[j].boot <= log[i].boot
    OBVIOUS
  <2>1. j \in Persisted /\ j < n /\ log[j].boot = log[n].boot /\ CtxOf(j) = CtxOf(i)
    BY DEF InBoot
  <2>2. j \in Nat /\ log[j].seq \in Nat
    BY <1>0, <2>1
  <2>3. j <= n - 1
    BY <1>2, <2>1, <2>2
  <2>4. j <= i
    BY <2>1, <2>3 DEF LastOne, Upto
  <2> QED
    BY <1>0, <1>1, <2>1, <2>2, <2>4
<1>4. CASE log[i].boot = log[n].boot
  <2>1. i \in InBoot(n)
    BY <1>4 DEF InBoot
  <2>2. \A j \in InBoot(n) : log[j].seq <= log[i].seq
    <3> SUFFICES ASSUME NEW j \in InBoot(n) PROVE log[j].seq <= log[i].seq
      OBVIOUS
    <3>1. CASE j = i
      BY <1>2, <3>1
    <3>2. CASE j # i
      <4>1. j \in InBoot(i)
        BY <1>2, <1>3, <1>4, <3>2 DEF InBoot
      <4> QED
        BY <1>0, <4>1 DEF Steady
    <3> QED
      BY <3>1, <3>2
  <2>3. log[i].seq <= log[n].seq /\ (log[n].seq = 1 \/ \E j \in InBoot(n) : log[j].seq + 1 = log[n].seq)
    BY <1>0, <2>1 DEF Steady
  <2>4. log[i].seq >= 1
    <3>1. log[i].seq = 1 \/ \E j \in InBoot(i) : log[j].seq + 1 = log[i].seq
      BY <1>0 DEF Steady
    <3>2. \A j \in InBoot(i) : log[j].seq \in Nat
      BY <1>0 DEF InBoot
    <3> QED
      BY <1>2, <3>1, <3>2
  <2>5. log[n].seq \in {log[i].seq, log[i].seq + 1}
    <3>1. CASE log[n].seq = 1
      BY <1>2, <2>3, <2>4, <3>1
    <3>2. ASSUME NEW j \in InBoot(n), log[j].seq + 1 = log[n].seq
          PROVE  log[n].seq \in {log[i].seq, log[i].seq + 1}
      <4>1. log[j].seq <= log[i].seq /\ log[j].seq \in Nat
        BY <1>3, <2>2
      <4> QED
        BY <1>2, <2>3, <3>2, <4>1
    <3> QED
      BY <2>3, <3>1, <3>2
  <2>6. n \in Repeats <=> log[n].seq = log[i].seq
    <3>1. ASSUME NEW j \in InBoot(n), log[j].seq = log[n].seq PROVE log[n].seq = log[i].seq
      BY <1>2, <1>3, <2>2, <2>3, <3>1
    <3> QED
      BY <2>1, <3>1 DEF Repeats
  <2>7. n \notin Renewals
    BY <2>1 DEF Renewals
  <2>8. ASSUME NEW b \in DOMAIN log, i < b, b <= n - 1, log[b].kind = "hub.boot" PROVE FALSE
    <3>1. b \in Nat /\ b <= n /\ log[b].boot \in Nat
      BY <1>0, <1>2, <2>8
    <3>2. log[i].boot < log[b].boot /\ log[b].boot <= log[n].boot
      BY <1>0, <1>1, <2>8, <3>1
    <3> QED
      BY <1>2, <1>4, <3>1, <3>2
  <2> QED
    BY <2>5, <2>6, <2>7, <2>8
<1>5. CASE log[i].boot # log[n].boot
  <2>1. InBoot(n) = {}
    <3> SUFFICES ASSUME NEW j \in InBoot(n) PROVE FALSE
      OBVIOUS
    <3>1. log[j].boot = log[n].boot /\ log[j].boot <= log[i].boot
      BY <1>3
    <3> QED
      BY <1>2, <1>5, <3>1
  <2>2. log[n].seq = 1
    BY <1>0, <2>1 DEF Steady
  <2>3. n \notin Repeats /\ n \in Renewals
    BY <2>1 DEF Repeats, Renewals
  <2>4. PICK b \in DOMAIN log : b <= n /\ log[b].kind = "hub.boot" /\ log[b].boot = log[n].boot
    BY <1>0, <1>1
  <2>5. b # n /\ b \in Nat
    BY <1>0, <2>4 DEF Persisted
  <2>6. ~(b <= i)
    <3> SUFFICES ASSUME b <= i PROVE FALSE
      OBVIOUS
    <3>1. log[b].boot <= log[i].boot
      BY <1>0, <1>1
    <3> QED
      BY <1>2, <1>5, <2>4, <3>1
  <2>7. i < b /\ b <= n - 1
    BY <1>2, <2>4, <2>5, <2>6
  <2> QED
    BY <2>2, <2>3, <2>4, <2>7
<1> QED
  BY <1>4, <1>5

\* A count over the first n entries, one entry later.
LEMMA CountOn ==
  ASSUME NEW S, NEW n \in Nat \ {0}
  PROVE  /\ Cardinality(S \cap (1 .. n)) \in Nat
         /\ n \in S => Cardinality(S \cap (1 .. n)) = Cardinality(S \cap (1 .. n - 1)) + 1
         /\ n \notin S => Cardinality(S \cap (1 .. n)) = Cardinality(S \cap (1 .. n - 1))
<1> DEFINE A == S \cap (1 .. n - 1)
           B == S \cap (1 .. n)
<1>1. IsFiniteSet(1 .. n - 1) /\ IsFiniteSet(1 .. n)
  BY FS_Interval
<1>2. IsFiniteSet(A) /\ IsFiniteSet(B)
  BY <1>1, FS_Subset
<1>3. n \notin A /\ (n \in S => B = A \cup {n}) /\ (n \notin S => B = A)
  OBVIOUS
<1> HIDE DEF A, B
<1>4. Cardinality(A \cup {n}) = Cardinality(A) + 1
  BY <1>2, <1>3, FS_AddElement
<1>5. Cardinality(B) \in Nat
  BY <1>2, FS_CardinalityType
<1> QED
  BY <1>3, <1>4, <1>5 DEF A, B

\* What the walk reads of an entry.
LEMMA EventsRead ==
  ASSUME BootInv
  PROVE  /\ Len(log) \in Nat /\ DOMAIN log = 1 .. Len(log) /\ Len(Events) = Len(log)
         /\ \A n \in DOMAIN log : Events[n].kind = KindOf(log[n].kind) /\ log[n].kind \in Kinds
         /\ \A n \in Persisted : /\ n \in DOMAIN log /\ CtxOf(n) \in Ctx /\ log[n].seq \in Nat
                                 /\ Events[n].seq = log[n].seq /\ Events[n].ctx = CtxOf(n)
<1>1. log \in Seq(LogEntry) /\ \A n \in Persisted : log[n].env \in Envelope
  BY DEF BootInv, GapInv, IInv, TypeOK
<1>2. Len(log) \in Nat /\ DOMAIN log = 1 .. Len(log)
  BY <1>1
<1>3. \A n \in DOMAIN log : log[n] \in LogEntry
  BY <1>1
<1>4. Len(Events) = Len(log)
  <2>1. Events \in Seq({Events[i] : i \in 1 .. Len(log)}) /\ DOMAIN Events = 1 .. Len(log)
    BY <1>2 DEF Events
  <2> QED
    BY <1>2, <2>1
<1>5. ASSUME NEW n \in DOMAIN log
      PROVE  /\ Events[n].kind = KindOf(log[n].kind) /\ Events[n].seq = log[n].seq
             /\ log[n].env \in Envelope => Events[n].ctx = CtxOf(n)
  <2>1. PICK k, e, x : /\ x = IF log[n].env \in Envelope THEN Msg[log[n].env].ctx ELSE "none"
                       /\ k = KindOf(log[n].kind)
                       /\ Events[n] = [kind |-> k, ts |-> n, env |-> e, seq |-> log[n].seq,
                                       passed |-> log[n].kind # "selfcheck.failed", ctx |-> x]
    BY DEF Events
  <2>2. log[n].env \in Envelope => x = CtxOf(n)
    BY <2>1 DEF CtxOf
  <2>3. Events[n].kind = KindOf(log[n].kind) /\ Events[n].seq = log[n].seq /\ Events[n].ctx = x
    BY <2>1
  <2> QED
    BY <2>2, <2>3
<1>6. \A n \in DOMAIN log : log[n].kind \in Kinds /\ log[n].seq \in Nat
  BY <1>3 DEF LogEntry
<1>7. \A n \in Persisted : n \in DOMAIN log /\ CtxOf(n) \in Ctx
  BY <1>1 DEF Persisted, CtxOf, Ctx
<1>8. ASSUME NEW n \in Persisted PROVE Events[n].seq = log[n].seq /\ Events[n].ctx = CtxOf(n)
  BY <1>1, <1>5, <1>7
<1> QED
  BY <1>2, <1>4, <1>5, <1>6, <1>7, <1>8

\* One entry of the log, passed by the walk.
LEMMA WalkStep ==
  ASSUME BootInv, NEW n \in 1 .. Len(log), NEW w, Tells(w, n - 1)
  PROVE  Tells(K!Pass(w, Events[n]), n)
<1>0. /\ Len(log) \in Nat /\ DOMAIN log = 1 .. Len(log) /\ n \in Nat \ {0} /\ n \in DOMAIN log
      /\ Events[n].kind = KindOf(log[n].kind) /\ log[n].kind \in Kinds
      /\ \A i \in Persisted : i \in DOMAIN log /\ i \in Nat /\ CtxOf(i) \in Ctx /\ log[i].seq \in Nat
  BY EventsRead
<1>1. /\ w \in Walks
      /\ w.gaps = Cardinality(Repeats \cap (1 .. n - 1))
      /\ w.restarts = Cardinality(Renewals \cap (1 .. n - 1))
      /\ \A c \in Ctx : Upto(c, n - 1) = {} => w.expected[c] = 0 /\ c \notin w.booted
      /\ \A i \in Persisted : LastOne(i, n - 1) =>
           /\ w.expected[CtxOf(i)] = log[i].seq + 1
           /\ CtxOf(i) \in w.booted <=>
                \E b \in DOMAIN log : i < b /\ b <= n - 1 /\ log[b].kind = "hub.boot"
  BY DEF Tells
<1>2. /\ w.gaps \in Nat /\ w.restarts \in Nat /\ w.expected \in [Ctx -> Nat] /\ w.booted \subseteq Ctx
      /\ w = [gaps |-> w.gaps, restarts |-> w.restarts, expected |-> w.expected, booted |-> w.booted]
  BY <1>1 DEF Walks
<1>3. ASSUME n \notin Persisted
      PROVE  /\ \A c : Upto(c, n) = Upto(c, n - 1)
             /\ \A i \in Persisted : LastOne(i, n) => LastOne(i, n - 1)
             /\ Cardinality(Repeats \cap (1 .. n)) = Cardinality(Repeats \cap (1 .. n - 1))
             /\ Cardinality(Renewals \cap (1 .. n)) = Cardinality(Renewals \cap (1 .. n - 1))
  <2>1. \A i \in Persisted : i <= n <=> i <= n - 1
    BY <1>0, <1>3
  <2>2. \A c : Upto(c, n) = Upto(c, n - 1)
    BY <2>1 DEF Upto
  <2>3. n \notin Repeats /\ n \notin Renewals
    BY <1>3 DEF Repeats, Renewals
  <2>4. \A i \in Persisted : LastOne(i, n) => LastOne(i, n - 1)
    BY <2>1, <2>2 DEF LastOne
  <2> QED
    BY <1>0, <2>2, <2>3, <2>4, CountOn
<1>4. CASE log[n].kind = "hub.boot"
  <2> DEFINE booted == {c \in Ctx : w.expected[c] # 0}
             v == [gaps |-> w.gaps, restarts |-> w.restarts, expected |-> w.expected, booted |-> booted]
  <2>1. K!Pass(w, Events[n]) = v
    <3>1. K!Pass(w, Events[n]) = K!PassBoot(w)
      BY <1>0, <1>4 DEF K!Pass, K!BootKinds, KindOf
    <3>2. DOMAIN w.expected = Ctx
      BY <1>2
    <3> QED
      BY <1>2, <3>1, <3>2 DEF K!PassBoot
  <2>2. n \notin Persisted
    BY <1>4 DEF Persisted
  <2>3. v \in Walks
    BY <1>2 DEF Walks
  <2>4. \A c \in Ctx : Upto(c, n) = {} => v.expected[c] = 0 /\ c \notin v.booted
    BY <1>1, <1>3, <2>2
  <2>5. ASSUME NEW i \in Persisted, LastOne(i, n)
        PROVE  /\ v.expected[CtxOf(i)] = log[i].seq + 1
               /\ CtxOf(i) \in v.booted
               /\ \E b \in DOMAIN log : i < b /\ b <= n /\ log[b].kind = "hub.boot"
    <3>1. LastOne(i, n - 1)
      BY <1>3, <2>2, <2>5
    <3>2. w.expected[CtxOf(i)] = log[i].seq + 1
      BY <1>1, <3>1
    <3>3. w.expected[CtxOf(i)] # 0 /\ CtxOf(i) \in Ctx
      BY <1>0, <3>2
    <3>4. i < n /\ n <= n
      BY <1>0, <3>1 DEF LastOne
    <3> QED
      BY <1>0, <1>4, <3>2, <3>3, <3>4
  <2>6. v.gaps = w.gaps /\ v.restarts = w.restarts
    OBVIOUS
  <2> HIDE DEF v
  <2>7. Tells(v, n)
    BY <1>1, <1>3, <2>2, <2>3, <2>4, <2>5, <2>6 DEF Tells
  <2> QED
    BY <2>1, <2>7
<1>5. CASE n \in Persisted
  <2> DEFINE c == CtxOf(n)
             s == log[n].seq
             fits == s = (IF w.expected[c] = 0 THEN 1 ELSE w.expected[c])
             restart == ~fits /\ s = 1 /\ c \in w.booted
             gaps == w.gaps + (IF fits \/ restart THEN 0 ELSE 1)
             restarts == w.restarts + (IF restart THEN 1 ELSE 0)
             expected == [w.expected EXCEPT ![c] = s + 1]
             booted == w.booted \ {c}
             v == [gaps |-> gaps, restarts |-> restarts, expected |-> expected, booted |-> booted]
  <2>1. K!Pass(w, Events[n]) = v
    <3>1. log[n].kind = "envelope.persisted" /\ Events[n].seq = s /\ Events[n].ctx = c
      BY <1>5, EventsRead DEF Persisted
    <3>2. K!Pass(w, Events[n]) = K!PassPersist(w, c, s)
      BY <1>0, <3>1 DEF K!Pass, K!BootKinds, KindOf
    <3>3. K!PassPersist(w, c, s) =
            [w EXCEPT !.gaps = gaps, !.restarts = restarts, !.expected = expected, !.booted = booted]
      BY <1>2 DEF K!PassPersist
    <3> QED
      BY <1>2, <3>2, <3>3
  <2>2. c \in Ctx /\ s \in Nat /\ n \in Nat
    BY <1>0, <1>5
  <2>3. v \in Walks
    <3>1. gaps \in Nat /\ restarts \in Nat
      BY <1>2
    <3>2. expected \in [Ctx -> Nat] /\ booted \subseteq Ctx
      BY <1>2, <2>2
    <3> HIDE DEF gaps, restarts, expected, booted
    <3> QED
      BY <3>1, <3>2 DEF Walks
  <2>4. \A d : d # c => Upto(d, n) = Upto(d, n - 1)
    <3> SUFFICES ASSUME NEW d, d # c PROVE Upto(d, n) = Upto(d, n - 1)
      OBVIOUS
    <3>1. \A i \in Persisted : CtxOf(i) = d => (i <= n <=> i <= n - 1)
      <4>1. \A i \in Persisted : CtxOf(i) = d => i # n
        OBVIOUS
      <4> HIDE DEF c
      <4> QED
        BY <1>0, <4>1
    <3> QED
      BY <3>1 DEF Upto
  <2>5. n \in Upto(c, n) /\ LastOne(n, n)
    BY <1>5, <2>2 DEF Upto, LastOne
  <2>6. /\ expected[c] = s + 1 /\ \A d \in Ctx : d # c => expected[d] = w.expected[d]
        /\ c \notin booted /\ \A d : d # c => (d \in booted <=> d \in w.booted)
    BY <1>2, <2>2
  <2>7. \A d \in Ctx : Upto(d, n) = {} => expected[d] = 0 /\ d \notin booted
    <3> HIDE DEF c, expected, booted
    <3> QED
      BY <1>1, <2>4, <2>5, <2>6
  <2>8. ASSUME NEW i \in Persisted, LastOne(i, n)
        PROVE  /\ expected[CtxOf(i)] = log[i].seq + 1
               /\ CtxOf(i) \in booted <=>
                    \E b \in DOMAIN log : i < b /\ b <= n /\ log[b].kind = "hub.boot"
    <3>1. CASE CtxOf(i) = c
      <4>1. i = n
        <5>1. n <= i /\ i <= n /\ i \in Nat
          BY <1>0, <2>5, <2>8, <3>1 DEF LastOne
        <5> QED
          BY <2>2, <5>1
      <4>2. ~\E b \in DOMAIN log : i < b /\ b <= n /\ log[b].kind = "hub.boot"
        BY <1>0, <4>1
      <4> QED
        BY <2>6, <3>1, <4>1, <4>2
    <3>2. CASE CtxOf(i) # c
      <4>1. i # n /\ i \in Nat /\ i <= n
        BY <1>0, <2>8, <3>2 DEF LastOne
      <4>2. i <= n - 1
        BY <2>2, <4>1
      <4>3. LastOne(i, n - 1)
        BY <2>4, <2>8, <3>2, <4>2 DEF LastOne
      <4>4. /\ w.expected[CtxOf(i)] = log[i].seq + 1
            /\ CtxOf(i) \in w.booted <=>
                 \E b \in DOMAIN log : i < b /\ b <= n - 1 /\ log[b].kind = "hub.boot"
        BY <1>1, <4>3
      <4>5. \A b \in DOMAIN log : log[b].kind = "hub.boot" => (b <= n <=> b <= n - 1)
        <5>1. \A b \in DOMAIN log : log[b].kind = "hub.boot" => b # n /\ b \in Nat
          BY <1>0, <1>5 DEF Persisted
        <5> QED
          BY <2>2, <5>1
      <4>6. CtxOf(i) \in Ctx
        BY <1>0
      <4> HIDE DEF c, expected, booted
      <4> QED
        BY <2>6, <3>2, <4>4, <4>5, <4>6
    <3> QED
      BY <3>1, <3>2
  <2>9. /\ gaps = w.gaps + (IF n \in Repeats THEN 1 ELSE 0)
        /\ restarts = w.restarts + (IF n \in Renewals THEN 1 ELSE 0)
    <3>1. CASE Upto(c, n - 1) = {}
      <4>1. w.expected[c] = 0 /\ c \notin w.booted
        BY <1>1, <2>2, <3>1
      <4>2. \A j \in Persisted : j < n => CtxOf(j) # c
        <5> SUFFICES ASSUME NEW j \in Persisted, j < n, CtxOf(j) = c PROVE FALSE
          OBVIOUS
        <5>1. j <= n - 1
          BY <1>0
        <5> QED
          BY <3>1, <5>1 DEF Upto
      <4>3. InBoot(n) = {}
        BY <4>2 DEF InBoot
      <4>4. s = 1
        <5>1. Steady(n)
          BY <1>5 DEF BootInv, GapInv
        <5> QED
          BY <4>3, <5>1 DEF Steady
      <4>5. n \notin Repeats /\ n \notin Renewals
        BY <4>2, <4>3 DEF Repeats, Renewals
      <4>6. fits /\ ~restart
        BY <4>1, <4>4
      <4> QED
        BY <4>5, <4>6
    <3>2. CASE Upto(c, n - 1) # {}
      <4>1. Upto(c, n - 1) \subseteq 1 .. Len(log)
        BY <1>0 DEF Upto
      <4>2. PICK i \in Upto(c, n - 1) : \A j \in Upto(c, n - 1) : i >= j
        BY <1>0, <3>2, <4>1, GreatestOf
      <4>3. i \in Persisted /\ i <= n - 1 /\ CtxOf(i) = c
        BY <4>2 DEF Upto
      <4>4. i < n /\ i \in Nat /\ \A j \in Upto(c, n - 1) : j <= i
        <5>1. \A j \in Upto(c, n - 1) : j \in Nat
          BY <1>0 DEF Upto
        <5> QED
          BY <1>0, <4>2, <4>3, <5>1
      <4>5. LastOne(i, n - 1)
        BY <4>3, <4>4 DEF LastOne
      <4>6. /\ w.expected[c] = log[i].seq + 1 /\ log[i].seq \in Nat
            /\ c \in w.booted <=>
                 \E b \in DOMAIN log : i < b /\ b <= n - 1 /\ log[b].kind = "hub.boot"
        BY <1>0, <1>1, <4>3, <4>5
      <4>7. fits <=> s = log[i].seq + 1
        <5>1. w.expected[c] # 0
          BY <4>6
        <5> QED
          BY <4>6, <5>1
      <4>8. log[i].seq >= 1
        <5>1. Steady(i)
          BY <4>3 DEF BootInv, GapInv
        <5>2. log[i].seq = 1 \/ \E j \in InBoot(i) : log[j].seq + 1 = log[i].seq
          BY <5>1 DEF Steady
        <5>3. \A j \in InBoot(i) : log[j].seq \in Nat
          BY <1>0 DEF InBoot
        <5> QED
          BY <4>6, <5>2, <5>3
      <4> DEFINE passed == \E b \in DOMAIN log : i < b /\ b <= n - 1 /\ log[b].kind = "hub.boot"
      <4>9. \/ /\ s \in {log[i].seq, log[i].seq + 1}
               /\ n \in Repeats <=> s = log[i].seq
               /\ n \notin Renewals /\ ~passed
            \/ s = 1 /\ n \notin Repeats /\ n \in Renewals /\ passed
        BY <1>5, <4>3, <4>4, <4>5, Neighbours
      <4>10. c \in w.booted <=> passed
        BY <4>6
      <4> HIDE DEF passed, c
      <4> HIDE DEF fits
      <4>11. /\ ~(fits \/ restart) <=> n \in Repeats
             /\ restart <=> n \in Renewals
        <5> HIDE DEF s
        <5>1. log[i].seq \in Nat /\ log[i].seq >= 1
          BY <4>6, <4>8
        <5> QED
          BY <5>1, <4>7, <4>9, <4>10
      <4> HIDE DEF restart
      <4> QED
        BY <4>11
    <3> QED
      BY <3>1, <3>2
  <2>10. /\ gaps = Cardinality(Repeats \cap (1 .. n))
         /\ restarts = Cardinality(Renewals \cap (1 .. n))
    <3>1. ASSUME NEW S, NEW x, NEW y, y = Cardinality(S \cap (1 .. n - 1)),
                 x = y + (IF n \in S THEN 1 ELSE 0), y \in Nat
          PROVE  x = Cardinality(S \cap (1 .. n))
      BY <1>0, <3>1, CountOn
    <3> HIDE DEF gaps, restarts
    <3> QED
      BY <1>1, <1>2, <2>9, <3>1
  <2>11. v.gaps = gaps /\ v.restarts = restarts /\ v.expected = expected /\ v.booted = booted
    OBVIOUS
  <2> HIDE DEF v, gaps, restarts, expected, booted
  <2>12. Tells(v, n)
    BY <2>3, <2>7, <2>8, <2>10, <2>11 DEF Tells
  <2> QED
    BY <2>1, <2>12
<1>6. CASE log[n].kind # "hub.boot" /\ n \notin Persisted
  <2>1. K!Pass(w, Events[n]) = w
    <3>1. log[n].kind # "envelope.persisted"
      BY <1>0, <1>6 DEF Persisted
    <3>2. log[n].kind \notin K!BootKinds /\ log[n].kind # "territory.transfer.received"
      BY <1>0, <1>6 DEF Kinds, K!BootKinds
    <3>3. /\ KindOf(log[n].kind) # "envelope.persisted"
          /\ KindOf(log[n].kind) \notin K!BootKinds
          /\ KindOf(log[n].kind) # "territory.transfer.received"
      BY <3>1, <3>2 DEF KindOf, K!BootKinds
    <3>4. Events[n].kind = KindOf(log[n].kind)
      BY <1>0
    <3> QED
      BY <3>3, <3>4 DEF K!Pass
  <2>2. \A b \in DOMAIN log : log[b].kind = "hub.boot" => (b <= n <=> b <= n - 1)
    <3>1. \A b \in DOMAIN log : log[b].kind = "hub.boot" => b # n /\ b \in Nat
      BY <1>0, <1>6
    <3> QED
      BY <1>0, <3>1
  <2>3. Tells(w, n)
    BY <1>1, <1>3, <1>6, <2>2 DEF Tells
  <2> QED
    BY <2>1, <2>3
<1> QED
  BY <1>4, <1>5, <1>6

\* The walk over the first n entries, as compute_kpis makes it.
Walking(g, n) ==
  /\ g \in [0 .. n -> Walks] /\ g[0] = K!Departure(Ctx)
  /\ \A i \in 1 .. n : g[i] = K!Pass(g[i - 1], Events[i])

\* It departs knowing nothing,
LEMMA WalkDeparts ==
  ASSUME BootInv
  PROVE  Tells(K!Departure(Ctx), 0)
<1>1. K!Departure(Ctx) = [gaps |-> 0, restarts |-> 0, expected |-> [c \in Ctx |-> 0], booted |-> {}]
  BY DEF K!Departure
<1>2. K!Departure(Ctx) \in Walks
  BY <1>1 DEF Walks
<1>3. Cardinality(Repeats \cap (1 .. 0)) = 0 /\ Cardinality(Renewals \cap (1 .. 0)) = 0
  <2>1. Repeats \cap (1 .. 0) = {} /\ Renewals \cap (1 .. 0) = {}
    OBVIOUS
  <2> QED
    BY <2>1, FS_EmptySet
<1>4. \A i \in Persisted : ~LastOne(i, 0)
  <2>1. \A i \in Persisted : i \in 1 .. Len(log)
    BY EventsRead
  <2>2. \A i \in Persisted : ~(i <= 0)
    BY <2>1, EventsRead
  <2> QED
    BY <2>2 DEF LastOne
<1> QED
  BY <1>1, <1>2, <1>3, <1>4 DEF Tells

\* goes on by an entry,
LEMMA WalkGoesOn ==
  ASSUME BootInv, NEW n \in 1 .. Len(log), NEW g, Walking(g, n - 1), Tells(g[n - 1], n - 1)
  PROVE  \E h : Walking(h, n) /\ Tells(h[n], n)
<1>0. n \in Nat /\ n - 1 \in 0 .. n - 1 /\ n \in 0 .. n
  BY EventsRead
<1> DEFINE x == K!Pass(g[n - 1], Events[n])
           h == [i \in 0 .. n |-> IF i = n THEN x ELSE g[i]]
<1>1. Tells(x, n)
  BY WalkStep
<1>2. g \in [0 .. n - 1 -> Walks] /\ g[0] = K!Departure(Ctx)
  BY DEF Walking
<1>3. x \in Walks
  BY <1>1 DEF Tells
<1> HIDE DEF x
<1>4. h \in [0 .. n -> Walks]
  BY <1>0, <1>2, <1>3
<1>5. h[n] = x /\ \A i \in 0 .. n - 1 : h[i] = g[i]
  BY <1>0
<1> HIDE DEF h
<1>6. h[0] = K!Departure(Ctx)
  BY <1>0, <1>2, <1>5
<1>7. ASSUME NEW i \in 1 .. n PROVE h[i] = K!Pass(h[i - 1], Events[i])
  <2>1. i - 1 \in 0 .. n - 1 /\ h[i - 1] = g[i - 1]
    BY <1>0, <1>5
  <2>2. CASE i = n
    BY <1>5, <2>1, <2>2 DEF x
  <2>3. CASE i # n
    <3>1. i \in 1 .. n - 1 /\ i \in 0 .. n - 1
      BY <1>0, <2>3
    <3>2. g[i] = K!Pass(g[i - 1], Events[i])
      BY <3>1 DEF Walking
    <3> QED
      BY <1>5, <2>1, <3>1, <3>2
  <2> QED
    BY <2>2, <2>3
<1>8. Walking(h, n) /\ Tells(h[n], n)
  BY <1>1, <1>4, <1>5, <1>6, <1>7 DEF Walking
<1> QED
  BY <1>8

\* and so comes to the end of the log.
LEMMA CanWalk ==
  ASSUME BootInv
  PROVE  \E g : Walking(g, Len(log))
<1> DEFINE Good(n) == \E g : Walking(g, n) /\ Tells(g[n], n)
           S == {n \in 1 .. Len(log) : ~Good(n)}
<1>1. Len(log) \in Nat
  BY EventsRead
<1>2. Good(0)
  <2> DEFINE g == [i \in 0 .. 0 |-> K!Departure(Ctx)]
  <2>1. Tells(K!Departure(Ctx), 0)
    BY WalkDeparts
  <2>2. K!Departure(Ctx) \in Walks
    BY <2>1 DEF Tells
  <2>3. g \in [0 .. 0 -> Walks] /\ g[0] = K!Departure(Ctx)
    BY <2>2
  <2>4. \A i \in 1 .. 0 : FALSE
    OBVIOUS
  <2> HIDE DEF g
  <2> QED
    BY <2>1, <2>3, <2>4 DEF Walking
<1>3. S = {}
  <2> SUFFICES ASSUME S # {} PROVE FALSE
    OBVIOUS
  <2>1. PICK n \in S : \A k \in S : n <= k
    BY <1>1, LeastOf
  <2>2. n \in 1 .. Len(log) /\ ~Good(n) /\ n - 1 \in 0 .. Len(log) /\ n - 1 \notin S
    BY <1>1, <2>1
  <2>3. Good(n - 1)
    <3>1. CASE n = 1
      BY <1>2, <3>1
    <3>2. CASE n # 1
      BY <1>1, <2>2, <3>2
    <3> QED
      BY <3>1, <3>2
  <2>4. Good(n)
    BY <2>2, <2>3, WalkGoesOn
  <2> QED
    BY <2>2, <2>4
<1>4. Good(Len(log))
  <2>1. CASE Len(log) = 0
    BY <1>2, <2>1
  <2>2. CASE Len(log) # 0
    <3>1. Len(log) \in 1 .. Len(log) /\ Len(log) \notin S
      BY <1>1, <1>3, <2>2
    <3> HIDE DEF Good
    <3> QED
      BY <3>1
  <2> QED
    BY <2>1, <2>2
<1> QED
  BY <1>4

\* What compute_kpis reads is what such a walk ends with,
LEMMA WalkRead ==
  ASSUME BootInv
  PROVE  \E g : /\ g = [n \in 0 .. Len(log) |->
                          IF n = 0 THEN K!Departure(Ctx) ELSE K!Pass(g[n - 1], Events[n])]
                /\ K!Walk(Events, Ctx) = g[Len(log)]
<1> DEFINE F(g) == [n \in 0 .. Len(log) |->
                      IF n = 0 THEN K!Departure(Ctx) ELSE K!Pass(g[n - 1], Events[n])]
<1>1. Len(log) \in Nat /\ Len(Events) = Len(log)
  BY EventsRead
<1>2. \E g : g = F(g)
  <2>1. PICK g : Walking(g, Len(log))
    BY CanWalk
  <2>2. g = [n \in 0 .. Len(log) |-> g[n]]
    BY <2>1 DEF Walking
  <2>3. \A n \in 0 .. Len(log) : g[n] = IF n = 0 THEN K!Departure(Ctx) ELSE K!Pass(g[n - 1], Events[n])
    BY <1>1, <2>1 DEF Walking
  <2> QED
    BY <2>2, <2>3
<1>3. K!Walk(Events, Ctx) = (CHOOSE g : g = F(g))[Len(log)]
  BY <1>1 DEF K!Walk
<1> DEFINE h == CHOOSE g : g = F(g)
<1>4. h = F(h)
  <2> HIDE DEF F
  <2> QED
    BY <1>2
<1>5. K!Walk(Events, Ctx) = h[Len(log)]
  BY <1>3
<1> HIDE DEF h
<1> QED
  BY <1>4, <1>5

\* which tells how many numbers the log repeats and renews.
LEMMA WalkTells ==
  ASSUME BootInv
  PROVE  Tells(K!Walk(Events, Ctx), Len(log))
<1>1. Len(log) \in Nat
  BY EventsRead
<1>2. PICK g : /\ g = [n \in 0 .. Len(log) |->
                         IF n = 0 THEN K!Departure(Ctx) ELSE K!Pass(g[n - 1], Events[n])]
               /\ K!Walk(Events, Ctx) = g[Len(log)]
  BY WalkRead
<1>3. /\ g[0] = K!Departure(Ctx)
      /\ \A n \in 1 .. Len(log) : g[n] = K!Pass(g[n - 1], Events[n])
  BY <1>1, <1>2
<1> DEFINE S == {n \in 1 .. Len(log) : ~Tells(g[n], n)}
<1>4. Tells(g[0], 0)
  BY <1>3, WalkDeparts
<1>5. S = {}
  <2> SUFFICES ASSUME S # {} PROVE FALSE
    OBVIOUS
  <2>1. PICK n \in S : \A k \in S : n <= k
    BY <1>1, LeastOf
  <2>2. n \in 1 .. Len(log) /\ ~Tells(g[n], n) /\ n - 1 \in 0 .. Len(log) /\ n - 1 \notin S
    BY <1>1, <2>1
  <2>3. Tells(g[n - 1], n - 1)
    <3>1. CASE n = 1
      <4>1. n - 1 = 0
        BY <3>1
      <4> QED
        BY <1>4, <4>1
    <3>2. CASE n # 1
      BY <1>1, <2>2, <3>2
    <3> QED
      BY <3>1, <3>2
  <2> QED
    BY <1>3, <2>2, <2>3, WalkStep
<1>6. Tells(g[Len(log)], Len(log))
  BY <1>1, <1>4, <1>5
<1> QED
  BY <1>2, <1>6

\* so that the sequence KPI is right,
LEMMA SequenceTells ==
  ASSUME BootInv
  PROVE  SequenceKpiTrue
<1> DEFINE w == K!Walk(Events, Ctx)
<1>1. Tells(w, Len(log))
  BY WalkTells
<1>2. Repeats \cap (1 .. Len(log)) = Repeats /\ Renewals \cap (1 .. Len(log)) = Renewals
  <2>1. Persisted \subseteq 1 .. Len(log)
    BY EventsRead
  <2> QED
    BY <2>1 DEF Repeats, Renewals
<1>3. ASSUME NEW i \in Persisted
      PROVE  /\ Earlier(i) = {j \in Persisted : j < i /\ CtxOf(j) = CtxOf(i)}
             /\ SameBoot(i) = InBoot(i)
  <2>1. Len(log) \in Nat /\ DOMAIN log = 1 .. Len(log) /\ i \in 1 .. Len(log)
    BY <1>3, EventsRead
  <2>2. \A j : j \in 1 .. i - 1 <=> j \in 1 .. Len(log) /\ j < i
    BY <2>1
  <2>3. Earlier(i) = {j \in Persisted : j < i /\ CtxOf(j) = CtxOf(i)}
    BY <2>1, <2>2 DEF Earlier, Persisted, CtxOf
  <2> QED
    BY <2>3 DEF SameBoot, InBoot
<1>4. Repeats = {i \in Persisted : \E j \in SameBoot(i) : log[j].seq = log[i].seq}
  BY <1>3 DEF Repeats
<1>5. Renewals = {i \in Persisted : Earlier(i) # {} /\ SameBoot(i) = {}}
  <2>1. \A i \in Persisted : Earlier(i) # {} <=> \E j \in Persisted : j < i /\ CtxOf(j) = CtxOf(i)
    BY <1>3
  <2> QED
    BY <1>3, <2>1 DEF Renewals
<1>6. /\ w.gaps = Cardinality(Repeats) /\ w.restarts = Cardinality(Renewals)
  BY <1>1, <1>2 DEF Tells
<1> HIDE DEF w
<1> QED
  BY <1>4, <1>5, <1>6 DEF SequenceKpiTrue, Persisted, w

\* The sequence KPI is true of every log a hub leaves (kpi.py:101-111): its gaps
\* are the numbers a failing append made the hub use twice within one boot, its
\* restarts the contexts a later boot numbered anew.
THEOREM SequenceKpiCorrect == Spec => []SequenceKpiTrue
  BY BootInit, BootNext, SequenceTells, PTL DEF Spec

----------------------------------------------------------------------------
(* What the gate on the KPIs finds *)

\* An envelope persisted and acked in one boot was persisted first, as often as
\* a failing append made the hub try.
AckedLast ==
  \A i, j \in DOMAIN log :
    log[i].kind = "ack" /\ log[j].kind = "envelope.persisted" =>
      (log[i].env = log[j].env /\ log[i].boot = log[j].boot => j < i)

AckInv == BootInv /\ AckedLast

\* Every step keeps the acks of a boot behind its persists,
LEMMA AckNext == AckInv /\ [Next]_vars => AckInv'
<1> SUFFICES ASSUME AckInv, [Next]_vars PROVE AckInv'
  OBVIOUS
<1>0. TypeOK /\ IInv /\ BootInv'
  BY BootNext DEF AckInv, BootInv, GapInv, IInv
<1>1. /\ Len(log) \in Nat /\ DOMAIN log = 1 .. Len(log) /\ DOMAIN log' = 1 .. Len(log')
      /\ Len(log') \in {Len(log), Len(log) + 1}
      /\ \A i \in DOMAIN log : log'[i] = log[i]
  BY <1>0, LogStep
<1>a. /\ DOMAIN log \subseteq DOMAIN log'
      /\ \A i \in DOMAIN log' : i \notin DOMAIN log => i = Len(log) + 1
      /\ \A j \in DOMAIN log : j < Len(log) + 1
  <2> DEFINE n == Len(log)
             m == Len(log')
  <2>1. n \in Nat /\ m \in {n, n + 1}
    BY <1>1
  <2> HIDE DEF n, m
  <2>2. /\ 1 .. n \subseteq 1 .. m
        /\ \A i \in 1 .. m : i \notin 1 .. n => i = n + 1
        /\ \A j \in 1 .. n : j < n + 1
    BY <2>1
  <2> QED
    BY <1>1, <2>2 DEF n, m
<1>2. ASSUME NEW j \in DOMAIN log', j \notin DOMAIN log, log'[j].kind = "envelope.persisted"
      PROVE  \A i \in DOMAIN log : log[i].kind = "ack" /\ log[i].env = log'[j].env => log[i].boot # log'[j].boot
  <2>1. ~(Pushes \/ Settles \/ Restart)
    BY <1>0, <1>2, OtherEntry
  <2>2. PICK k \in Kinds \cup {"none"}, q \in Steps \cup {"return"} : Moves(k, q)
    BY <1>0, <2>1, NextSteps
  <2>3. k = "envelope.persisted" /\ log'[j].env = Top.env /\ log'[j].boot = boots
    BY <1>0, <1>2, <2>2, NewEntry
  <2>4. Top.pc = "persist"
    BY <2>2, <2>3, Ways
  <2>5. FrameInv(Top) /\ Top.env \in Envelope
    BY <1>0, <2>2, MovesTop DEF IInv
  <2>6. Top.env \notin seen
    BY <2>4, <2>5 DEF FrameInv, Pre
  <2>7. Unsettled(Top.env)
    BY <1>0, <2>5, <2>6 DEF IInv, SeenInv
  <2> QED
    BY <2>3, <2>7 DEF Unsettled
<1>3. AckedLast'
  <2> SUFFICES ASSUME NEW i \in DOMAIN log', NEW j \in DOMAIN log',
                      log'[i].kind = "ack", log'[j].kind = "envelope.persisted",
                      log'[i].env = log'[j].env, log'[i].boot = log'[j].boot
               PROVE  j < i
    BY DEF AckedLast
  <2>1. CASE i \in DOMAIN log /\ j \in DOMAIN log
    BY <1>1, <2>1 DEF AckInv, AckedLast
  <2>2. CASE i \in DOMAIN log /\ j \notin DOMAIN log
    BY <1>1, <1>2, <2>2
  <2>3. CASE i \notin DOMAIN log /\ j \in DOMAIN log
    BY <1>a, <2>3
  <2>4. CASE i \notin DOMAIN log /\ j \notin DOMAIN log
    <3>1. i = j
      BY <1>a, <2>4
    <3> QED
      BY <3>1
  <2> QED
    BY <2>1, <2>2, <2>3, <2>4
<1> QED
  BY <1>0, <1>3 DEF AckInv

\* and there are none at first.
LEMMA AckInit == Init => AckInv
<1> SUFFICES ASSUME Init PROVE AckInv
  OBVIOUS
<1>1. DOMAIN log = {1} /\ log[1].kind = "hub.boot" /\ log[1].boot = 1
  BY DEF Init
<1> QED
  BY <1>1, BootInit DEF AckInv, AckedLast

\* What the KPIs read of an envelope.
LEMMA EnvRead ==
  ASSUME TypeOK
  PROVE  /\ Len(log) \in Nat /\ DOMAIN log = 1 .. Len(log) /\ DOMAIN Events = DOMAIN log
         /\ \A i \in DOMAIN log :
              /\ Events[i].kind = KindOf(log[i].kind) /\ Events[i].ts = i
              /\ Events[i].env = (IF log[i].kind = "key.violation" THEN "key" ELSE log[i].env)
              /\ Events[i].passed = (log[i].kind # "selfcheck.failed")
<1>1. log \in Seq(LogEntry)
  BY DEF TypeOK
<1>2. ASSUME NEW i \in DOMAIN log
      PROVE  /\ Events[i].kind = KindOf(log[i].kind) /\ Events[i].ts = i
             /\ Events[i].env = (IF log[i].kind = "key.violation" THEN "key" ELSE log[i].env)
             /\ Events[i].passed = (log[i].kind # "selfcheck.failed")
  <2>1. PICK k, x, e : /\ k = KindOf(log[i].kind)
                       /\ e = IF log[i].kind = "key.violation" THEN "key" ELSE log[i].env
                       /\ Events[i] = [kind |-> k, ts |-> i, env |-> e, seq |-> log[i].seq,
                                       passed |-> log[i].kind # "selfcheck.failed", ctx |-> x]
    BY DEF Events
  <2> QED
    BY <2>1
<1>3. DOMAIN Events = DOMAIN log
  BY DEF Events
<1> QED
  BY <1>1, <1>2, <1>3

\* The entries the gate looks at.
LEMMA KindsRead ==
  ASSUME TypeOK
  PROVE  /\ \A kind \in {"ack", "envelope.persisted"} :
              K!Of(kind, Events) = {i \in DOMAIN log : log[i].kind = kind}
         /\ \A a \in K!Of("ack", Events) : Events[a].env = log[a].env
         /\ K!Held(Events) = {i \in DOMAIN log : log[i].kind = "selfcheck.failed"}
         /\ \A i \in K!Of("integrity.violation", Events) :
              /\ i \in DOMAIN log
              /\ Events[i].env = "key" \/ (log[i].kind = "integrity.violation" /\ Events[i].env = log[i].env)
<1>1. DOMAIN Events = DOMAIN log
  BY EnvRead
<1>2. \A i \in DOMAIN log : \A kind \in {"ack", "envelope.persisted"} :
        Events[i].kind = kind <=> log[i].kind = kind
  BY EnvRead DEF KindOf
<1>3. \A i \in DOMAIN log : Events[i].kind = "selfcheck.verdict" /\ ~Events[i].passed
                              <=> log[i].kind = "selfcheck.failed"
  BY EnvRead DEF KindOf
<1>4. ASSUME NEW i \in DOMAIN log, Events[i].kind = "integrity.violation"
      PROVE  Events[i].env = "key" \/ (log[i].kind = "integrity.violation" /\ Events[i].env = log[i].env)
  BY <1>4, EnvRead DEF KindOf
<1>5. \A i \in DOMAIN log : log[i].kind = "ack" => Events[i].env = log[i].env
  BY EnvRead
<1> QED
  BY <1>1, <1>2, <1>3, <1>4, <1>5 DEF K!Of, K!Held

\* The persists of an acked envelope.
LEMMA PersistsRead ==
  ASSUME TypeOK, NEW a \in K!Of("ack", Events)
  PROVE  K!PersistsOf(Events[a].env, Events)
           = {p \in DOMAIN log : log[p].kind = "envelope.persisted" /\ log[p].env = log[a].env}
<1>1. \A p \in DOMAIN log : log[p].kind = "envelope.persisted" => Events[p].env = log[p].env
  BY EnvRead
<1> QED
  BY <1>1, KindsRead DEF K!PersistsOf

\* An ack whose envelope no later boot persisted again is backed,
LEMMA IncidentsAre ==
  ASSUME AckInv
  PROVE  \A a \in K!Of("ack", Events) \ K!Backed(Events) : Redelivered(a)
<1> SUFFICES ASSUME NEW a \in K!Of("ack", Events), ~Redelivered(a) PROVE a \in K!Backed(Events)
  OBVIOUS
<1>0. TypeOK /\ AckIsFact /\ BootInv
  BY DEF AckInv, BootInv, GapInv, IInv
<1>1. /\ Len(log) \in Nat /\ DOMAIN log = 1 .. Len(log) /\ DOMAIN Events = DOMAIN log
      /\ \A i \in DOMAIN log : log[i].boot \in Nat /\ Events[i].ts = i
  <2>1. \A i \in DOMAIN log : log[i] \in LogEntry
    BY <1>0 DEF TypeOK
  <2>2. \A i \in DOMAIN log : log[i].boot \in Nat
    BY <2>1 DEF LogEntry
  <2> QED
    BY <1>0, <2>2, EnvRead
<1>2. a \in DOMAIN log /\ log[a].kind = "ack"
  BY <1>0, KindsRead
<1> DEFINE P == K!PersistsOf(Events[a].env, Events)
<1>3. P = {p \in DOMAIN log : log[p].kind = "envelope.persisted" /\ log[p].env = log[a].env}
  BY <1>0, PersistsRead
<1>4. \A p \in P : p \in Nat /\ p < a
  <2> SUFFICES ASSUME NEW p \in P PROVE p \in Nat /\ p < a
    OBVIOUS
  <2>1. p \in DOMAIN log /\ log[p].kind = "envelope.persisted" /\ log[p].env = log[a].env
    BY <1>3
  <2>2. ~(log[p].boot > log[a].boot)
    BY <2>1 DEF Redelivered
  <2>3. CASE log[p].boot = log[a].boot
    BY <1>1, <1>2, <2>1, <2>3 DEF AckInv, AckedLast
  <2>4. CASE log[p].boot < log[a].boot
    <3>1. a <= p => log[a].boot <= log[p].boot
      BY <1>0, <1>2, <2>1 DEF BootInv
    <3> QED
      BY <1>1, <1>2, <2>1, <2>4, <3>1
  <2> QED
    BY <1>1, <1>2, <2>1, <2>2, <2>3, <2>4
<1>5. P # {}
  <2>1. PICK p : p \in Before(a, "envelope.persisted")
    BY <1>0, <1>2 DEF AckIsFact
  <2>2. p \in 1 .. a - 1 /\ log[p].kind = "envelope.persisted" /\ log[p].env = log[a].env
    BY <2>1 DEF Before
  <2>3. p \in DOMAIN log
    BY <1>1, <1>2, <2>2
  <2> QED
    BY <1>3, <2>2, <2>3
<1> HIDE DEF P
<1>6. PICK p \in P : \A q \in P : q <= p
  <2>1. P \subseteq 1 .. a /\ a \in Nat
    BY <1>1, <1>2, <1>4, <1>3
  <2> QED
    BY <1>5, <2>1, GreatestOf
<1>7. Events[p].ts <= Events[a].ts
  BY <1>1, <1>2, <1>3, <1>4, <1>6
<1> QED
  BY <1>6, <1>7 DEF K!Backed, P

\* and one whose envelope a later boot did persist again is not.
LEMMA RedeliveredAre ==
  ASSUME AckInv
  PROVE  \A a \in K!Backed(Events) : ~Redelivered(a)
<1> SUFFICES ASSUME NEW a \in K!Backed(Events), Redelivered(a) PROVE FALSE
  OBVIOUS
<1>0. TypeOK /\ BootInv
  BY DEF AckInv, BootInv, GapInv, IInv
<1>1. /\ Len(log) \in Nat /\ DOMAIN log = 1 .. Len(log)
      /\ \A i \in DOMAIN log : log[i].boot \in Nat /\ Events[i].ts = i
  <2>1. \A i \in DOMAIN log : log[i] \in LogEntry
    BY <1>0 DEF TypeOK
  <2>2. \A i \in DOMAIN log : log[i].boot \in Nat
    BY <2>1 DEF LogEntry
  <2> QED
    BY <1>0, <2>2, EnvRead
<1>2. a \in K!Of("ack", Events) /\ a \in DOMAIN log
  BY <1>0, KindsRead DEF K!Backed
<1>3. PICK q \in K!PersistsOf(Events[a].env, Events) :
        /\ \A p \in K!PersistsOf(Events[a].env, Events) : p <= q
        /\ Events[q].ts <= Events[a].ts
  BY DEF K!Backed
<1>4. PICK p \in DOMAIN log : /\ log[p].kind = "envelope.persisted" /\ log[p].env = log[a].env
                              /\ log[p].boot > log[a].boot
  BY DEF Redelivered
<1>5. p \in K!PersistsOf(Events[a].env, Events) /\ q \in DOMAIN log
  BY <1>0, <1>2, <1>3, <1>4, PersistsRead
<1>6. p <= q /\ q <= a
  BY <1>1, <1>2, <1>3, <1>5
<1>7. log[p].boot <= log[a].boot
  <2>1. p <= a
    BY <1>1, <1>2, <1>4, <1>5, <1>6
  <2> QED
    BY <1>0, <1>2, <1>4, <2>1 DEF BootInv
<1> QED
  BY <1>1, <1>2, <1>4, <1>7

\* An incident of the ack integrity KPI (kpi.py:83-90) is never an ack without a
\* persist before it: it is an ack whose envelope a later boot persisted again.
THEOREM IncidentsCorrect ==
  Spec => [](\A a \in K!Of("ack", Events) \ K!Backed(Events) : Redelivered(a))
  BY AckInit, AckNext, IncidentsAre, PTL DEF Spec

\* Kpi counts as FiniteSets does.
LEMMA CountsAlike == \A S : K!Cardinality(S) = Cardinality(S)
  BY DEF K!Cardinality, Cardinality

\* What the gate finds, when nothing was planted.
Found == K!GateViolations(Events, Ctx, 0, 0)

\* The first finding,
LEMMA AckTells ==
  ASSUME AckInv
  PROVE  "ack integrity" \in Found <=> \E a \in DOMAIN log : log[a].kind = "ack" /\ Redelivered(a)
<1> DEFINE A == K!Of("ack", Events)
           B == K!Backed(Events)
<1>0. TypeOK /\ A = {a \in DOMAIN log : log[a].kind = "ack"} /\ DOMAIN log = 1 .. Len(log) /\ Len(log) \in Nat
  BY KindsRead, EnvRead DEF AckInv, BootInv, GapInv, IInv
<1>1. B \in SUBSET A
  BY DEF K!Backed
<1>2. IsFiniteSet(A)
  <2>1. A \subseteq 1 .. Len(log) /\ IsFiniteSet(1 .. Len(log))
    BY <1>0, FS_Interval
  <2> QED
    BY <2>1, FS_Subset
<1>3. K!IntegrityIncidents(Events) = Cardinality(A) - Cardinality(B)
  BY CountsAlike DEF K!IntegrityIncidents
<1>4. (\E a \in DOMAIN log : log[a].kind = "ack" /\ Redelivered(a)) <=> A # B
  <2>1. \A a \in A : Redelivered(a) <=> a \notin B
    BY IncidentsAre, RedeliveredAre
  <2> QED
    BY <1>0, <1>1, <2>1
<1>5. "ack integrity" \in Found <=> K!IntegrityIncidents(Events) # 0
  BY DEF Found, K!GateViolations
<1> HIDE DEF A, B
<1>6. Cardinality(A) - Cardinality(B) # 0 <=> A # B
  <2>1. /\ IsFiniteSet(B) /\ Cardinality(A) \in Nat /\ Cardinality(B) \in Nat
        /\ Cardinality(A) = Cardinality(B) => A = B
    BY <1>1, <1>2, FS_Subset, FS_CardinalityType
  <2>2. Cardinality(A) - Cardinality(B) # 0 <=> Cardinality(A) # Cardinality(B)
    BY <2>1
  <2> QED
    BY <2>1, <2>2
<1> QED
  BY <1>3, <1>4, <1>5, <1>6

\* the second,
LEMMA GapTells ==
  ASSUME BootInv
  PROVE  "sequence gaps" \in Found <=>
           \E i \in DOMAIN log : /\ log[i].kind = "envelope.persisted"
                                /\ \E j \in SameBoot(i) : log[j].seq = log[i].seq
<1> DEFINE P == {i \in DOMAIN log : log[i].kind = "envelope.persisted"}
           R == {i \in P : \E j \in SameBoot(i) : log[j].seq = log[i].seq}
<1>1. K!Walk(Events, Ctx).gaps = Cardinality(R)
  BY SequenceTells DEF SequenceKpiTrue
<1>2. IsFiniteSet(R)
  <2>1. DOMAIN log = 1 .. Len(log) /\ Len(log) \in Nat
    BY EnvRead DEF BootInv, GapInv, IInv
  <2>2. IsFiniteSet(1 .. Len(log))
    BY <2>1, FS_Interval
  <2>3. R \subseteq 1 .. Len(log)
    BY <2>1
  <2> QED
    BY <2>2, <2>3, FS_Subset
<1>3. Cardinality(R) = 0 <=> R = {}
  BY <1>2, FS_EmptySet
<1>4. "sequence gaps" \in Found <=> K!Walk(Events, Ctx).gaps # 0
  BY DEF Found, K!GateViolations
<1> QED
  BY <1>1, <1>3, <1>4

\* A forgery is of an authority envelope.
Forging == {"forgery", "forged_page", "forged"}
ForgedInv ==
  /\ AuthInv
  /\ \A k \in 1 .. Len(stack) : stack[k].pc \in Forging => Authority(stack[k].env)
  /\ \A i \in DOMAIN log : log[i].kind = "integrity.violation" => Authority(log[i].env)

\* No step forges another,
LEMMA ForgedNext == ForgedInv /\ [Next]_vars => ForgedInv'
<1> SUFFICES ASSUME ForgedInv, [Next]_vars PROVE ForgedInv'
  OBVIOUS
<1>0. TypeOK /\ Nesting /\ AuthInv'
  BY AuthNext DEF ForgedInv, AuthInv, IInv
<1>1. ASSUME NEW k, NEW q, Moves(k, q) PROVE ForgedInv'
  <2>1. Top.pc \in Forging => Authority(Top.env)
    BY <1>0, <1>1, MovesTop DEF ForgedInv
  <2>2. q \in Forging => Authority(Top.env)
    <3>1. q \in Forging => q = "forgery" \/ Top.pc \in Forging
      BY <1>1 DEF Moves, Way, Edge, Edges, PageEdges, Forging, Steps
    <3>2. q = "forgery" => Authority(Top.env)
      BY <1>1 DEF Moves, Asked
    <3> QED
      BY <2>1, <3>1, <3>2
  <2>3. k = "integrity.violation" => Top.pc \in Forging
    BY <1>1, ConfigAssumption DEF Moves, Way, Edge, Edges, PageEdges, Forging
  <2>4. ASSUME NEW j \in 1 .. Len(stack'), stack'[j].pc \in Forging PROVE Authority(stack'[j].env)
    <3>1. \/ j \in 1 .. Len(stack) - 1 /\ stack'[j] = stack[j] /\ j \in 1 .. Len(stack)
          \/ stack'[j].pc = q /\ stack'[j].env = Top.env
      BY <1>0, <1>1, StackAfter
    <3> QED
      BY <2>2, <2>4, <3>1 DEF ForgedInv
  <2>5. ASSUME NEW i \in DOMAIN log', log'[i].kind = "integrity.violation" PROVE Authority(log'[i].env)
    <3>1. CASE i \in DOMAIN log
      <4>1. log'[i] = log[i]
        BY <1>0, <1>1, <3>1, MovesLog
      <4> QED
        BY <2>5, <3>1, <4>1 DEF ForgedInv
    <3>2. CASE i \notin DOMAIN log
      <4>1. log'[i].kind = k /\ log'[i].env = Top.env
        BY <1>0, <1>1, <3>2, NewEntry
      <4> QED
        BY <2>1, <2>3, <2>5, <4>1
    <3> QED
      BY <3>1, <3>2
  <2> QED
    BY <1>0, <2>4, <2>5 DEF ForgedInv
<1>2. CASE Pushes \/ Settles \/ Restart
  <2>1. ASSUME NEW j \in 1 .. Len(stack'), stack'[j].pc \in Forging PROVE Authority(stack'[j].env)
    <3>1. CASE Restart
      BY <3>1, <2>1 DEF Restart
    <3>2. CASE Pushes \/ Settles
      <4>1. \/ j \in 1 .. Len(stack) /\ stack'[j] = stack[j]
            \/ stack'[j].pc \in Operations
        BY <1>0, <3>2, StackElsewhere
      <4> QED
        BY <2>1, <4>1 DEF ForgedInv, Operations, Forging
    <3> QED
      BY <1>2, <3>1, <3>2
  <2>2. ASSUME NEW i \in DOMAIN log', log'[i].kind = "integrity.violation" PROVE Authority(log'[i].env)
    <3>1. i \in DOMAIN log => log'[i] = log[i]
      BY <1>0, LogStep
    <3>2. i \notin DOMAIN log => log'[i].kind \in {"signer.armed", "hub.boot"}
      BY <1>0, <1>2, OtherEntry
    <3> QED
      BY <2>2, <3>1, <3>2 DEF ForgedInv
  <2> QED
    BY <1>0, <2>1, <2>2 DEF ForgedInv
<1> QED
  BY <1>0, <1>1, <1>2, NextSteps

\* and there is none at first.
LEMMA ForgedInit == Init => ForgedInv
<1> SUFFICES ASSUME Init PROVE ForgedInv
  OBVIOUS
<1>1. DOMAIN log = {1} /\ log[1].kind = "hub.boot" /\ Len(stack) = 0 /\ armed = BootArmed
  BY DEF Init
<1>2. AuthInv
  BY <1>1, InitInv DEF AuthInv, AuthEntry
<1> QED
  BY <1>1, <1>2 DEF ForgedInv

\* The third finding: an envelope once flagged was acked only after its signer
\* was verified.
LEMMA AuthTells ==
  ASSUME ForgedInv, BootInv
  PROVE  \A a \in K!Flagged(Events) :
           Before(a, "signer.verified") # {} \/ (~BootArmed /\ Before(a, "signer.unarmed") # {})
<1> SUFFICES ASSUME NEW a \in K!Flagged(Events)
             PROVE  Before(a, "signer.verified") # {} \/ (~BootArmed /\ Before(a, "signer.unarmed") # {})
  OBVIOUS
<1>0. TypeOK /\ AckIsFact /\ \A i \in DOMAIN log : AuthEntry(i)
  BY DEF ForgedInv, AuthInv, IInv
<1>1. /\ a \in K!Of("ack", Events)
      /\ \E i \in K!Of("integrity.violation", Events) : Events[i].env = Events[a].env
  BY DEF K!Flagged
<1>2. a \in DOMAIN log /\ log[a].kind = "ack" /\ Events[a].env = log[a].env
  BY <1>0, <1>1, KindsRead
<1>3. Len(log) \in Nat /\ DOMAIN log = 1 .. Len(log)
  BY <1>0, EnvRead
<1>4. PICK p : p \in Before(a, "envelope.persisted")
  BY <1>0, <1>2 DEF AckIsFact
<1>5. /\ p \in 1 .. a - 1 /\ log[p].kind = "envelope.persisted"
      /\ log[p].env = log[a].env /\ log[p].boot = log[a].boot
  BY <1>4 DEF Before
<1>6. p \in DOMAIN log /\ \A m : Before(p, m) \subseteq Before(a, m)
  <2>1. 1 .. p - 1 \subseteq 1 .. a - 1 /\ p \in 1 .. Len(log)
    BY <1>2, <1>3, <1>5
  <2> QED
    BY <1>3, <1>5, <2>1 DEF Before
<1>7. log[a].env \in Envelope
  BY <1>5, <1>6 DEF BootInv, GapInv, Persisted
<1>8. Authority(log[p].env)
  <2>1. PICK i \in K!Of("integrity.violation", Events) : Events[i].env = log[a].env
    BY <1>1, <1>2
  <2>2. /\ i \in DOMAIN log
        /\ Events[i].env = "key" \/ (log[i].kind = "integrity.violation" /\ Events[i].env = log[i].env)
    BY <1>0, <2>1, KindsRead
  <2>3. log[i].kind = "integrity.violation" /\ log[i].env = log[a].env
    BY <1>7, <2>1, <2>2, KeyIdAssumption
  <2> QED
    BY <1>5, <2>2, <2>3 DEF ForgedInv
<1> QED
  BY <1>0, <1>5, <1>6, <1>8 DEF AuthEntry

\* The envelopes the exit gate held back in this boot.
HeldBack == {e \in Envelope : Now("selfcheck.failed", e) # {}}

\* The envelopes that this boot has seen and neither acked nor buried.
Loose == {e \in seen : Unsettled(e)}

\* A draft held back is in no call's hands that could still ack it.
VerdictInv ==
  /\ IInv
  /\ HeldBack \subseteq seen
  /\ \A k \in 1 .. Len(stack) :
       /\ stack[k].pc \in Live => stack[k].env \notin HeldBack
       /\ stack[k].pc = "failed" => stack[k].env \in Loose
  /\ \A j, k \in 1 .. Len(stack) :
       stack[j].pc = "failed" /\ stack[k].pc \in Live => stack[j].env # stack[k].env
  /\ \A i, a \in DOMAIN log :
       log[i].kind = "selfcheck.failed" /\ log[a].kind = "ack" /\ log[i].env = log[a].env =>
         log[i].boot # log[a].boot

\* No move acks it, or holds back what was acked,
LEMMA VerdictMoves ==
  ASSUME VerdictInv, IInv', NEW k \in Kinds \cup {"none"}, NEW q, Moves(k, q)
  PROVE  VerdictInv'
<1>0. /\ TypeOK /\ Nesting /\ IInv /\ Top.env \in Envelope /\ FrameInv(Top)
      /\ Len(stack) \in 1 .. Len(stack) /\ stack[Len(stack)] = Top
  BY MovesTop DEF VerdictInv, IInv
<1>1. /\ q \in Live => Top.pc \in Live \/ Top.pc = "persist"
      /\ q = "failed" => Top.pc = "selfcheck" /\ k = "none"
      /\ k = "selfcheck.failed" => Top.pc = "failed" /\ q \notin Live
      /\ k = "ack" => Top.pc = "ack"
      /\ "failed" \notin Callbacks /\ "selfcheck" \in Live /\ "ack" \in Live /\ "persist" \in Pre
      /\ {"selfcheck.failed", "ack"} \subseteq Kinds
  BY ConfigAssumption DEF Moves, Way, Edge, Edges, PageEdges, Live, Pending, Pre, Callbacks, Pages, Steps, Kinds
<1>2. boots' = boots /\ seen \subseteq seen'
  BY DEF Moves, Does
<1>3. HeldBack' = IF k = "selfcheck.failed" THEN HeldBack \cup {Top.env} ELSE HeldBack
  <2>1. \A e \in Envelope : e \in HeldBack' <=> e \in HeldBack \/ (k = "selfcheck.failed" /\ e = Top.env)
    <3> SUFFICES ASSUME NEW e \in Envelope
                 PROVE  e \in HeldBack' <=> e \in HeldBack \/ (k = "selfcheck.failed" /\ e = Top.env)
      OBVIOUS
    <3>1. Now("selfcheck.failed", e)' = IF k = "selfcheck.failed" /\ e = Top.env
                                        THEN Now("selfcheck.failed", e) \cup {Len(log) + 1}
                                        ELSE Now("selfcheck.failed", e)
      BY <1>0, <1>1, NowAfter
    <3> QED
      BY <3>1 DEF HeldBack
  <2> QED
    BY <1>0, <2>1 DEF HeldBack
<1>4. Top.pc = "failed" =>
        /\ Top.env \in seen /\ Unsettled(Top.env)
        /\ \A j \in 1 .. Len(stack) : stack[j].pc \in Live => stack[j].env # Top.env
  BY <1>0 DEF VerdictInv, Loose
<1>5. Top.pc \in Live \cup {"persist"} => Top.env \notin HeldBack
  BY <1>0, <1>1 DEF VerdictInv, FrameInv
<1>6. HeldBack' \subseteq seen'
  BY <1>1, <1>2, <1>3, <1>4 DEF VerdictInv
<1>7. k = "none" => Loose \subseteq Loose'
  <2> SUFFICES ASSUME k = "none", NEW e \in Loose PROVE e \in Loose'
    OBVIOUS
  <2>1. log' = log
    BY DEF Moves, LogTo
  <2>2. Unsettled(e)'
    BY <1>2, <2>1 DEF Loose, Unsettled
  <2> QED
    BY <1>2, <2>2 DEF Loose
<1>8. ASSUME NEW j \in 1 .. Len(stack')
      PROVE  \/ /\ j \in 1 .. Len(stack) - 1 /\ j \in 1 .. Len(stack) /\ j # Len(stack)
                /\ stack'[j] = stack[j] /\ stack[j].pc # "failed"
             \/ j = Len(stack) /\ stack'[j].pc = q /\ stack'[j].env = Top.env
  <2>1. Len(stack) \in Nat \ {0}
    BY <1>0, StackAfter
  <2> QED
    BY <1>0, <1>1, <2>1, StackAfter
<1>9. ASSUME NEW j \in 1 .. Len(stack')
      PROVE  /\ stack'[j].pc \in Live => stack'[j].env \notin HeldBack'
             /\ stack'[j].pc = "failed" => stack'[j].env \in Loose'
  <2>1. CASE /\ j \in 1 .. Len(stack) /\ j # Len(stack)
             /\ stack'[j] = stack[j] /\ stack[j].pc # "failed"
    BY <1>1, <1>3, <1>4, <2>1 DEF VerdictInv
  <2>2. CASE stack'[j].pc = q /\ stack'[j].env = Top.env
    <3>1. q \in Live => Top.env \notin HeldBack'
      BY <1>1, <1>3, <1>5
    <3>2. q = "failed" => Top.env \in Loose'
      <4>1. q = "failed" => Top.env \in seen /\ Unsettled(Top.env) /\ k = "none"
        BY <1>0, <1>1 DEF FrameInv
      <4> QED
        BY <1>7, <4>1 DEF Loose
    <3> QED
      BY <2>2, <3>1, <3>2
  <2> QED
    BY <1>8, <2>1, <2>2
<1>10. ASSUME NEW i \in 1 .. Len(stack'), NEW j \in 1 .. Len(stack'),
              stack'[i].pc = "failed", stack'[j].pc \in Live
       PROVE  stack'[i].env # stack'[j].env
  <2>1. i = Len(stack) /\ q = "failed" /\ stack'[i].env = Top.env
    BY <1>8, <1>10
  <2>2. j # Len(stack) /\ j \in 1 .. Len(stack) /\ stack'[j] = stack[j]
    <3>1. q \notin Live
      BY <2>1 DEF Live, Pending
    <3> QED
      BY <1>8, <1>10, <3>1
  <2>3. Top.pc \in Live
    BY <1>1, <2>1
  <2> QED
    BY <1>0, <1>10, <2>1, <2>2, <2>3 DEF IInv, LiveOnce
<1>11. ASSUME NEW i \in DOMAIN log', NEW a \in DOMAIN log',
              log'[i].kind = "selfcheck.failed", log'[a].kind = "ack", log'[i].env = log'[a].env
       PROVE  log'[i].boot # log'[a].boot
  <2>1. \A j \in DOMAIN log : log'[j] = log[j]
    BY <1>0, MovesLog
  <2>2. CASE i \in DOMAIN log /\ a \in DOMAIN log
    BY <1>11, <2>1, <2>2 DEF VerdictInv
  <2>3. CASE i \notin DOMAIN log /\ a \in DOMAIN log
    <3>1. k = "selfcheck.failed" /\ log'[i].env = Top.env /\ log'[i].boot = boots
      BY <1>0, <1>11, <2>3, NewEntry
    <3>2. Unsettled(Top.env)
      BY <1>1, <1>4, <3>1
    <3> QED
      BY <1>11, <2>1, <2>3, <3>1, <3>2 DEF Unsettled
  <2>4. CASE i \in DOMAIN log /\ a \notin DOMAIN log
    <3>1. k = "ack" /\ log'[a].env = Top.env /\ log'[a].boot = boots
      BY <1>0, <1>11, <2>4, NewEntry
    <3>2. Top.env \notin HeldBack
      BY <1>1, <1>5, <3>1
    <3>3. log[i].kind = "selfcheck.failed" /\ log[i].env = Top.env
      BY <1>11, <2>1, <2>4, <3>1
    <3>4. log[i].boot # boots
      BY <1>0, <2>4, <3>2, <3>3 DEF HeldBack, Now
    <3> QED
      BY <2>1, <2>4, <3>1, <3>4
  <2>5. CASE i \notin DOMAIN log /\ a \notin DOMAIN log
    <3>1. k = "selfcheck.failed" /\ k = "ack"
      BY <1>0, <1>11, <2>5, NewEntry
    <3> QED
      BY <3>1
  <2> QED
    BY <2>2, <2>3, <2>4, <2>5
<1> QED
  BY <1>6, <1>9, <1>10, <1>11 DEF VerdictInv

\* nor does any other step,
LEMMA VerdictNext == VerdictInv /\ [Next]_vars => VerdictInv'
<1> SUFFICES ASSUME VerdictInv, [Next]_vars PROVE VerdictInv'
  OBVIOUS
<1>0. TypeOK /\ Nesting /\ IInv /\ IInv'
  BY NextInv DEF VerdictInv, IInv
<1>1. CASE Pushes \/ Settles \/ Restart
  <2>1. \A j \in DOMAIN log : log'[j] = log[j]
    BY <1>0, LogStep
  <2>2. \A j \in DOMAIN log' : j \notin DOMAIN log => log'[j].kind \in {"signer.armed", "hub.boot"}
    BY <1>0, <1>1, OtherEntry
  <2>3. ASSUME NEW i \in DOMAIN log', NEW a \in DOMAIN log',
               log'[i].kind = "selfcheck.failed", log'[a].kind = "ack", log'[i].env = log'[a].env
        PROVE  log'[i].boot # log'[a].boot
    <3>1. i \in DOMAIN log /\ a \in DOMAIN log
      BY <2>2, <2>3
    <3> QED
      BY <2>1, <2>3, <3>1 DEF VerdictInv
  <2>4. CASE Restart
    <3>1. \A e : Now("selfcheck.failed", e)' = {}
      BY <1>0, <2>4, NowElsewhere DEF Kinds
    <3>2. HeldBack' = {}
      BY <3>1 DEF HeldBack
    <3>3. Len(stack') = 0
      BY <2>4 DEF Restart
    <3> QED
      BY <1>0, <2>3, <3>2, <3>3 DEF VerdictInv
  <2>5. CASE Pushes \/ Settles
    <3>1. \A e : Now("selfcheck.failed", e)' = Now("selfcheck.failed", e)
      BY <1>0, <2>5, NowElsewhere DEF Kinds
    <3>2. HeldBack' = HeldBack /\ seen' = seen /\ boots' = boots
      <4>1. seen' = seen /\ boots' = boots
        BY <2>5 DEF Pushes, Settles, memory, setting
      <4> QED
        BY <3>1, <4>1 DEF HeldBack
    <3>3. Loose \subseteq Loose'
      <4> SUFFICES ASSUME NEW e \in Loose PROVE e \in Loose'
        OBVIOUS
      <4>1. Unsettled(e)'
        BY <2>1, <2>2, <3>2 DEF Loose, Unsettled
      <4> QED
        BY <3>2, <4>1 DEF Loose
    <3>4. ASSUME NEW j \in 1 .. Len(stack')
          PROVE  \/ j \in 1 .. Len(stack) /\ stack'[j] = stack[j]
                 \/ stack'[j].pc \notin Live \cup {"failed"}
      <4>1. \A pc \in Operations : pc \notin Live \cup {"failed"}
        BY DEF Operations, Live, Pending
      <4> QED
        BY <1>0, <2>5, <4>1, StackElsewhere
    <3> QED
      BY <1>0, <2>3, <3>2, <3>3, <3>4 DEF VerdictInv
  <2> QED
    BY <1>1, <2>4, <2>5
<1> QED
  BY <1>0, <1>1, VerdictMoves, NextSteps

\* and there is nothing held back at first.
LEMMA VerdictInit == Init => VerdictInv
<1> SUFFICES ASSUME Init PROVE VerdictInv
  OBVIOUS
<1>1. DOMAIN log = {1} /\ log[1].kind = "hub.boot" /\ Len(stack) = 0
  BY DEF Init
<1>2. HeldBack = {}
  BY <1>1 DEF HeldBack, Now
<1> QED
  BY <1>1, <1>2, InitInv DEF VerdictInv

\* The gate on the KPIs tells the truth of a hub (tools/kpi_gate.py:34-61): for
\* every route table, every nesting, every failed append and every restart, what
\* it finds is a redelivery or a repeated number and nothing worse, what it flags
\* as forged was acked only under a verified signature, and what the exit gate
\* held back has no ack.
THEOREM TellsCorrect == Spec => []GateTells
<1>1. AckInv /\ ForgedInv /\ VerdictInv => GateTells
  <2> SUFFICES ASSUME AckInv, ForgedInv, VerdictInv PROVE GateTells
    OBVIOUS
  <2>1. TypeOK /\ BootInv
    BY DEF AckInv, BootInv, GapInv, IInv
  <2>2. \A i \in K!Held(Events), a \in K!Of("ack", Events) :
          log[i].env = log[a].env => log[i].boot # log[a].boot
    BY <2>1, KindsRead DEF VerdictInv
  <2> QED
    BY <2>1, <2>2, AckTells, GapTells, AuthTells DEF GateTells, Found
<1> QED
  BY <1>1, AckInit, AckNext, ForgedInit, ForgedNext, VerdictInit, VerdictNext, PTL DEF Spec
=============================================================================
