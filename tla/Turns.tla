------------------------------- MODULE Turns -------------------------------
(***************************************************************************)
(* Who waits for whom: threads of several processes take the hub's lock,   *)
(* the lock that the threads of a process share on the log, and the        *)
(* operating system's lock on the log file (src/dispatcher/core.py,        *)
(* AuditLog._guard, and hub.py).  A call is the list of steps it has still *)
(* to take; what a step decides beyond locks and lines is in Hub and       *)
(* AuditLog.  Each process has one hub, and all of them append to one log. *)
(***************************************************************************)
EXTENDS Integers, Sequences, FiniteSets

CONSTANTS
  Threads, Procs,
  Home,         \* [Threads -> Procs]
  Queues,       \* escalation queues
  Calls,        \* [Threads -> the kinds of call it makes]
  MaxCalls      \* bound: calls of each thread

ASSUME TurnsAssumption ==
  /\ "nobody" \notin Threads    \* the owner of a lock that is free
  /\ Home \in [Threads -> Procs]
  /\ Calls \in [Threads -> SUBSET {"send", "escalate", "read", "holding", "record",
                                   "send while holding"}]
  /\ MaxCalls \in Nat

VARIABLES
  work,      \* per thread: the steps its call has still to take
  hubLock,   \* per process: Hub._lock, [by, depth]
  logLock,   \* per process: _Held.rlock, [by, depth]
  file,      \* per process: how it holds the file lock
  log,       \* the log, one line per append
  raised,    \* per thread: the entry of the escalation it pages about, or 0
  calls,     \* per thread: calls begun
  answered,  \* history: [escalation -> the outcome line its call wrote]
  reached,   \* history: escalations whose page reached a person
  lost       \* history: those of them whose notifier was not told, or did not tell

locks   == <<hubLock, logLock, file>>
history == <<answered, reached, lost>>
vars    == <<work, locks, log, raised, calls, history>>

K == INSTANCE Kpi
N == INSTANCE Notifier

Nobody == [by |-> "nobody", depth |-> 0]

----------------------------------------------------------------------------
(* The calls, step by step *)

Do(what) == <<[do |-> what]>>

Append1(e)    == Do("log") \o Do("open") \o <<[do |-> "write", line |-> e]>> \o Do("unlog")
Guarded(body) == Do("hub") \o body \o Do("unhub")

Escalate(q) ==
  Guarded(Append1([kind |-> "escalation.raised", queue |-> q]) \o <<[do |-> "page", queue |-> q]>>)

\* A send whose handler escalates; the marks are where the handler is called and
\* where it returns.
Send(q) ==
  Guarded(Append1([kind |-> "envelope.persisted"]) \o Do("handle") \o Escalate(q)
            \o Do("handled") \o Append1([kind |-> "ack"]))

\* What a send whose handler raised has still to do: the dead letter, and an
\* escalation of the hub's own, with the hub's lock still held.
SystemError == "escalation.system_error"
Recovery    == Append1([kind |-> "dead.letter"]) \o Escalate(SystemError) \o Do("unhub")

\* read, verify_chain, anchor
Read == Do("log") \o Do("open to read") \o Do("unlog")

\* The caller of holding(): two records that belong together, or a send.
Holding(body) == Do("log") \o Do("open") \o body \o Do("unlog")
Pair(n)       == Append1([kind |-> "state", block |-> n]) \o Append1([kind |-> "state", block |-> n])

\* A call that appends one line and takes no lock of the hub: each method of
\* PlaybookRun, a heartbeat.
Record == Append1([kind |-> "record"])

Steps(kind, q, n) ==
  CASE kind = "send"     -> Send(q)
    [] kind = "escalate" -> Escalate(q)
    [] kind = "read"     -> Read
    [] kind = "holding"  -> Holding(Pair(n))
    [] kind = "record"   -> Record
    [] kind = "send while holding" -> Holding(Send(q))

Begin(t) ==
  /\ work[t] = <<>>
  /\ calls[t] < MaxCalls
  /\ \E kind \in Calls[t], q \in Queues :
       work' = [work EXCEPT ![t] = Steps(kind, q, <<t, calls[t]>>)]
  /\ calls' = [calls EXCEPT ![t] = @ + 1]
  /\ raised' = [raised EXCEPT ![t] = 0]
  /\ UNCHANGED <<locks, log, history>>

----------------------------------------------------------------------------
(* The steps *)

At(t, what) == work[t] # <<>> /\ Head(work[t]).do = what
Goes(t)     == work' = [work EXCEPT ![t] = Tail(@)]

Takes(lock, t) == [lock EXCEPT ![Home[t]] = [by |-> t, depth |-> @.depth + 1]]
Drops(lock, t) == [lock EXCEPT ![Home[t]] =
                     IF @.depth = 1 THEN Nobody ELSE [by |-> t, depth |-> @.depth - 1]]
Free(lock, t)  == lock[Home[t]].by \in {"nobody", t}

\* Both locks of a process are re-entrant, and wait without end.
TakeHub(t) ==
  /\ At(t, "hub") /\ Free(hubLock, t)
  /\ hubLock' = Takes(hubLock, t)
  /\ Goes(t)
  /\ UNCHANGED <<logLock, file, log, raised, calls, history>>

\* The handler is called, or returns.
Handler(t) ==
  /\ At(t, "handle") \/ At(t, "handled")
  /\ Goes(t)
  /\ UNCHANGED <<locks, log, raised, calls, history>>

LeaveHub(t) ==
  /\ At(t, "unhub")
  /\ hubLock' = Drops(hubLock, t)
  /\ Goes(t)
  /\ UNCHANGED <<logLock, file, log, raised, calls, history>>

TakeLog(t) ==
  /\ At(t, "log") /\ Free(logLock, t)
  /\ logLock' = Takes(logLock, t)
  /\ Goes(t)
  /\ UNCHANGED <<hubLock, file, log, raised, calls, history>>

\* The file lock: shared for a read, exclusive for a write; a process that
\* holds it does not take it again.
Barred(t, mode) ==
  \E p \in Procs \ {Home[t]} : file[p] = "exclusive" \/ (mode = "exclusive" /\ file[p] # "none")
ModeOf(t) == IF At(t, "open") THEN "exclusive" ELSE "shared"

OpenFile(t) ==
  /\ At(t, "open") \/ At(t, "open to read")
  /\ \/ file[Home[t]] # "none" /\ UNCHANGED file
     \/ /\ file[Home[t]] = "none"
        /\ ~Barred(t, ModeOf(t))
        /\ file' = [file EXCEPT ![Home[t]] = ModeOf(t)]
  /\ Goes(t)
  /\ UNCHANGED <<hubLock, logLock, log, raised, calls, history>>

\* Another process holds the file too long: AuditLogBusy, and the block of the
\* log that waited for it is left.
Refused(t) ==
  /\ At(t, "open") \/ At(t, "open to read")
  /\ file[Home[t]] = "none" /\ Barred(t, ModeOf(t))
  /\ logLock' = [logLock EXCEPT ![Home[t]] = Nobody]
  /\ UNCHANGED <<file, log, raised, calls, history>>

Ahead(t, what) == \E i \in DOMAIN work[t] : work[t][i].do = what
InHandler(t)   == Ahead(t, "handled") /\ ~Ahead(t, "handle")

MutBusy(t) ==    \* the hub's lock is kept
  /\ Refused(t) /\ ~InHandler(t)
  /\ work' = [work EXCEPT ![t] = <<>>]
  /\ UNCHANGED hubLock

\* Outside a handler it ends the call, and the hub's lock is given back.
Busy(t) ==
  /\ Refused(t) /\ ~InHandler(t)
  /\ hubLock' = [hubLock EXCEPT ![Home[t]] = IF @.by = t THEN Nobody ELSE @]
  /\ work' = [work EXCEPT ![t] = <<>>]

\* In a handler the send catches it like any other exception, and goes on.
BusyInHandler(t) ==
  /\ Refused(t) /\ InHandler(t)
  /\ hubLock' = [hubLock EXCEPT ![Home[t]] = [by |-> t, depth |-> 1]]
  /\ work' = [work EXCEPT ![t] = Recovery]

MutLeaveLog(t) ==    \* the inner append gives the file lock back
  /\ At(t, "unlog")
  /\ logLock' = Drops(logLock, t)
  /\ file' = [file EXCEPT ![Home[t]] = "none"]
  /\ Goes(t)
  /\ UNCHANGED <<hubLock, log, raised, calls, history>>

\* Only the outermost block gives the file lock back.
LeaveLog(t) ==
  /\ At(t, "unlog")
  /\ logLock' = Drops(logLock, t)
  /\ file' = IF logLock[Home[t]].depth = 1 THEN [file EXCEPT ![Home[t]] = "none"] ELSE file
  /\ Goes(t)
  /\ UNCHANGED <<hubLock, log, raised, calls, history>>

\* A line; an escalation's is what its outcome will name.
Write(t) ==
  /\ At(t, "write")
  /\ LET e == Head(work[t]).line
     IN  /\ log' = Append(log, e)
         /\ raised' = IF e.kind = "escalation.raised" THEN [raised EXCEPT ![t] = Len(log) + 1]
                                                      ELSE raised
         /\ answered' = IF e.kind \in K!NotifyOutcomes /\ e.raised # 0
                        THEN [r \in DOMAIN answered \cup {e.raised} |->
                                IF r = e.raised THEN Len(log) + 1 ELSE answered[r]]
                        ELSE answered
  /\ Goes(t)
  /\ UNCHANGED <<locks, calls, reached, lost>>

\* The outcome o of a page is still to be recorded.
Paged(t, o) ==
  work' = [work EXCEPT ![t] =
    Append1([kind |-> o.kind, queue |-> Head(@).queue, raised |-> raised[t],
             transport |-> o.transport]) \o Tail(@)]

\* Whether the page of t reached a person, and whether its notifier lost that.
Tells(t, told, unsaid) ==
  /\ reached' = IF told THEN reached \cup {raised[t]} ELSE reached
  /\ lost' = IF unsaid THEN lost \cup {raised[t]} ELSE lost

\* _notify: there is no notifier; it reports nothing (and whom it reached is not
\* asked); it raises, whatever it did before; or it is one of notifier.py.
Page(t) ==
  /\ At(t, "page")
  /\ \/ Goes(t) /\ UNCHANGED <<reached, lost>>
     \/ Paged(t, N!Outcome("nothing")) /\ UNCHANGED <<reached, lost>>
     \/ \E told \in BOOLEAN : Paged(t, N!Outcome("raises")) /\ Tells(t, told, told)
     \/ \E s \in N!Setups :
          Paged(t, N!Outcome(N!Status(s))) /\ Tells(t, N!Reached(s), N!Lost(s))
  /\ UNCHANGED <<locks, log, raised, calls, answered>>

Step(t) ==
  \/ TakeHub(t) \/ Handler(t) \/ LeaveHub(t) \/ TakeLog(t) \/ OpenFile(t)
  \/ Busy(t) \/ BusyInHandler(t) \/ LeaveLog(t) \/ Write(t) \/ Page(t)

----------------------------------------------------------------------------
Init ==
  /\ work = [t \in Threads |-> <<>>]
  /\ hubLock = [p \in Procs |-> Nobody]
  /\ logLock = [p \in Procs |-> Nobody]
  /\ file = [p \in Procs |-> "none"]
  /\ log = <<>>
  /\ calls = [t \in Threads |-> 0]
  /\ raised = [t \in Threads |-> 0]
  /\ answered = <<>> /\ reached = {} /\ lost = {}

Next == \E t \in Threads : Begin(t) \/ Step(t)

\* The threads are scheduled, and foreign code returns.
Spec == Init /\ [][Next]_vars /\ \A t \in Threads : WF_vars(Step(t))

----------------------------------------------------------------------------
(* Properties *)

\* holding() keeps other processes out "across several steps" (core.py:366-370):
\* what one block records stands together on the log.
HoldingApart ==
  \A i, k \in {x \in DOMAIN log : log[x].kind = "state"} :
    log[i].block = log[k].block =>
      \A j \in i .. k : log[j].kind = "state" /\ log[j].block = log[i].block

\* "An outcome is never shared" (kpi.py:48): the report pairs each escalation
\* with the outcome its own page came to, whatever other threads and processes
\* raise on the same queue and although a send refused the log in its handler
\* raises twice, and with none where the outcome was refused the log.
PairsTrue ==
  \A r \in K!Of("escalation.raised", log) :
    K!PairEscalations(log)[r] = IF r \in DOMAIN answered THEN answered[r] ELSE 0

\* What the report says a person was told (kpi.py:149-167): an escalation is
\* confirmed only if its own page reached somebody, and one that the report calls
\* failed did so only if that was lost between the service and the hub
\* (notifier.py:121-124).
ReportTrue ==
  /\ K!Confirmed(log) \subseteq reached
  /\ K!NotifyFailed(log) \cap reached \subseteq lost

\* Every call ends: "nested sends from several threads on one hub finish (the
\* lock is reentrant and there is only one, so no lock-order deadlock is
\* possible)" (tests/test_hub_lock.py:3-5), with the log's locks counted in.
CallsEnd == \A t \in Threads : []<>(work[t] = <<>>)
=============================================================================
