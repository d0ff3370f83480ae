------------------------------- MODULE Siding -------------------------------
(***************************************************************************)
(* The SidingScheduler of src/dispatcher/priority.py: one holder per spoke *)
(* (the segment), class 1 before class 4, and arrival order within a class.*)
(* Each method is one step that ends after its k-th audit-log append: all  *)
(* of them when it returns, fewer when an append raises in the middle.     *)
(* A ticket numbers the requests; it is history and decides nothing.       *)
(***************************************************************************)
EXTENDS Naturals, Sequences, FiniteSets, SequencesExt

CONSTANTS
  Run,      \* run ids
  Spoke,    \* spokes
  Class,    \* [Run -> 0 .. 4]: the class of the run's playbook, 0 when the
            \* identity gives it none
  MaxAsks,  \* bound: requests
  MaxFails  \* bound: appends that raise

ASSUME ClassAssumption == Class \in [Run -> 0 .. 4]
ASSUME BoundsAssumption == MaxAsks \in Nat /\ MaxFails \in Nat

VARIABLES
  holding,  \* spoke -> its holder, or Nobody
  sidings,  \* spoke -> the waiting runs
  log,      \* the audit log: [kind, run, spoke]
  asks,     \* requests made
  done,     \* history: the tickets whose run released its segment, or whose
            \* request was refused
  fails     \* appends that raised

vars == <<holding, sidings, log, asks, done, fails>>

Nobody == [run |-> "nobody", class |-> 0, ticket |-> 0]

Event(kind, run, spoke) == [kind |-> kind, run |-> run, spoke |-> spoke]

\* The first k of the appends of a method happen; the next one raises.
Appends(events, k) ==
  /\ log' = log \o SubSeq(events, 1, k)
  /\ k < Len(events) => fails < MaxFails
  /\ fails' = IF k < Len(events) THEN fails + 1 ELSE fails

\* _class_of raises on unclassified traffic: nothing happens.
Asks(r) ==
  /\ asks < MaxAsks
  /\ Class[r] # 0
  /\ asks' = asks + 1

Ticket(r) == [run |-> r, class |-> Class[r], ticket |-> asks + 1]

Outranks(r, s) == Class[r] < holding[s].class

Grant(r, s) ==
  /\ Asks(r)
  /\ holding[s] = Nobody
  /\ holding' = [holding EXCEPT ![s] = Ticket(r)]
  /\ \E k \in 0 .. 1 : Appends(<<Event("segment.grant", r, s)>>, k)
  /\ UNCHANGED <<sidings, done>>

MutPreempt(r, s) ==    \* the holder waits behind its own class
  /\ Asks(r)
  /\ holding[s] # Nobody /\ Outranks(r, s)
  /\ sidings' = [sidings EXCEPT ![s] = Append(@, holding[s])]
  /\ Appends(<<Event("siding.hold", holding[s].run, s), Event("segment.grant", r, s)>>, 2)
  /\ holding' = [holding EXCEPT ![s] = Ticket(r)]
  /\ UNCHANGED done

MutPreemptUnlogged(r, s) ==    \* the hold of the old holder is not recorded
  /\ Asks(r)
  /\ holding[s] # Nobody /\ Outranks(r, s)
  /\ sidings' = [sidings EXCEPT ![s] = <<holding[s]>> \o @]
  /\ Appends(<<Event("segment.grant", r, s)>>, 1)
  /\ holding' = [holding EXCEPT ![s] = Ticket(r)]
  /\ UNCHANGED done

MutPreemptAborts(r, s) ==    \* the old holder is dropped
  /\ Asks(r)
  /\ holding[s] # Nobody /\ Outranks(r, s)
  /\ Appends(<<Event("siding.hold", holding[s].run, s), Event("segment.grant", r, s)>>, 2)
  /\ holding' = [holding EXCEPT ![s] = Ticket(r)]
  /\ UNCHANGED <<sidings, done>>

\* The contender outranks the holder, which takes the siding at its front.
Preempt(r, s) ==
  /\ Asks(r)
  /\ holding[s] # Nobody /\ Outranks(r, s)
  /\ sidings' = [sidings EXCEPT ![s] = <<holding[s]>> \o @]
  /\ \E k \in 0 .. 2 :
       /\ Appends(<<Event("siding.hold", holding[s].run, s), Event("segment.grant", r, s)>>, k)
       /\ holding' = IF k = 0 THEN holding ELSE [holding EXCEPT ![s] = Ticket(r)]
       /\ done' = IF k = 0 THEN done \cup {asks + 1} ELSE done

\* The holder keeps the segment, the contender waits.
Wait(r, s) ==
  /\ Asks(r)
  /\ holding[s] # Nobody /\ ~Outranks(r, s)
  /\ sidings' = [sidings EXCEPT ![s] = Append(@, Ticket(r))]
  /\ \E k \in 0 .. 1 : Appends(<<Event("siding.hold", r, s)>>, k)
  /\ UNCHANGED <<holding, done>>

MutBest(q) == 1    \* arrival order only

\* The first waiting run of the best class.
Best(q) ==
  CHOOSE i \in DOMAIN q : \A j \in DOMAIN q :
    q[i].class < q[j].class \/ (q[i].class = q[j].class /\ i <= j)

\* release_segment raises for anybody but the holder: nothing happens.
Clear(s) ==
  /\ holding[s] # Nobody
  /\ done' = done \cup {holding[s].ticket}
  /\ UNCHANGED asks

ReleaseAlone(s) ==
  /\ Clear(s)
  /\ sidings[s] = <<>>
  /\ holding' = [holding EXCEPT ![s] = Nobody]
  /\ \E k \in 0 .. 1 : Appends(<<Event("segment.release", holding[s].run, s)>>, k)
  /\ UNCHANGED sidings

MutRelease(s) ==    \* the waiting run holds the segment only after the appends
  /\ Clear(s)
  /\ sidings[s] # <<>>
  /\ LET q == sidings[s]  b == Best(q)  next == q[b]
     IN  \E k \in 0 .. 3 :
           /\ Appends(<<Event("segment.release", holding[s].run, s),
                        Event("siding.resume", next.run, s),
                        Event("segment.grant", next.run, s)>>, k)
           /\ holding' = [holding EXCEPT ![s] = IF k = 3 THEN next ELSE Nobody]
           /\ sidings' = IF k = 0 THEN sidings ELSE [sidings EXCEPT ![s] = RemoveAt(q, b)]

\* The segment clears and the best waiting run resumes by itself.
Release(s) ==
  /\ Clear(s)
  /\ sidings[s] # <<>>
  /\ LET q == sidings[s]  b == Best(q)  next == q[b]
     IN  \E k \in 0 .. 3 :
           /\ Appends(<<Event("segment.release", holding[s].run, s),
                        Event("siding.resume", next.run, s),
                        Event("segment.grant", next.run, s)>>, k)
           /\ IF k = 0 THEN /\ holding' = [holding EXCEPT ![s] = Nobody]
                            /\ UNCHANGED sidings
              ELSE /\ holding' = [holding EXCEPT ![s] = next]
                   /\ sidings' = [sidings EXCEPT ![s] = RemoveAt(q, b)]

Init ==
  /\ holding = [s \in Spoke |-> Nobody]
  /\ sidings = [s \in Spoke |-> <<>>]
  /\ log = <<>>
  /\ asks = 0 /\ done = {} /\ fails = 0

Request(r, s) == Grant(r, s) \/ Preempt(r, s) \/ Wait(r, s)
Finish(s)     == ReleaseAlone(s) \/ Release(s)

Next == \E s \in Spoke : Finish(s) \/ \E r \in Run : Request(r, s)

Spec == Init /\ [][Next]_vars

\* A run that holds its segment gets its work done.
FairSpec == Spec /\ \A s \in Spoke : WF_vars(Finish(s))

----------------------------------------------------------------------------
(* Properties *)

\* Class beats arrival (priority.py:8-9, 15-17): whatever was preempted, and in
\* whatever order, nobody waits behind a holder of a lower class.
ClassFirst == fails = 0 =>
  \A s \in Spoke : \A k \in DOMAIN sidings[s] :
    holding[s].class <= sidings[s][k].class

\* Arrival order breaks ties within a class (priority.py:14-16): the holder asked
\* before every waiting run of its class, and those wait in the order they asked,
\* through any nesting of preemptions.
ArrivalOrder == fails = 0 =>
  \A s \in Spoke :
    LET line == <<holding[s]>> \o sidings[s]
    IN  \A j, k \in DOMAIN line :
          j < k /\ line[j].class = line[k].class => line[j].ticket < line[k].ticket

\* "Held LIVE ..., never aborted" (priority.py:9-10): whatever is preempted and
\* whichever append raises, a run that asked and has not finished holds a segment
\* or waits for one; and as long as none raised, in one place only.
NobodyLost ==
  \A t \in 1 .. asks :
    LET places == {<<s, 0>> : s \in {x \in Spoke : holding[x].ticket = t}} \cup
                  {p \in Spoke \X (1 .. asks) :
                     p[2] <= Len(sidings[p[1]]) /\ sidings[p[1]][p[2]].ticket = t}
    IN  /\ t \notin done => places # {}
        /\ fails = 0 => Cardinality(places) = (IF t \in done THEN 0 ELSE 1)

\* Reportable from the audit log alone (priority.py:11-12): the log's last grant
\* without a release names the holder, and who was sided and not resumed since,
\* counted, is who waits.
ToldByTheLog == fails = 0 =>
  \A s \in Spoke :
    LET At(kinds)      == {i \in DOMAIN log : log[i].spoke = s /\ log[i].kind \in kinds}
        Count(kind, r) == Cardinality({i \in At({kind}) : log[i].run = r})
        turns          == At({"segment.grant", "segment.release"})
        last           == CHOOSE i \in turns : \A j \in turns : j <= i
    IN  /\ holding[s].run = IF turns = {} \/ log[last].kind = "segment.release"
                            THEN "nobody" ELSE log[last].run
        /\ \A r \in Run :
             Count("siding.hold", r) =
               Count("siding.resume", r) + Cardinality({k \in DOMAIN sidings[s] : sidings[s][k].run = r})

\* A run of a better class asks for a segment that ticket t holds or waits for.
Passed(t) ==
  \E s \in Spoke : \E x \in {holding[s]} \cup ToSet(sidings[s]) :
    x.ticket = t /\ \E r \in Run : Class[r] < x.class /\ Request(r, s)

\* A run that asked gets its segment and finishes if runs of better classes pass it
\* finitely often (priority.py:8-10), as long as no append raises: those of its own
\* class and below never hold it up for good.  The condition is needed: classes are
\* strict and do not age (priority.py:49, 82), so a steady flow of better ones starves
\* a run.  MaxAsks, which bounds all requests, makes it true of every checked behaviour.
Served ==
  \A t \in 1 .. MaxAsks :
    <>[][~Passed(t)]_vars => (asks >= t ~> t \in done \/ fails > 0)
=============================================================================
