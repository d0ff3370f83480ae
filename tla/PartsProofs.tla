---------------------------- MODULE PartsProofs ----------------------------
(***************************************************************************)
(* The small parts around the hub.  What the tables read at boot promise,  *)
(* for every table and every file they may be given: the audience labels   *)
(* of the routes, the signer registry and the manifest of the boot         *)
(* attestation.  And what becomes of every trace a spoke submits.          *)
(***************************************************************************)
EXTENDS Track, Registry, Attestation, Traces, Positions
LOCAL INSTANCE FiniteSetsExt

----------------------------------------------------------------------------
(* Audience labels *)

\* The rows that decide the audience of an intent: i is the first that leaves to
\* `external` and carries it, j the last that leaves under i's pattern.
Decides(rows, intent, i, j) ==
  /\ i \in Leaving(rows) /\ Carries(rows[i].intent, intent)
  /\ \A k \in Leaving(rows) : Carries(rows[k].intent, intent) => i <= k
  /\ j \in Leaving(rows) /\ rows[j].intent = rows[i].intent
  /\ \A k \in Leaving(rows) : rows[k].intent = rows[i].intent => k <= j

\* A message passes the gate by its label exactly if the first leaving pattern of
\* the table that carries its intent says principal in its last row
\* (core.py:104-126; hub.py:580-581).  So an intent that no leaving row carries is
\* gated, and so is one whose deciding row has no label or an unknown one; but a
\* pattern further down has no say: a wildcard ahead of it that says principal
\* lets through what its own row would hold, and one that does not holds it.
THEOREM UngatedIsPrincipal ==
  ASSUME NEW Row, NEW rows \in Seq(Row), NEW intent
  PROVE  ~IsGated(rows, intent) <=>
           \E i, j \in DOMAIN rows : Decides(rows, intent, i, j) /\ rows[j].audience = "principal"
<1> DEFINE carrying == Leaving(rows) \cap Matching(rows, intent)
<1>1. Len(rows) \in Nat /\ DOMAIN rows = 1 .. Len(rows) /\ Leaving(rows) \in SUBSET (1 .. Len(rows))
  BY DEF Leaving
<1>2. \A k : k \in carrying <=> k \in Leaving(rows) /\ Carries(rows[k].intent, intent)
  BY DEF Leaving, Matching
<1>3. ASSUME NEW i, NEW j, Decides(rows, intent, i, j)
      PROVE  AudienceFor(rows, intent) = Label(rows[j])
  <2> DEFINE same == {k \in Leaving(rows) : rows[k].intent = rows[i].intent}
  <2>1. i \in carrying /\ (\A k \in carrying : i <= k) /\ carrying \in SUBSET (1 .. Len(rows))
    BY <1>1, <1>2, <1>3 DEF Decides
  <2>2. \A x \in carrying : (\A k \in carrying : x <= k) => x = i
    BY <1>1, <2>1
  <2>3. Min(carrying) = i
    BY <2>1, <2>2 DEF Min
  <2>4. j \in same /\ (\A k \in same : j >= k) /\ same \in SUBSET (1 .. Len(rows))
    BY <1>1, <1>3 DEF Decides
  <2>5. \A x \in same : (\A k \in same : x >= k) => x = j
    BY <1>1, <2>4
  <2>6. Max(same) = j
    BY <2>4, <2>5 DEF Max
  <2> QED
    BY <2>1, <2>3, <2>6 DEF AudienceFor, Audience
<1>4. ASSUME NEW a, a = AudienceFor(rows, intent)
      PROVE  /\ ~IsGated(rows, intent) => a # "none" /\ a \notin AUDIENCE_GATED
             /\ a = "principal" => ~IsGated(rows, intent)
  BY <1>4 DEF IsGated, AUDIENCE_GATED, AUDIENCE_DEFAULT
<1>5. \A j : Label(rows[j]) \notin AUDIENCE_GATED <=> rows[j].audience = "principal"
  BY DEF Label, AUDIENCE, AUDIENCE_GATED, AUDIENCE_DEFAULT
<1>6. ASSUME NEW i, NEW j, Decides(rows, intent, i, j), rows[j].audience = "principal"
      PROVE  ~IsGated(rows, intent)
  BY <1>3, <1>4, <1>6 DEF Label, AUDIENCE
<1>7. ASSUME ~IsGated(rows, intent)
      PROVE  \E i, j \in DOMAIN rows : Decides(rows, intent, i, j) /\ rows[j].audience = "principal"
  <2>1. carrying # {} /\ carrying \in SUBSET (1 .. Len(rows))
    BY <1>1, <1>4, <1>7 DEF AudienceFor
  <2>2. PICK i \in carrying : \A k \in carrying : i <= k
    BY <1>1, <2>1, LeastOf
  <2> DEFINE same == {k \in Leaving(rows) : rows[k].intent = rows[i].intent}
  <2>3. i \in same /\ same \in SUBSET (1 .. Len(rows))
    BY <1>1, <2>2
  <2>4. PICK j \in same : \A k \in same : j >= k
    BY <1>1, <2>3, GreatestOf
  <2>5. i \in DOMAIN rows /\ j \in DOMAIN rows /\ \A k \in same : k <= j
    BY <1>1, <2>2, <2>3, <2>4
  <2>6. Decides(rows, intent, i, j)
    BY <1>2, <2>2, <2>4, <2>5 DEF Decides
  <2>7. Label(rows[j]) \notin AUDIENCE_GATED
    BY <1>3, <1>4, <1>7, <2>6
  <2> QED
    BY <1>5, <2>5, <2>6, <2>7
<1> QED
  BY <1>6, <1>7

----------------------------------------------------------------------------
(* The signer registry *)

\* A login that has rows has a first one.
LEMMA FirstRow ==
  ASSUME NEW rows \in Seq(Entry), NEW intent, NEW login, RowsOf(rows, intent, login) # {}
  PROVE  LET named == RowsOf(rows, intent, login)
         IN  Min(named) \in named /\ \A k \in named : Min(named) <= k
<1> DEFINE named == RowsOf(rows, intent, login)
<1>1. named \in SUBSET (1 .. Len(rows)) /\ Len(rows) \in Nat
  BY DEF RowsOf
<1>2. \E x \in named : \A y \in named : x <= y
  BY <1>1, LeastOf
<1> QED
  BY <1>2 DEF Min

\* Who is authorized is on the file, not revoked and in effect, and attests a
\* second factor and a session (signer_registry.py:6-10, 80-129); and what is
\* authorized one day is on every later one, until the file changes.
THEOREM CheckVouches ==
  ASSUME NEW rows \in Seq(Entry), NEW stamp, NEW intent, NEW today \in Int,
         Check(rows, stamp, intent, today)
  PROVE  /\ stamp.mfa /\ stamp.session
         /\ \E k \in RowsOf(rows, intent, stamp.login) : Authorizes(rows[k], today)
         /\ \A later \in Int : today <= later => Check(rows, stamp, intent, later)
<1> DEFINE named == RowsOf(rows, intent, stamp.login)
           first == rows[Min(named)]
<1>1. Complete(stamp) /\ named # {} /\ Authorizes(first, today)
  BY DEF Check
<1>2. Min(named) \in named
  BY <1>1, FirstRow
<1>3. first \in Entry
  BY <1>2 DEF RowsOf
<1>4. ASSUME NEW later \in Int, today <= later PROVE Authorizes(first, later)
  BY <1>1, <1>3, <1>4 DEF Authorizes, Entry, Effective
<1>5. \A later \in Int : today <= later => Check(rows, stamp, intent, later)
  BY <1>1, <1>4 DEF Check
<1> QED
  BY <1>1, <1>2, <1>5 DEF Complete

\* The first row of a login decides (signer_registry.py:105-127): rows added at
\* the end of the file neither restore a signer whose row is revoked or not yet
\* in effect, nor revoke one whose row is in effect.
THEOREM FirstRowDecides ==
  ASSUME NEW rows \in Seq(Entry), NEW more \in Seq(Entry), NEW stamp, NEW intent,
         NEW today \in Int, RowsOf(rows, intent, stamp.login) # {}
  PROVE  Check(rows \o more, stamp, intent, today) <=> Check(rows, stamp, intent, today)
<1> DEFINE all == rows \o more
           old == RowsOf(rows, intent, stamp.login)
           new == RowsOf(all, intent, stamp.login)
<1>1. all \in Seq(Entry) /\ DOMAIN rows = 1 .. Len(rows) /\ Len(rows) \in Nat
  OBVIOUS
<1>2. \A k \in DOMAIN rows : k \in DOMAIN all /\ all[k] = rows[k]
  OBVIOUS
<1>3. old \subseteq new /\ \A k \in new : k \in DOMAIN rows => k \in old
  BY <1>2 DEF RowsOf
<1>4. /\ Min(old) \in old /\ \A k \in old : Min(old) <= k
      /\ Min(new) \in new /\ \A k \in new : Min(new) <= k
  BY <1>1, <1>3, FirstRow
<1>5. Min(old) \in 1 .. Len(rows) /\ Min(new) \in 1 .. Len(all) /\ Len(all) \in Nat
  <2>1. old \subseteq 1 .. Len(rows) /\ new \subseteq 1 .. Len(all) /\ Len(all) \in Nat
    BY <1>1 DEF RowsOf
  <2> QED
    BY <1>4, <2>1
<1>6. Min(new) <= Min(old)
  BY <1>3, <1>4
<1>7. Min(new) \in old
  BY <1>1, <1>3, <1>4, <1>5, <1>6
<1>8. Min(new) = Min(old)
  BY <1>4, <1>5, <1>6, <1>7
<1>9. all[Min(new)] = rows[Min(old)] /\ new # {} /\ old # {}
  BY <1>1, <1>2, <1>4, <1>5, <1>8
<1> QED
  BY <1>9 DEF Check

----------------------------------------------------------------------------
(* Boot attestation *)

\* The list of deviations is empty only if the manifest is the one that the
\* files on disk would give now (attestation.py:45-62).
THEOREM VerifyExact ==
  ASSUME NEW manifest, manifest = [n \in DOMAIN manifest |-> manifest[n]], NEW files
  PROVE  VerifyManifest(manifest, files) = {}
           <=> DOMAIN manifest # {} /\ manifest = BuildManifest(files)
<1> DEFINE current == BuildManifest(files)
<1>1. current = [n \in DOMAIN current |-> current[n]]
  BY DEF BuildManifest
<1>2. VerifyManifest(manifest, files) =
        IF DOMAIN manifest = {} THEN {"manifest absent"}
        ELSE {n \in DOMAIN manifest \cup DOMAIN current :
                ~(n \in DOMAIN manifest /\ n \in DOMAIN current /\ manifest[n] = current[n])}
  BY DEF VerifyManifest
<1> HIDE DEF current
<1>3. CASE DOMAIN manifest = {}
  BY <1>2, <1>3
<1>4. CASE DOMAIN manifest # {}
  <2>1. VerifyManifest(manifest, files) = {}
          <=> \A n \in DOMAIN manifest \cup DOMAIN current :
                n \in DOMAIN manifest /\ n \in DOMAIN current /\ manifest[n] = current[n]
    BY <1>2, <1>4
  <2>2. manifest = current => VerifyManifest(manifest, files) = {}
    BY <2>1
  <2>3. ASSUME VerifyManifest(manifest, files) = {} PROVE manifest = current
    <3>1. DOMAIN manifest = DOMAIN current /\ \A n \in DOMAIN manifest : manifest[n] = current[n]
      BY <2>1, <2>3
    <3> QED
      BY <1>1, <3>1
  <2> QED
    BY <1>4, <2>2, <2>3 DEF current
<1> QED
  BY <1>3, <1>4

\* An element of a sequence is of its set.
LEMMA Element ==
  ASSUME NEW S, NEW s \in Seq(S), NEW k \in DOMAIN s
  PROVE  s[k] \in S
  OBVIOUS

Distinct(files) ==
  \A j, k \in DOMAIN files : files[j].name = files[k].name => j = k

\* What verifies has not drifted (attestation.py:3-9): if no two files share a
\* name, the files are the attested ones, every one with its attested hash, and
\* there is no other.  Where two share one, only the last of them is attested.
THEOREM NothingDrifts ==
  ASSUME NEW File, NEW then \in Seq([name : File, digest : File]),
         NEW now \in Seq([name : File, digest : File]),
         Distinct(then), Distinct(now),
         VerifyManifest(BuildManifest(then), now) = {}
  PROVE  {then[k] : k \in DOMAIN then} = {now[k] : k \in DOMAIN now}
<1>1. BuildManifest(then) = BuildManifest(now)
  BY VerifyExact DEF BuildManifest
<1>2. ASSUME NEW files \in Seq([name : File, digest : File]), Distinct(files)
      PROVE  {files[k] : k \in DOMAIN files} =
               {[name |-> n, digest |-> BuildManifest(files)[n]] : n \in DOMAIN BuildManifest(files)}
  <2>1. ASSUME NEW k \in DOMAIN files
        PROVE  /\ files[k].name \in DOMAIN BuildManifest(files)
               /\ BuildManifest(files)[files[k].name] = files[k].digest
    <3>1. Named(files, files[k].name) = {k} /\ k \in Int
      BY <1>2 DEF Named, Distinct
    <3>2. Max({k}) = k
      BY <3>1 DEF Max
    <3> QED
      BY <3>1, <3>2 DEF BuildManifest
  <2>2. ASSUME NEW k \in DOMAIN files
        PROVE  files[k] = [name |-> files[k].name, digest |-> files[k].digest]
    <3>1. files[k] \in [name : File, digest : File]
      BY Element
    <3> QED
      BY <3>1
  <2>3. ASSUME NEW n \in DOMAIN BuildManifest(files)
        PROVE  \E k \in DOMAIN files : n = files[k].name
    BY DEF BuildManifest
  <2> QED
    BY <2>1, <2>2, <2>3
<1>3. {then[k] : k \in DOMAIN then} =
        {[name |-> n, digest |-> BuildManifest(then)[n]] : n \in DOMAIN BuildManifest(then)}
  BY <1>2
<1>4. {now[k] : k \in DOMAIN now} =
        {[name |-> n, digest |-> BuildManifest(now)[n]] : n \in DOMAIN BuildManifest(now)}
  BY <1>2
<1> QED
  BY <1>1, <1>3, <1>4, Zenon

----------------------------------------------------------------------------
(* What is said of a trace: the submission under way, the analysis and the   *)
(* log tell the same story of it at every append.                            *)

Submission == [pc : {"declare", "land", "taint", "keep"}, id : Nat,
               blank : BOOLEAN, tainted : BOOLEAN]
Taken      == [id : Nat, blank : BOOLEAN, tainted : BOOLEAN]
Looking    == [pc : {"artifact", "second"}, next : Nat]
Scoring    == [pc : {"trace", "taint"}, next : Nat, met : SUBSET Nat]

Typed ==
  /\ traces \in Seq(Taken)
  /\ spoke \in [Spokes -> {Idle} \cup Submission]
  /\ look \in {Idle} \cup Looking \cup Scoring
  /\ counts \in [traces : Nat, thoughts : Nat, looks : Nat, fails : Nat]

Busy(t) == spoke[t].pc # "idle"
Kept(T, id) == \E k \in DOMAIN T : T[k].id = id

\* A number is given to one submission, which becomes one trace or none.
IdsInv ==
  /\ \A k \in DOMAIN traces : traces[k].id <= counts.traces
  /\ \A j, k \in DOMAIN traces : traces[j].id = traces[k].id => j = k
  /\ \A t \in Spokes : Busy(t) =>
       /\ spoke[t].id <= counts.traces /\ ~Kept(traces, spoke[t].id)
       /\ \A u \in Spokes : Busy(u) /\ spoke[u].id = spoke[t].id => u = t

Scored(L, id)  == [kind |-> "agentopenmind.trace", id |-> id] \in L
Tainted(L, id) == [kind |-> "agentopenmind.tainted", id |-> id] \in L

\* The log scores only what holds a thought, and taints only what does not; what
\* is marked as flagged was flagged before it was kept.
FlagInv ==
  /\ \A id \in Nat : id > counts.traces => ~Scored(log, id) /\ ~Tainted(log, id)
  /\ \A k \in DOMAIN traces :
       /\ traces[k].blank => ~Scored(log, traces[k].id)
       /\ ~traces[k].blank => ~Tainted(log, traces[k].id)
       /\ traces[k].tainted => traces[k].blank /\ Tainted(log, traces[k].id) /\ traces[k].id \in integrity
  /\ \A t \in Spokes : Busy(t) =>
       /\ ~Scored(log, spoke[t].id)
       /\ ~spoke[t].blank => ~Tainted(log, spoke[t].id)
       /\ spoke[t].tainted => spoke[t].blank /\ spoke[t].pc # "declare"
       /\ spoke[t].pc \in {"land", "taint"} => spoke[t].tainted
       /\ spoke[t].pc = "taint" => spoke[t].id \in integrity
       /\ spoke[t].pc = "keep" /\ spoke[t].tainted =>
            Tainted(log, spoke[t].id) /\ spoke[t].id \in integrity

\* What the analysis has to say of a trace.
Settled(k) == IF traces[k].blank THEN Tainted(log, traces[k].id) /\ traces[k].id \in integrity
                                 ELSE Scored(log, traces[k].id)

\* The loop settles the traces it leaves behind.
LookInv ==
  /\ look.pc \in {"trace", "taint"} =>
       /\ look.next \in 1 .. Len(traces) + 1
       /\ \A k \in DOMAIN traces : k < look.next => Settled(k)
       /\ \A id \in look.met : Kept(traces, id)
  /\ look.pc = "taint" => /\ look.next \in DOMAIN traces /\ traces[look.next].blank
                          /\ traces[look.next].id \in integrity
  /\ \A id \in reviewed : \E k \in DOMAIN traces : traces[k].id = id /\ Settled(k)

TraceInv == Typed /\ IdsInv /\ FlagInv /\ LookInv

\* What an append may do to the log.
LEMMA AppendsTo ==
  ASSUME NEW kind, NEW id, Appends(kind, id)
  PROVE  /\ counts' = counts /\ log \subseteq log'
         /\ \A k, i : [kind |-> k, id |-> i] \in log' <=>
              [kind |-> k, id |-> i] \in log \/ (k = kind /\ i = id)
<1>1. counts' = counts /\ log' = log \cup {[kind |-> kind, id |-> id]}
  BY DEF Appends, Line
<1>2. \A k, i : [kind |-> k, id |-> i] = [kind |-> kind, id |-> id] <=> k = kind /\ i = id
  OBVIOUS
<1> QED
  BY <1>1, <1>2

\* A failure counts itself and nothing else.
LEMMA RaisesCounts ==
  ASSUME Typed, Raises
  PROVE  /\ log' = log /\ counts'.traces = counts.traces
         /\ counts' \in [traces : Nat, thoughts : Nat, looks : Nat, fails : Nat]
BY DEF Typed, Raises, Tick

\* The log says nothing new of any trace.
SaysNothing ==
  /\ log \subseteq log'
  /\ \A id : /\ Scored(log', id) <=> Scored(log, id)
             /\ Tainted(log', id) <=> Tainted(log, id)

LEMMA OtherLine ==
  ASSUME NEW kind, NEW id, Appends(kind, id),
         kind \notin {"agentopenmind.trace", "agentopenmind.tainted"}
  PROVE  SaysNothing /\ counts' = counts
BY AppendsTo DEF SaysNothing, Scored, Tainted

LEMMA SameLog ==
  ASSUME log' = log
  PROVE  SaysNothing
BY DEF SaysNothing, Scored, Tainted

\* What a page leaves on the log is said of nobody's trace.
LEMMA ToldSays ==
  ASSUME NEW id, Told(id)
  PROVE  SaysNothing /\ counts' = counts
<1>1. CASE UNCHANGED <<log, counts>>
  BY <1>1, SameLog
<1>2. ASSUME NEW kind \in {"human.notified", "human.notify_failed"}, Appends(kind, id)
      PROVE  SaysNothing /\ counts' = counts
  BY <1>2, OtherLine
<1> QED
  BY <1>1, <1>2 DEF Told

\* The traces and the numbers given stand; a submission goes on or ends.
LEMMA IdsStand ==
  ASSUME TraceInv, Typed', traces' = traces, counts'.traces = counts.traces,
         \A t \in Spokes : Busy(t)' => Busy(t) /\ spoke'[t].id = spoke[t].id
  PROVE  IdsInv'
<1>1. \A id : Kept(traces', id) <=> Kept(traces, id)
  BY DEF Kept
<1>2. /\ \A k \in DOMAIN traces : traces[k].id <= counts.traces
      /\ \A j, k \in DOMAIN traces : traces[j].id = traces[k].id => j = k
      /\ \A t \in Spokes : Busy(t) =>
           /\ spoke[t].id <= counts.traces /\ ~Kept(traces, spoke[t].id)
           /\ \A u \in Spokes : Busy(u) /\ spoke[u].id = spoke[t].id => u = t
  BY DEF TraceInv, IdsInv
<1>3. \A t \in Spokes : Busy(t)' =>
        /\ spoke'[t].id <= counts'.traces /\ ~Kept(traces', spoke'[t].id)
        /\ \A u \in Spokes : Busy(u)' /\ spoke'[u].id = spoke'[t].id => u = t
  BY <1>1, <1>2 DEF Kept
<1> QED
  BY <1>2, <1>3 DEF IdsInv

\* A step whose submissions keep their numbers keeps what the log says of traces,
\* if all it adds is a score of a thought or a taint of a blank.
LEMMA FlagsStand ==
  ASSUME TraceInv, Typed', traces' = traces, counts'.traces = counts.traces,
         log \subseteq log', integrity \subseteq integrity',
         \A id : Scored(log', id) =>
           \/ Scored(log, id)
           \/ \E k \in DOMAIN traces : traces[k].id = id /\ ~traces[k].blank,
         \A id : Tainted(log', id) =>
           \/ Tainted(log, id)
           \/ \E k \in DOMAIN traces : traces[k].id = id /\ traces[k].blank
           \/ \E t \in Spokes : Busy(t) /\ spoke[t].id = id /\ spoke[t].blank,
         \A t \in Spokes : Busy(t)' =>
           /\ Busy(t) /\ spoke'[t].id = spoke[t].id
           /\ spoke'[t].blank = spoke[t].blank /\ spoke'[t].tainted = spoke[t].tainted
           /\ spoke'[t].tainted => spoke'[t].pc # "declare"
           /\ spoke'[t].pc \in {"land", "taint"} => spoke'[t].tainted
           /\ spoke'[t].pc = "taint" => spoke'[t].id \in integrity'
           /\ spoke'[t].pc = "keep" /\ spoke'[t].tainted =>
                Tainted(log', spoke'[t].id) /\ spoke'[t].id \in integrity'
  PROVE  FlagInv'
<1>1. /\ \A k \in DOMAIN traces : traces[k].id \in Nat /\ traces[k].blank \in BOOLEAN
      /\ \A t \in Spokes : Busy(t) => spoke[t].id \in Nat /\ spoke[t].blank \in BOOLEAN
      /\ counts.traces \in Nat
  <2>1. \A k \in DOMAIN traces : traces[k] \in Taken
    BY DEF TraceInv, Typed
  <2>2. \A t \in Spokes : Busy(t) => spoke[t] \in Submission
    BY DEF TraceInv, Typed, Busy, Idle
  <2>3. counts.traces \in Nat
    BY DEF TraceInv, Typed
  <2> QED
    BY <2>1, <2>2, <2>3 DEF Submission, Taken
<1>2. /\ \A k \in DOMAIN traces : traces[k].id <= counts.traces
      /\ \A j, k \in DOMAIN traces : traces[j].id = traces[k].id => j = k
      /\ \A t \in Spokes : Busy(t) =>
           /\ spoke[t].id <= counts.traces /\ ~Kept(traces, spoke[t].id)
           /\ \A u \in Spokes : Busy(u) /\ spoke[u].id = spoke[t].id => u = t
  BY DEF TraceInv, IdsInv
<1>3. /\ \A id \in Nat : id > counts.traces => ~Scored(log, id) /\ ~Tainted(log, id)
      /\ \A k \in DOMAIN traces :
           /\ traces[k].blank => ~Scored(log, traces[k].id)
           /\ ~traces[k].blank => ~Tainted(log, traces[k].id)
           /\ traces[k].tainted => traces[k].blank /\ Tainted(log, traces[k].id) /\ traces[k].id \in integrity
      /\ \A t \in Spokes : Busy(t) =>
           /\ ~Scored(log, spoke[t].id)
           /\ ~spoke[t].blank => ~Tainted(log, spoke[t].id)
           /\ spoke[t].tainted => spoke[t].blank
  BY DEF TraceInv, FlagInv
<1>4. \A id : Tainted(log, id) => Tainted(log', id)
  BY DEF Tainted
<1>5. ASSUME NEW id \in Nat, id > counts'.traces PROVE ~Scored(log', id) /\ ~Tainted(log', id)
  <2>1. \A k \in DOMAIN traces : traces[k].id # id
    BY <1>1, <1>2, <1>5
  <2>2. \A t \in Spokes : Busy(t) => spoke[t].id # id
    BY <1>1, <1>2, <1>5
  <2> QED
    BY <1>3, <1>5, <2>1, <2>2
<1>6. ASSUME NEW k \in DOMAIN traces
      PROVE  /\ traces[k].blank => ~Scored(log', traces[k].id)
             /\ ~traces[k].blank => ~Tainted(log', traces[k].id)
             /\ traces[k].tainted =>
                  traces[k].blank /\ Tainted(log', traces[k].id) /\ traces[k].id \in integrity'
  <2>1. \A t \in Spokes : Busy(t) => spoke[t].id # traces[k].id
    BY <1>2 DEF Kept
  <2>2. \A j \in DOMAIN traces : traces[j].id = traces[k].id => j = k
    BY <1>2
  <2> QED
    BY <1>3, <1>4, <2>1, <2>2
<1>7. ASSUME NEW t \in Spokes, Busy(t)'
      PROVE  /\ ~Scored(log', spoke[t].id)
             /\ ~spoke[t].blank => ~Tainted(log', spoke[t].id)
             /\ spoke[t].tainted => spoke[t].blank
  <2>1. Busy(t)
    BY <1>7
  <2>2. \A j \in DOMAIN traces : traces[j].id # spoke[t].id
    BY <1>2, <2>1 DEF Kept
  <2>3. \A u \in Spokes : Busy(u) /\ spoke[u].id = spoke[t].id => u = t
    BY <1>2, <2>1
  <2> QED
    BY <1>3, <2>1, <2>2, <2>3
<1>8. ASSUME NEW t \in Spokes, Busy(t)'
      PROVE  /\ ~Scored(log', spoke'[t].id)
             /\ ~spoke'[t].blank => ~Tainted(log', spoke'[t].id)
             /\ spoke'[t].tainted => spoke'[t].blank
  <2>1. spoke'[t].id = spoke[t].id /\ spoke'[t].blank = spoke[t].blank
        /\ spoke'[t].tainted = spoke[t].tainted
    BY <1>8
  <2>2. /\ ~Scored(log', spoke[t].id) => ~Scored(log', spoke'[t].id)
        /\ ~Tainted(log', spoke[t].id) => ~Tainted(log', spoke'[t].id)
    BY <2>1 DEF Scored, Tainted
  <2> QED
    BY <1>7, <1>8, <2>1, <2>2
<1> QED
  BY <1>5, <1>6, <1>8 DEF FlagInv, Busy, Scored, Tainted

\* What is settled stays so, and new traces stand behind the loop.
LEMMA SettledStays ==
  ASSUME Typed, log \subseteq log', integrity \subseteq integrity',
         traces' = traces \/ \E x : traces' = Append(traces, x)
  PROVE  /\ Len(traces) \in Nat /\ DOMAIN traces = 1 .. Len(traces) /\ DOMAIN traces' = 1 .. Len(traces')
         /\ Len(traces') \in {Len(traces), Len(traces) + 1}
         /\ \A k \in DOMAIN traces : /\ k \in DOMAIN traces' /\ traces'[k] = traces[k]
                                     /\ Settled(k) => Settled(k)'
         /\ \A id : Kept(traces, id) => Kept(traces', id)
<1>1. /\ Len(traces) \in Nat /\ DOMAIN traces = 1 .. Len(traces) /\ DOMAIN traces' = 1 .. Len(traces')
      /\ Len(traces') \in {Len(traces), Len(traces) + 1}
      /\ \A k \in DOMAIN traces : k \in DOMAIN traces' /\ traces'[k] = traces[k]
  <2>1. traces \in Seq(Taken)
    BY DEF Typed
  <2>2. CASE traces' = traces
    BY <2>1, <2>2
  <2>3. ASSUME NEW x, traces' = Append(traces, x)
        PROVE  /\ Len(traces) \in Nat /\ DOMAIN traces = 1 .. Len(traces)
               /\ DOMAIN traces' = 1 .. Len(traces')
               /\ Len(traces') \in {Len(traces), Len(traces) + 1}
               /\ \A k \in DOMAIN traces : k \in DOMAIN traces' /\ traces'[k] = traces[k]
    BY <2>1, <2>3
  <2> QED
    BY <2>2, <2>3
<1>2. \A k \in DOMAIN traces : Settled(k) => Settled(k)'
  BY <1>1 DEF Settled, Scored, Tainted
<1>3. \A id : Kept(traces, id) => Kept(traces', id)
  BY <1>1 DEF Kept
<1> QED
  BY <1>1, <1>2, <1>3

\* The loop stands where it was.
LEMMA LooksStand ==
  ASSUME TraceInv, log \subseteq log', integrity \subseteq integrity',
         traces' = traces \/ (\E x : traces' = Append(traces, x)),
         look' = look, reviewed' = reviewed
  PROVE  LookInv'
<1>1. /\ Len(traces) \in Nat /\ DOMAIN traces = 1 .. Len(traces) /\ DOMAIN traces' = 1 .. Len(traces')
      /\ Len(traces') \in {Len(traces), Len(traces) + 1}
      /\ \A k \in DOMAIN traces : /\ k \in DOMAIN traces' /\ traces'[k] = traces[k]
                                  /\ Settled(k) => Settled(k)'
      /\ \A id : Kept(traces, id) => Kept(traces', id)
  BY SettledStays DEF TraceInv
<1>2. CASE look.pc \in {"trace", "taint"}
  <2>1. /\ look.next \in 1 .. Len(traces) + 1
        /\ \A k \in DOMAIN traces : k < look.next => Settled(k)
        /\ \A id \in look.met : Kept(traces, id)
        /\ look.pc = "taint" => /\ look.next \in DOMAIN traces /\ traces[look.next].blank
                                /\ traces[look.next].id \in integrity
        /\ \A id \in reviewed : \E k \in DOMAIN traces : traces[k].id = id /\ Settled(k)
    BY <1>2 DEF TraceInv, LookInv
  <2>0. PICK m, n : m = Len(traces) /\ n = Len(traces')
    OBVIOUS
  <2>7. /\ m \in Nat /\ n \in {m, m + 1} /\ look.next \in 1 .. m + 1
        /\ DOMAIN traces = 1 .. m /\ DOMAIN traces' = 1 .. n
    BY <1>1, <2>0, <2>1
  <2>2. look.next \in 1 .. n + 1
    BY <2>7
  <2>3. \A k \in DOMAIN traces' : k < look.next => k \in DOMAIN traces
    <3>1. \A k \in 1 .. n : k < look.next => k \in 1 .. m
      BY <2>7
    <3> QED
      BY <2>7, <3>1
  <2>4. \A id \in reviewed' : \E k \in DOMAIN traces' : traces'[k].id = id /\ Settled(k)'
    BY <1>1, <2>1
  <2>5. /\ \A k \in DOMAIN traces' : k < look'.next => Settled(k)'
        /\ \A id \in look'.met : Kept(traces', id)
    BY <1>1, <2>1, <2>3
  <2>6. look'.pc = "taint" => /\ look'.next \in DOMAIN traces' /\ traces'[look'.next].blank
                              /\ traces'[look'.next].id \in integrity'
    BY <1>1, <2>1
  <2> QED
    BY <2>0, <2>2, <2>4, <2>5, <2>6 DEF LookInv
<1>3. CASE look.pc \notin {"trace", "taint"}
  <2>1. \A id \in reviewed : \E k \in DOMAIN traces : traces[k].id = id /\ Settled(k)
    BY DEF TraceInv, LookInv
  <2>2. \A id \in reviewed' : \E k \in DOMAIN traces' : traces'[k].id = id /\ Settled(k)'
    BY <1>1, <2>1
  <2> QED
    BY <1>3, <2>2 DEF LookInv
<1> QED
  BY <1>2, <1>3

\* A step of a submission that is neither its first nor its last.
LEMMA SubmissionGoesOn ==
  ASSUME TraceInv, NEW t \in Spokes, Declare(t) \/ LandTainted(t) \/ Taint(t)
  PROVE  TraceInv'
<1>0. Typed /\ spoke \in [Spokes -> {Idle} \cup Submission]
  BY DEF TraceInv, Typed
<1>1. /\ spoke[t].pc \in {"declare", "land", "taint"}
      /\ UNCHANGED <<traces, look, reviewed>>
  BY DEF Declare, LandTainted, Taint
<1>2. Busy(t) /\ spoke[t] \in Submission
  BY <1>0, <1>1 DEF Busy, Idle
<1>3. /\ spoke[t].tainted => spoke[t].blank /\ spoke[t].pc # "declare"
      /\ spoke[t].pc \in {"land", "taint"} => spoke[t].tainted
      /\ spoke[t].pc = "taint" => spoke[t].id \in integrity
  BY <1>2 DEF TraceInv, FlagInv
<1>4. PICK x : spoke' = [spoke EXCEPT ![t] = x] /\ x \in {Idle} \cup Submission
               /\ (x = Idle \/ (x.id = spoke[t].id /\ x.blank = spoke[t].blank /\ x.tainted = spoke[t].tainted))
  <2>1. \A pc \in {"keep", "taint"} :
          /\ [spoke[t] EXCEPT !.pc = pc] \in Submission
          /\ [spoke[t] EXCEPT !.pc = pc].id = spoke[t].id
          /\ [spoke[t] EXCEPT !.pc = pc].blank = spoke[t].blank
          /\ [spoke[t] EXCEPT !.pc = pc].tainted = spoke[t].tainted
    BY <1>2 DEF Submission
  <2>2. \/ spoke' = [spoke EXCEPT ![t] = Idle]
        \/ \E pc \in {"keep", "taint"} : spoke' = [spoke EXCEPT ![t] = [spoke[t] EXCEPT !.pc = pc]]
    BY DEF Declare, LandTainted, Taint
  <2> QED
    BY <2>1, <2>2
<1>5. /\ counts' \in [traces : Nat, thoughts : Nat, looks : Nat, fails : Nat]
      /\ counts'.traces = counts.traces
      /\ log \subseteq log' /\ integrity \subseteq integrity'
      /\ \A id : Scored(log', id) => Scored(log, id)
      /\ \A id : Tainted(log', id) =>
           Tainted(log, id) \/ (id = spoke[t].id /\ spoke[t].pc = "taint")
  <2>1. counts \in [traces : Nat, thoughts : Nat, looks : Nat, fails : Nat]
    BY <1>0 DEF Typed
  <2>2. CASE Raises
    <3>1. /\ log' = log /\ counts'.traces = counts.traces
          /\ counts' \in [traces : Nat, thoughts : Nat, looks : Nat, fails : Nat]
      BY <1>0, <2>2, RaisesCounts
    <3>2. integrity \subseteq integrity'
      BY DEF Declare, LandTainted, Taint, Land
    <3> QED
      BY <3>1, <3>2
  <2>3. CASE Declare(t) /\ Appends("agentopenmind.unarmed", 0)
    <3>1. SaysNothing /\ counts' = counts
      BY <2>3, OtherLine
    <3> QED
      BY <2>1, <2>3, <3>1 DEF Declare, SaysNothing
  <2>4. CASE LandTainted(t) /\ Told(spoke[t].id)
    <3>1. SaysNothing /\ counts' = counts
      BY <2>4, ToldSays
    <3> QED
      BY <2>1, <2>4, <3>1 DEF LandTainted, Land, SaysNothing
  <2>5. CASE Taint(t) /\ Appends("agentopenmind.tainted", spoke[t].id)
    <3>1. /\ counts' = counts /\ log \subseteq log'
          /\ \A k, i : [kind |-> k, id |-> i] \in log' <=>
               [kind |-> k, id |-> i] \in log \/ (k = "agentopenmind.tainted" /\ i = spoke[t].id)
      BY <2>5, AppendsTo
    <3>2. \A id : Scored(log', id) => Scored(log, id)
      BY <3>1 DEF Scored
    <3>3. \A id : Tainted(log', id) => Tainted(log, id) \/ id = spoke[t].id
      BY <3>1 DEF Tainted
    <3> QED
      BY <2>1, <2>5, <3>1, <3>2, <3>3 DEF Taint
  <2> QED
    BY <2>2, <2>3, <2>4, <2>5 DEF Declare, LandTainted, Taint
<1>6. /\ spoke'[t] = x /\ \A u \in Spokes : u # t => spoke'[u] = spoke[u]
      /\ spoke' \in [Spokes -> {Idle} \cup Submission]
  BY <1>0, <1>4
<1>7. x # Idle => /\ x.pc \in {"keep", "taint"} /\ Busy(t)
                  /\ x.pc = "taint" => x.tainted /\ x.id \in integrity'
                  /\ x.pc = "keep" /\ x.tainted => Tainted(log', x.id) /\ x.id \in integrity'
  <2>1. CASE Declare(t)
    <3>1. x = Idle \/ x = [spoke[t] EXCEPT !.pc = "keep"]
      BY <1>0, <1>6, <2>1 DEF Declare
    <3>2. spoke[t].pc = "declare" /\ ~spoke[t].tainted
      BY <1>3, <2>1 DEF Declare
    <3>3. [spoke[t] EXCEPT !.pc = "keep"].pc = "keep"
      BY <1>2 DEF Submission
    <3> QED
      BY <1>2, <1>4, <3>1, <3>2, <3>3
  <2>2. CASE LandTainted(t)
    <3>1. x = Idle \/ x = [spoke[t] EXCEPT !.pc = "taint"]
      BY <1>0, <1>6, <2>2 DEF LandTainted
    <3>2. spoke[t].tainted /\ spoke[t].id \in integrity'
      BY <1>3, <2>2 DEF LandTainted, Land
    <3>3. [spoke[t] EXCEPT !.pc = "taint"].pc = "taint"
      BY <1>2 DEF Submission
    <3> QED
      BY <1>2, <1>4, <3>1, <3>2, <3>3
  <2>3. CASE Taint(t)
    <3>1. x = Idle \/ (x = [spoke[t] EXCEPT !.pc = "keep"] /\ Appends("agentopenmind.tainted", spoke[t].id))
      BY <1>0, <1>6, <2>3 DEF Taint
    <3>2. Appends("agentopenmind.tainted", spoke[t].id) => Tainted(log', spoke[t].id)
      BY DEF Appends, Line, Tainted
    <3>3. [spoke[t] EXCEPT !.pc = "keep"].pc = "keep"
      BY <1>2 DEF Submission
    <3>4. spoke[t].id \in integrity'
      BY <1>3, <1>5, <2>3 DEF Taint
    <3> QED
      BY <1>2, <1>4, <3>1, <3>2, <3>3, <3>4
  <2> QED
    BY <2>1, <2>2, <2>3
<1>8. Typed'
  <2>1. traces' = traces /\ look' = look
    BY <1>1
  <2> QED
    BY <1>0, <1>5, <1>6, <2>1 DEF Typed
<1>9. \A u \in Spokes : Busy(u)' =>
        /\ Busy(u) /\ spoke'[u].id = spoke[u].id
        /\ spoke'[u].blank = spoke[u].blank /\ spoke'[u].tainted = spoke[u].tainted
        /\ spoke'[u].tainted => spoke'[u].pc # "declare"
        /\ spoke'[u].pc \in {"land", "taint"} => spoke'[u].tainted
        /\ spoke'[u].pc = "taint" => spoke'[u].id \in integrity'
        /\ spoke'[u].pc = "keep" /\ spoke'[u].tainted =>
             Tainted(log', spoke'[u].id) /\ spoke'[u].id \in integrity'
  <2> SUFFICES ASSUME NEW u \in Spokes, Busy(u)'
               PROVE  /\ Busy(u) /\ spoke'[u].id = spoke[u].id
                      /\ spoke'[u].blank = spoke[u].blank /\ spoke'[u].tainted = spoke[u].tainted
                      /\ spoke'[u].tainted => spoke'[u].pc # "declare"
                      /\ spoke'[u].pc \in {"land", "taint"} => spoke'[u].tainted
                      /\ spoke'[u].pc = "taint" => spoke'[u].id \in integrity'
                      /\ spoke'[u].pc = "keep" /\ spoke'[u].tainted =>
                           Tainted(log', spoke'[u].id) /\ spoke'[u].id \in integrity'
    OBVIOUS
  <2>1. CASE u = t
    <3>1. x # Idle
      BY <1>6, <2>1 DEF Busy, Idle
    <3> QED
      BY <1>4, <1>6, <1>7, <2>1, <3>1
  <2>2. CASE u # t
    <3>1. spoke'[u] = spoke[u] /\ Busy(u)
      BY <1>6, <2>2 DEF Busy
    <3>2. /\ spoke[u].tainted => spoke[u].pc # "declare"
          /\ spoke[u].pc \in {"land", "taint"} => spoke[u].tainted
          /\ spoke[u].pc = "taint" => spoke[u].id \in integrity
          /\ spoke[u].pc = "keep" /\ spoke[u].tainted =>
               Tainted(log, spoke[u].id) /\ spoke[u].id \in integrity
      BY <3>1 DEF TraceInv, FlagInv
    <3>3. Tainted(log, spoke[u].id) => Tainted(log', spoke[u].id)
      BY <1>5 DEF Tainted
    <3> QED
      BY <1>5, <3>1, <3>2, <3>3
  <2> QED
    BY <2>1, <2>2
<1>10. traces' = traces /\ look' = look /\ reviewed' = reviewed
  BY <1>1
<1>11. IdsInv'
  BY <1>5, <1>8, <1>9, <1>10, IdsStand
<1>12. FlagInv'
  <2>1. \A id : Tainted(log', id) => \/ Tainted(log, id)
                                     \/ \E u \in Spokes : Busy(u) /\ spoke[u].id = id /\ spoke[u].blank
    BY <1>2, <1>3, <1>5
  <2> QED
    BY <1>5, <1>8, <1>9, <1>10, <2>1, FlagsStand
<1>13. LookInv'
  BY <1>5, <1>10, LooksStand
<1> QED
  BY <1>8, <1>11, <1>12, <1>13 DEF TraceInv

\* A new submission takes a new number.
LEMMA SubmitStep ==
  ASSUME TraceInv, NEW t \in Spokes, Submit(t)
  PROVE  TraceInv'
<1>0. /\ Typed /\ spoke \in [Spokes -> {Idle} \cup Submission] /\ counts.traces \in Nat
      /\ counts \in [traces : Nat, thoughts : Nat, looks : Nat, fails : Nat]
  BY DEF TraceInv, Typed
<1> DEFINE id == counts.traces + 1
<1>1. /\ counts'.traces = id
      /\ counts' \in [traces : Nat, thoughts : Nat, looks : Nat, fails : Nat]
      /\ UNCHANGED <<traces, log, integrity, look, reviewed>>
  BY <1>0 DEF Submit, Tick
<1>2. PICK x : /\ spoke' = [spoke EXCEPT ![t] = x] /\ x \in Submission /\ x.id = id
               /\ x.pc # "taint" /\ (x.pc = "land" <=> x.tainted) /\ (x.tainted => x.blank)
  <2>1. PICK blank \in BOOLEAN, pc \in {"land", "declare", "keep"} :
          /\ (pc = "land") = (installed /\ blank)
          /\ spoke' = [spoke EXCEPT ![t] = [pc |-> pc, id |-> id, blank |-> blank,
                                            tainted |-> installed /\ blank]]
    BY DEF Submit
  <2> DEFINE x == [pc |-> pc, id |-> id, blank |-> blank, tainted |-> installed /\ blank]
  <2>2. /\ x.id = id /\ x.pc = pc /\ x.blank = blank /\ x.tainted = (installed /\ blank)
    OBVIOUS
  <2>3. x \in Submission
    <3>1. id \in Nat /\ (installed /\ blank) \in BOOLEAN
      BY <1>0
    <3> QED
      BY <3>1 DEF Submission
  <2>4. spoke' = [spoke EXCEPT ![t] = x]
    BY <2>1
  <2> HIDE DEF x
  <2>5. x.pc # "taint" /\ (x.pc = "land" <=> x.tainted) /\ (x.tainted => x.blank)
    BY <2>1, <2>2
  <2> QED
    BY <2>2, <2>3, <2>4, <2>5
<1>3. /\ spoke'[t] = x /\ \A u \in Spokes : u # t => spoke'[u] = spoke[u]
      /\ spoke' \in [Spokes -> {Idle} \cup Submission]
      /\ id \in Nat /\ id > counts.traces
  BY <1>0, <1>2
<1>4. Typed'
  BY <1>0, <1>1, <1>3 DEF Typed
<1>5. /\ \A k \in DOMAIN traces : traces[k].id <= counts.traces /\ traces[k].id \in Nat
      /\ \A j, k \in DOMAIN traces : traces[j].id = traces[k].id => j = k
      /\ \A u \in Spokes : Busy(u) =>
           /\ spoke[u].id <= counts.traces /\ spoke[u].id \in Nat /\ ~Kept(traces, spoke[u].id)
           /\ \A v \in Spokes : Busy(v) /\ spoke[v].id = spoke[u].id => v = u
  <2>1. \A k \in DOMAIN traces : traces[k] \in Taken
    BY <1>0 DEF Typed
  <2>2. \A u \in Spokes : Busy(u) => spoke[u] \in Submission
    BY <1>0 DEF Busy, Idle
  <2> QED
    BY <2>1, <2>2 DEF TraceInv, IdsInv, Taken, Submission
<1> HIDE DEF id
<1>6. /\ ~Kept(traces, id) /\ \A k \in DOMAIN traces : traces[k].id <= id
      /\ \A u \in Spokes : Busy(u) => spoke[u].id # id /\ spoke[u].id <= id
  BY <1>0, <1>3, <1>5 DEF Kept
<1>7. IdsInv'
  <2>1. ASSUME NEW u \in Spokes, Busy(u)'
        PROVE  /\ spoke'[u].id <= counts'.traces /\ ~Kept(traces', spoke'[u].id)
               /\ \A v \in Spokes : Busy(v)' /\ spoke'[v].id = spoke'[u].id => v = u
    <3>1. \A v \in Spokes : v # t => (Busy(v)' => Busy(v)) /\ spoke'[v] = spoke[v]
      BY <1>3 DEF Busy
    <3>2. CASE u = t
      BY <1>1, <1>2, <1>3, <1>6, <3>1, <3>2
    <3>3. CASE u # t
      <4>1. Busy(u) /\ spoke'[u] = spoke[u] /\ spoke[u].id # id
        BY <1>6, <2>1, <3>1, <3>3
      <4>2. \A v \in Spokes : Busy(v)' /\ spoke'[v].id = spoke'[u].id => v # t
        BY <1>2, <1>3, <4>1
      <4> QED
        BY <1>1, <1>5, <1>6, <3>1, <4>1, <4>2
    <3> QED
      BY <3>2, <3>3
  <2> QED
    BY <1>1, <1>5, <1>6, <2>1 DEF IdsInv
<1>8. FlagInv'
  <2>1. ~Scored(log, id) /\ ~Tainted(log, id)
    BY <1>3 DEF TraceInv, FlagInv
  <2>2. \A i \in Nat : i > counts'.traces => ~Scored(log, i) /\ ~Tainted(log, i)
    <3>1. \A i \in Nat : i > id => i > counts.traces
      BY <1>0, <1>3
    <3> QED
      BY <1>1, <3>1 DEF TraceInv, FlagInv
  <2>3. ASSUME NEW u \in Spokes, Busy(u)'
        PROVE  /\ ~Scored(log, spoke'[u].id)
               /\ ~spoke'[u].blank => ~Tainted(log, spoke'[u].id)
               /\ spoke'[u].tainted => spoke'[u].blank /\ spoke'[u].pc # "declare"
               /\ spoke'[u].pc \in {"land", "taint"} => spoke'[u].tainted
               /\ spoke'[u].pc = "taint" => spoke'[u].id \in integrity
               /\ spoke'[u].pc = "keep" /\ spoke'[u].tainted =>
                    Tainted(log, spoke'[u].id) /\ spoke'[u].id \in integrity
    <3>1. CASE u = t
      BY <1>2, <1>3, <2>1, <3>1
    <3>2. CASE u # t
      <4>1. spoke'[u] = spoke[u] /\ Busy(u)
        BY <1>3, <2>3, <3>2 DEF Busy
      <4>2. /\ ~Scored(log, spoke[u].id)
            /\ ~spoke[u].blank => ~Tainted(log, spoke[u].id)
            /\ spoke[u].tainted => spoke[u].blank /\ spoke[u].pc # "declare"
            /\ spoke[u].pc \in {"land", "taint"} => spoke[u].tainted
            /\ spoke[u].pc = "taint" => spoke[u].id \in integrity
            /\ spoke[u].pc = "keep" /\ spoke[u].tainted =>
                 Tainted(log, spoke[u].id) /\ spoke[u].id \in integrity
        BY <4>1 DEF TraceInv, FlagInv
      <4> QED
        BY <4>1, <4>2
    <3> QED
      BY <3>1, <3>2
  <2>4. /\ \A k \in DOMAIN traces :
             /\ traces[k].blank => ~Scored(log, traces[k].id)
             /\ ~traces[k].blank => ~Tainted(log, traces[k].id)
             /\ traces[k].tainted => traces[k].blank /\ Tainted(log, traces[k].id) /\ traces[k].id \in integrity
    BY DEF TraceInv, FlagInv
  <2> QED
    BY <1>1, <2>2, <2>3, <2>4 DEF FlagInv, Busy, Scored, Tainted
<1>9. LookInv'
  BY <1>1, LooksStand
<1> QED
  BY <1>4, <1>7, <1>8, <1>9 DEF TraceInv

\* A submission ends as a trace, whether its line was written or not.
LEMMA KeepStep ==
  ASSUME TraceInv, NEW t \in Spokes, Keep(t)
  PROVE  TraceInv'
<1>0. /\ Typed /\ spoke \in [Spokes -> {Idle} \cup Submission] /\ traces \in Seq(Taken)
      /\ counts \in [traces : Nat, thoughts : Nat, looks : Nat, fails : Nat]
  BY DEF TraceInv, Typed
<1>1. /\ spoke[t].pc = "keep" /\ spoke' = [spoke EXCEPT ![t] = Idle]
      /\ UNCHANGED <<integrity, look, reviewed>>
  BY DEF Keep
<1>2. Busy(t) /\ spoke[t] \in Submission
  BY <1>0, <1>1 DEF Busy, Idle
<1> DEFINE x == [id |-> spoke[t].id, blank |-> spoke[t].blank, tainted |-> spoke[t].tainted]
           n == Len(traces) + 1
<1>3. /\ x \in Taken /\ x.id = spoke[t].id /\ x.blank = spoke[t].blank /\ x.tainted = spoke[t].tainted
      /\ traces' = Append(traces, x)
  BY <1>2 DEF Keep, Submission, Taken
<1> HIDE DEF x
<1>4. /\ traces' \in Seq(Taken) /\ DOMAIN traces' = 1 .. n /\ DOMAIN traces = 1 .. n - 1 /\ n \in Nat \ {0}
      /\ traces'[n] = x /\ \A k \in DOMAIN traces : traces'[k] = traces[k]
  BY <1>0, <1>3
<1> HIDE DEF n
<1>5. /\ SaysNothing /\ counts'.traces = counts.traces
      /\ counts' \in [traces : Nat, thoughts : Nat, looks : Nat, fails : Nat]
  <2>1. CASE Appends("spoke.trace", spoke[t].id)
    <3>1. SaysNothing /\ counts' = counts
      BY <2>1, OtherLine
    <3> QED
      BY <1>0, <3>1
  <2>2. CASE Raises
    <3>1. log' = log /\ counts'.traces = counts.traces
          /\ counts' \in [traces : Nat, thoughts : Nat, looks : Nat, fails : Nat]
      BY <1>0, <2>2, RaisesCounts
    <3> QED
      BY <3>1, SameLog
  <2> QED
    BY <2>1, <2>2 DEF Keep
<1>6. /\ ~Busy(t)' /\ \A u \in Spokes : Busy(u)' => u # t /\ Busy(u) /\ spoke'[u] = spoke[u]
      /\ spoke' \in [Spokes -> {Idle} \cup Submission]
  BY <1>0, <1>1 DEF Busy, Idle
<1>7. Typed'
  BY <1>0, <1>1, <1>4, <1>5, <1>6 DEF Typed
<1>8. /\ \A k \in DOMAIN traces : traces[k].id <= counts.traces
      /\ \A j, k \in DOMAIN traces : traces[j].id = traces[k].id => j = k
      /\ \A u \in Spokes : Busy(u) =>
           /\ spoke[u].id <= counts.traces /\ \A k \in DOMAIN traces : traces[k].id # spoke[u].id
           /\ \A v \in Spokes : Busy(v) /\ spoke[v].id = spoke[u].id => v = u
  BY DEF TraceInv, IdsInv, Kept
<1>9. \A k \in DOMAIN traces' : k = n \/ (k # n /\ k \in DOMAIN traces)
  BY <1>4
<1>10. IdsInv'
  <2>1. \A k \in DOMAIN traces' : traces'[k].id <= counts'.traces
    BY <1>2, <1>3, <1>4, <1>5, <1>8, <1>9
  <2>2. \A j, k \in DOMAIN traces' : traces'[j].id = traces'[k].id => j = k
    <3>1. \A k \in DOMAIN traces : traces'[k].id # traces'[n].id
      BY <1>2, <1>3, <1>4, <1>8
    <3> QED
      BY <1>4, <1>8, <1>9, <3>1
  <2>3. ASSUME NEW u \in Spokes, Busy(u)'
        PROVE  /\ spoke'[u].id <= counts'.traces
               /\ \A k \in DOMAIN traces' : traces'[k].id # spoke'[u].id
               /\ \A v \in Spokes : Busy(v)' /\ spoke'[v].id = spoke'[u].id => v = u
    <3>1. u # t /\ Busy(u) /\ spoke'[u] = spoke[u]
      BY <1>6, <2>3
    <3>2. spoke[u].id # spoke[t].id
      BY <1>2, <1>8, <3>1
    <3>3. \A v \in Spokes : Busy(v)' => Busy(v) /\ spoke'[v] = spoke[v]
      BY <1>6
    <3> QED
      BY <1>3, <1>4, <1>5, <1>8, <1>9, <3>1, <3>2, <3>3
  <2> QED
    BY <2>1, <2>2, <2>3 DEF IdsInv, Kept
<1>11. FlagInv'
  <2>0. \A id : (Scored(log', id) <=> Scored(log, id)) /\ (Tainted(log', id) <=> Tainted(log, id))
    BY <1>5 DEF SaysNothing
  <2>1. /\ \A id \in Nat : id > counts.traces => ~Scored(log, id) /\ ~Tainted(log, id)
        /\ \A k \in DOMAIN traces :
             /\ traces[k].blank => ~Scored(log, traces[k].id)
             /\ ~traces[k].blank => ~Tainted(log, traces[k].id)
             /\ traces[k].tainted => traces[k].blank /\ Tainted(log, traces[k].id) /\ traces[k].id \in integrity
    BY DEF TraceInv, FlagInv
  <2>2. \A u \in Spokes : Busy(u) =>
          /\ ~Scored(log, spoke[u].id)
          /\ ~spoke[u].blank => ~Tainted(log, spoke[u].id)
          /\ spoke[u].tainted => spoke[u].blank /\ spoke[u].pc # "declare"
          /\ spoke[u].pc \in {"land", "taint"} => spoke[u].tainted
          /\ spoke[u].pc = "taint" => spoke[u].id \in integrity
          /\ spoke[u].pc = "keep" /\ spoke[u].tainted =>
               Tainted(log, spoke[u].id) /\ spoke[u].id \in integrity
    BY DEF TraceInv, FlagInv
  <2>3. ASSUME NEW k \in DOMAIN traces'
        PROVE  /\ traces'[k].blank => ~Scored(log', traces'[k].id)
               /\ ~traces'[k].blank => ~Tainted(log', traces'[k].id)
               /\ traces'[k].tainted =>
                    traces'[k].blank /\ Tainted(log', traces'[k].id) /\ traces'[k].id \in integrity
    <3>1. CASE k = n
      <4>1. /\ ~Scored(log, x.id) /\ (~x.blank => ~Tainted(log, x.id))
            /\ x.tainted => x.blank /\ Tainted(log, x.id) /\ x.id \in integrity
        BY <1>1, <1>2, <1>3, <2>2
      <4> QED
        BY <1>4, <2>0, <3>1, <4>1
    <3>2. CASE k # n
      <4>1. k \in DOMAIN traces /\ traces'[k] = traces[k]
        BY <1>4, <1>9, <3>2
      <4> QED
        BY <2>0, <2>1, <4>1
    <3> QED
      BY <3>1, <3>2
  <2>4. ASSUME NEW u \in Spokes, Busy(u)'
        PROVE  /\ ~Scored(log', spoke'[u].id)
               /\ ~spoke'[u].blank => ~Tainted(log', spoke'[u].id)
               /\ spoke'[u].tainted => spoke'[u].blank /\ spoke'[u].pc # "declare"
               /\ spoke'[u].pc \in {"land", "taint"} => spoke'[u].tainted
               /\ spoke'[u].pc = "taint" => spoke'[u].id \in integrity
               /\ spoke'[u].pc = "keep" /\ spoke'[u].tainted =>
                    Tainted(log', spoke'[u].id) /\ spoke'[u].id \in integrity
    <3>1. Busy(u) /\ spoke'[u] = spoke[u]
      BY <1>6, <2>4
    <3> QED
      BY <2>0, <2>2, <3>1
  <2>5. \A id \in Nat : id > counts'.traces => ~Scored(log', id) /\ ~Tainted(log', id)
    BY <1>5, <2>0, <2>1
  <2>6. integrity' = integrity
    BY <1>1
  <2> QED
    BY <2>3, <2>4, <2>5, <2>6 DEF FlagInv, Scored, Tainted
<1>12. LookInv'
  <2>1. log \subseteq log' /\ integrity \subseteq integrity' /\ look' = look /\ reviewed' = reviewed
    BY <1>1, <1>5 DEF SaysNothing
  <2>2. \E y : traces' = Append(traces, y)
    BY <1>3
  <2> QED
    BY <2>1, <2>2, LooksStand
<1> QED
  BY <1>7, <1>10, <1>11, <1>12 DEF TraceInv

\* A step of the hub or of the analysis: no submission moves, and what the log
\* newly says of a trace it says truly.
LEMMA AnalysisSays ==
  ASSUME TraceInv, spoke' = spoke, traces' = traces, counts'.traces = counts.traces,
         counts' \in [traces : Nat, thoughts : Nat, looks : Nat, fails : Nat],
         look' \in {Idle} \cup Looking \cup Scoring,
         log \subseteq log', integrity \subseteq integrity',
         \A id : Scored(log', id) =>
           \/ Scored(log, id)
           \/ \E k \in DOMAIN traces : traces[k].id = id /\ ~traces[k].blank,
         \A id : Tainted(log', id) =>
           \/ Tainted(log, id)
           \/ \E k \in DOMAIN traces : traces[k].id = id /\ traces[k].blank
  PROVE  Typed' /\ IdsInv' /\ FlagInv'
<1>1. Typed'
  BY DEF TraceInv, Typed
<1>2. \A t \in Spokes : Busy(t)' =>
        /\ Busy(t) /\ spoke'[t].id = spoke[t].id
        /\ spoke'[t].blank = spoke[t].blank /\ spoke'[t].tainted = spoke[t].tainted
        /\ spoke'[t].tainted => spoke'[t].pc # "declare"
        /\ spoke'[t].pc \in {"land", "taint"} => spoke'[t].tainted
        /\ spoke'[t].pc = "taint" => spoke'[t].id \in integrity'
        /\ spoke'[t].pc = "keep" /\ spoke'[t].tainted =>
             Tainted(log', spoke'[t].id) /\ spoke'[t].id \in integrity'
  <2>1. \A t \in Spokes : Busy(t) =>
          /\ spoke[t].tainted => spoke[t].pc # "declare"
          /\ spoke[t].pc \in {"land", "taint"} => spoke[t].tainted
          /\ spoke[t].pc = "taint" => spoke[t].id \in integrity
          /\ spoke[t].pc = "keep" /\ spoke[t].tainted =>
               Tainted(log, spoke[t].id) /\ spoke[t].id \in integrity
    BY DEF TraceInv, FlagInv
  <2>2. \A id : Tainted(log, id) => Tainted(log', id)
    BY DEF Tainted
  <2>3. \A t \in Spokes : Busy(t)' => Busy(t)
    BY DEF Busy
  <2> QED
    BY <2>1, <2>2, <2>3
<1>3. IdsInv'
  <2>1. \A t \in Spokes : Busy(t)' => Busy(t) /\ spoke'[t].id = spoke[t].id
    BY <1>2
  <2> QED
    BY <1>1, <2>1, IdsStand
<1>4. FlagInv'
  <2>1. \A id : Tainted(log', id) => \/ Tainted(log, id)
                                     \/ \E k \in DOMAIN traces : traces[k].id = id /\ traces[k].blank
                                     \/ \E t \in Spokes : Busy(t) /\ spoke[t].id = id /\ spoke[t].blank
    OBVIOUS
  <2> QED
    BY <1>1, <1>2, <2>1, FlagsStand
<1> QED
  BY <1>1, <1>3, <1>4

\* The analysis that is not in the loop over traces owes nothing to it.
LEMMA LookRests ==
  ASSUME TraceInv, log \subseteq log', integrity \subseteq integrity', traces' = traces,
         look'.pc \notin {"trace", "taint"}, reviewed' = reviewed
  PROVE  LookInv'
<1>1. \A k \in DOMAIN traces : Settled(k) => Settled(k)'
  BY DEF Settled, Scored, Tainted
<1>2. \A id \in reviewed : \E k \in DOMAIN traces : traces[k].id = id /\ Settled(k)
  BY DEF TraceInv, LookInv
<1>3. \A id \in reviewed' : \E k \in DOMAIN traces' : traces'[k].id = id /\ Settled(k)'
  BY <1>1, <1>2
<1> QED
  BY <1>3 DEF LookInv

\* The loop goes on from a trace that is settled.
LEMMA LoopOn ==
  ASSUME TraceInv, log \subseteq log', integrity \subseteq integrity', traces' = traces,
         look.pc \in {"trace", "taint"}, On,
         NEW i \in DOMAIN traces, i = look.next, Settled(i)', reviewed' = reviewed
  PROVE  look' \in Scoring /\ LookInv'
<1>1. /\ look'.pc = "trace" /\ look'.next = look.next + 1 /\ look'.met = look.met
      /\ look \in Scoring
  BY DEF On, TraceInv, Typed, Idle, Looking
<1>2. look' \in Scoring
  BY <1>1 DEF On, Scoring
<1>3. /\ \A k \in DOMAIN traces : Settled(k) => Settled(k)'
      /\ Len(traces) \in Nat /\ DOMAIN traces = 1 .. Len(traces)
  BY SettledStays DEF TraceInv
<1>4. /\ \A k \in DOMAIN traces : k < look.next => Settled(k)
      /\ \A id \in look.met : Kept(traces, id)
      /\ \A id \in reviewed : \E k \in DOMAIN traces : traces[k].id = id /\ Settled(k)
  BY DEF TraceInv, LookInv
<1>5. \A k \in DOMAIN traces' : k < look'.next => Settled(k)'
  <2>1. PICK m : m = Len(traces)
    OBVIOUS
  <2>2. \A k \in 1 .. m : k < look.next + 1 => k < look.next \/ k = i
    BY <1>3, <2>1
  <2> QED
    BY <1>1, <1>3, <1>4, <2>1, <2>2
<1>6. look'.next \in 1 .. Len(traces') + 1
  BY <1>1, <1>3
<1>7. \A id \in reviewed' : \E k \in DOMAIN traces' : traces'[k].id = id /\ Settled(k)'
  BY <1>3, <1>4
<1>8. \A id \in look'.met : Kept(traces', id)
  BY <1>1, <1>4
<1>9. look'.pc # "taint"
  BY <1>1
<1> QED
  BY <1>2, <1>5, <1>6, <1>7, <1>8, <1>9 DEF LookInv

\* An append to the log by the analysis of anything that is not a trace.
LEMMA LookAppends ==
  ASSUME TraceInv, NEW kind, NEW id,
         \/ Appends(kind, id) /\ kind \notin {"agentopenmind.trace", "agentopenmind.tainted"}
         \/ UNCHANGED <<log, counts>>
         \/ Raises
  PROVE  /\ SaysNothing /\ counts'.traces = counts.traces
         /\ counts' \in [traces : Nat, thoughts : Nat, looks : Nat, fails : Nat]
<1>0. counts \in [traces : Nat, thoughts : Nat, looks : Nat, fails : Nat] /\ Typed
  BY DEF TraceInv, Typed
<1>1. CASE Appends(kind, id) /\ kind \notin {"agentopenmind.trace", "agentopenmind.tainted"}
  <2>1. SaysNothing /\ counts' = counts
    BY <1>1, OtherLine
  <2> QED
    BY <1>0, <2>1
<1>2. CASE UNCHANGED <<log, counts>>
  BY <1>0, <1>2, SameLog
<1>3. CASE Raises
  <2>1. /\ log' = log /\ counts'.traces = counts.traces
        /\ counts' \in [traces : Nat, thoughts : Nat, looks : Nat, fails : Nat]
    BY <1>0, <1>3, RaisesCounts
  <2> QED
    BY <2>1, SameLog
<1> QED
  BY <1>1, <1>2, <1>3

\* The hub's reflections and their analysis say nothing of traces.
LEMMA ReflectionStep ==
  ASSUME TraceInv, Install \/ Reflect \/ Analyze \/ Compare \/ SecondOpinion
  PROVE  TraceInv'
<1>0. /\ Typed /\ counts \in [traces : Nat, thoughts : Nat, looks : Nat, fails : Nat]
      /\ look \in {Idle} \cup Looking \cup Scoring
  BY DEF TraceInv, Typed
<1>1. UNCHANGED <<traces, integrity, spoke, reviewed>>
  BY DEF Install, Reflect, Analyze, Compare, SecondOpinion
<1>2. /\ SaysNothing /\ counts'.traces = counts.traces
      /\ counts' \in [traces : Nat, thoughts : Nat, looks : Nat, fails : Nat]
  <2>1. CASE Install
    BY <1>0, <2>1, SameLog DEF Install
  <2>2. CASE Reflect
    <3>1. counts' = [counts EXCEPT !["thoughts"] = @ + 1]
      BY <2>2 DEF Reflect, Tick
    <3>2. SaysNothing
      <4>1. CASE UNCHANGED log
        BY <4>1, SameLog
      <4>2. CASE Line("hub.reflection", counts.thoughts + 1)
        <5>1. \A L, id : [kind |-> L, id |-> id] = [kind |-> "hub.reflection", id |-> counts.thoughts + 1]
                         => L = "hub.reflection"
          OBVIOUS
        <5> QED
          BY <4>2, <5>1 DEF Line, SaysNothing, Scored, Tainted
      <4> QED
        BY <2>2, <4>1, <4>2 DEF Reflect
    <3> QED
      BY <1>0, <3>1, <3>2
  <2>3. CASE Analyze
    <3>1. counts' = [counts EXCEPT !["looks"] = @ + 1] /\ log' = log
      BY <2>3 DEF Analyze, Tick
    <3> QED
      BY <1>0, <3>1, SameLog
  <2>4. CASE Compare
    BY <2>4, LookAppends DEF Compare
  <2>5. CASE SecondOpinion
    BY <2>5, LookAppends DEF SecondOpinion
  <2> QED
    BY <2>1, <2>2, <2>3, <2>4, <2>5
<1>3. look' \in {Idle} \cup Looking \cup Scoring /\ (look' = look \/ look'.pc \notin {"trace", "taint"})
  <2>1. CASE Install \/ Reflect
    BY <1>0, <2>1 DEF Install, Reflect
  <2>2. CASE Analyze
    BY <2>2 DEF Analyze, Looking
  <2>3. CASE Compare
    <3>1. look \in Looking
      BY <1>0, <2>3 DEF Compare, Idle, Scoring
    <3>2. CASE look' = Idle
      BY <3>2 DEF Idle
    <3>3. CASE look' = [look EXCEPT !.pc = "second"]
      BY <3>1, <3>3 DEF Looking
    <3>4. CASE look' = [look EXCEPT !.next = @ + 1]
      BY <2>3, <3>1, <3>4 DEF Looking, Compare
    <3> QED
      BY <2>3, <3>2, <3>3, <3>4 DEF Compare
  <2>4. CASE SecondOpinion
    <3>1. look \in Looking
      BY <1>0, <2>4 DEF SecondOpinion, Idle, Scoring
    <3>2. CASE look' = Idle
      BY <3>2 DEF Idle
    <3>3. CASE look' = [pc |-> "artifact", next |-> look.next + 1]
      BY <3>1, <3>3 DEF Looking
    <3> QED
      BY <2>4, <3>2, <3>3 DEF SecondOpinion
  <2> QED
    BY <2>1, <2>2, <2>3, <2>4
<1>4. log \subseteq log' /\ integrity \subseteq integrity'
  BY <1>1, <1>2 DEF SaysNothing
<1>5. Typed' /\ IdsInv' /\ FlagInv'
  <2>1. \A id : (Scored(log', id) => Scored(log, id)) /\ (Tainted(log', id) => Tainted(log, id))
    BY <1>2 DEF SaysNothing
  <2> QED
    BY <1>1, <1>2, <1>3, <1>4, <2>1, AnalysisSays
<1>6. LookInv'
  BY <1>1, <1>3, <1>4, LooksStand, LookRests
<1> QED
  BY <1>5, <1>6 DEF TraceInv

\* The scoring loop: begun, and each trace passed over, flagged or scored.
LEMMA ScoreBegins ==
  ASSUME TraceInv, Score
  PROVE  TraceInv'
<1>0. /\ Typed /\ counts \in [traces : Nat, thoughts : Nat, looks : Nat, fails : Nat]
      /\ traces \in Seq(Taken)
  BY DEF TraceInv, Typed
<1>1. /\ UNCHANGED <<traces, integrity, log, spoke, reviewed>>
      /\ counts' = [counts EXCEPT !["looks"] = @ + 1]
      /\ look' = [pc |-> "trace", next |-> 1, met |-> {traces[k].id : k \in DOMAIN traces}]
  BY DEF Score, Tick
<1>2. \A id \in look'.met : Kept(traces', id)
  BY <1>1 DEF Kept
<1>3. look' \in Scoring
  <2>1. \A k \in DOMAIN traces : traces[k].id \in Nat
    <3>1. \A k \in DOMAIN traces : traces[k] \in Taken
      BY <1>0
    <3> QED
      BY <3>1 DEF Taken
  <2> QED
    BY <1>1, <2>1 DEF Scoring
<1>4. /\ counts'.traces = counts.traces
      /\ counts' \in [traces : Nat, thoughts : Nat, looks : Nat, fails : Nat]
  BY <1>0, <1>1
<1>5. Typed' /\ IdsInv' /\ FlagInv'
  BY <1>1, <1>3, <1>4, AnalysisSays DEF Scored, Tainted
<1>6. LookInv'
  <2>1. look'.next \in 1 .. Len(traces') + 1
    BY <1>0, <1>1
  <2>2. \A k \in DOMAIN traces' : ~(k < look'.next)
    BY <1>0, <1>1
  <2>3. \A id \in reviewed : \E k \in DOMAIN traces : traces[k].id = id /\ Settled(k)
    BY DEF TraceInv, LookInv
  <2>4. \A k \in DOMAIN traces : Settled(k) => Settled(k)'
    BY <1>1 DEF Settled, Scored, Tainted
  <2>5. look'.pc = "trace"
    BY <1>1
  <2> QED
    BY <1>1, <1>2, <2>1, <2>2, <2>3, <2>4, <2>5 DEF LookInv
<1> QED
  BY <1>5, <1>6 DEF TraceInv

LEMMA LoopStep ==
  ASSUME TraceInv, PassOver \/ Backstop \/ BackstopLine \/ ScoreTrace
  PROVE  TraceInv'
<1>0. /\ Typed /\ counts \in [traces : Nat, thoughts : Nat, looks : Nat, fails : Nat]
      /\ traces \in Seq(Taken) /\ look \in {Idle} \cup Looking \cup Scoring
  BY DEF TraceInv, Typed
<1>1. /\ UNCHANGED <<traces, spoke, reviewed>> /\ look.pc \in {"trace", "taint"}
      /\ integrity \subseteq integrity'
  BY DEF PassOver, Backstop, BackstopLine, ScoreTrace, Land
<1>2. look \in Scoring /\ look.next \in Nat
  BY <1>0, <1>1 DEF Idle, Looking, Scoring
<1>3. PICK i : i = look.next /\ i \in DOMAIN traces /\ traces[i] = Trace
  <2>1. look.next \in 1 .. Len(traces) + 1 /\ (look.pc = "taint" => look.next \in DOMAIN traces)
    BY <1>1 DEF TraceInv, LookInv
  <2>2. look.next <= Len(traces) => look.next \in DOMAIN traces
    BY <1>0, <2>1
  <2> QED
    BY <2>1, <2>2 DEF PassOver, Backstop, BackstopLine, ScoreTrace, Trace
<1>4. traces[i].blank \in BOOLEAN
  <2>1. traces[i] \in Taken
    BY <1>0, <1>3
  <2> QED
    BY <2>1 DEF Taken
<1>5. /\ look.pc = "taint" => traces[i].blank /\ traces[i].id \in integrity
      /\ traces[i].tainted => Tainted(log, traces[i].id) /\ traces[i].id \in integrity
  BY <1>3 DEF TraceInv, LookInv, FlagInv
<1>6. /\ counts'.traces = counts.traces
      /\ counts' \in [traces : Nat, thoughts : Nat, looks : Nat, fails : Nat]
      /\ log \subseteq log'
      /\ \A id : Scored(log', id) => Scored(log, id) \/ (id = traces[i].id /\ ~traces[i].blank)
      /\ \A id : Tainted(log', id) => Tainted(log, id) \/ (id = traces[i].id /\ traces[i].blank)
      /\ \/ look' = Idle
         \/ On /\ Settled(i)'
         \/ look' = [look EXCEPT !.pc = "taint"] /\ traces[i].blank /\ traces[i].id \in integrity'
  <2>1. CASE Raises /\ look' = Idle
    <3>1. /\ log' = log /\ counts'.traces = counts.traces
          /\ counts' \in [traces : Nat, thoughts : Nat, looks : Nat, fails : Nat]
      BY <1>0, <2>1, RaisesCounts
    <3> QED
      BY <2>1, <3>1
  <2>2. CASE PassOver
    <3>1. log' = log /\ counts' = counts /\ integrity' = integrity /\ On
          /\ traces[i].blank /\ traces[i].tainted
      BY <1>3, <2>2 DEF PassOver
    <3>2. Settled(i)'
      BY <1>1, <1>5, <3>1 DEF Settled, Tainted
    <3> QED
      BY <1>0, <3>1, <3>2
  <2>3. CASE Backstop /\ ~(Raises /\ look' = Idle)
    <3>1. /\ Told(Trace.id) /\ look' = [look EXCEPT !.pc = "taint"] /\ traces[i].blank
          /\ traces[i].id \in integrity'
      BY <1>3, <2>3 DEF Backstop, Land
    <3>2. SaysNothing /\ counts' = counts
      BY <3>1, ToldSays
    <3> QED
      BY <1>0, <3>1, <3>2 DEF SaysNothing
  <2>4. CASE BackstopLine /\ ~(Raises /\ look' = Idle)
    <3>1. Appends("agentopenmind.tainted", traces[i].id) /\ On /\ traces[i].blank
          /\ integrity' = integrity /\ traces[i].id \in integrity
      BY <1>3, <1>5, <2>4 DEF BackstopLine
    <3>2. /\ counts' = counts /\ log \subseteq log'
          /\ \A k, id : [kind |-> k, id |-> id] \in log' <=>
               [kind |-> k, id |-> id] \in log \/ (k = "agentopenmind.tainted" /\ id = traces[i].id)
      BY <3>1, AppendsTo
    <3>3. Settled(i)'
      BY <1>1, <3>1, <3>2 DEF Settled, Tainted
    <3> QED
      BY <1>0, <3>1, <3>2, <3>3 DEF Scored, Tainted
  <2>5. CASE ScoreTrace /\ ~(Raises /\ look' = Idle)
    <3>1. Appends("agentopenmind.trace", traces[i].id) /\ On /\ ~traces[i].blank
      BY <1>3, <2>5 DEF ScoreTrace
    <3>2. /\ counts' = counts /\ log \subseteq log'
          /\ \A k, id : [kind |-> k, id |-> id] \in log' <=>
               [kind |-> k, id |-> id] \in log \/ (k = "agentopenmind.trace" /\ id = traces[i].id)
      BY <3>1, AppendsTo
    <3>3. Settled(i)'
      BY <1>1, <3>1, <3>2 DEF Settled, Scored
    <3> QED
      BY <1>0, <3>1, <3>2, <3>3 DEF Scored, Tainted
  <2> QED
    BY <2>1, <2>2, <2>3, <2>4, <2>5
<1>7. look' \in {Idle} \cup Looking \cup Scoring /\ LookInv'
  <2>1. CASE look' = Idle
    <3>1. look'.pc \notin {"trace", "taint"}
      BY <2>1 DEF Idle
    <3> QED
      BY <1>1, <1>6, <2>1, <3>1, LookRests
  <2>2. CASE On /\ Settled(i)'
    BY <1>1, <1>3, <1>6, <2>2, LoopOn
  <2>3. CASE look' = [look EXCEPT !.pc = "taint"] /\ traces[i].blank /\ traces[i].id \in integrity'
    <3>1. look' \in Scoring /\ look'.pc = "taint" /\ look'.next = look.next /\ look'.met = look.met
      BY <1>2, <2>3 DEF Scoring
    <3>2. /\ look.next \in 1 .. Len(traces) + 1
          /\ \A k \in DOMAIN traces : k < look.next => Settled(k)
          /\ \A id \in look.met : Kept(traces, id)
          /\ \A id \in reviewed : \E k \in DOMAIN traces : traces[k].id = id /\ Settled(k)
      BY <1>1 DEF TraceInv, LookInv
    <3>3. \A k \in DOMAIN traces : Settled(k) => Settled(k)'
      BY <1>1, <1>6 DEF Settled, Scored, Tainted
    <3>4. /\ look'.next \in 1 .. Len(traces') + 1
          /\ \A k \in DOMAIN traces' : k < look'.next => Settled(k)'
          /\ \A id \in look'.met : Kept(traces', id)
      BY <1>1, <3>1, <3>2, <3>3
    <3>5. \A id \in reviewed' : \E k \in DOMAIN traces' : traces'[k].id = id /\ Settled(k)'
      BY <1>1, <3>2, <3>3
    <3>6. look'.next \in DOMAIN traces' /\ traces'[look'.next].blank
          /\ traces'[look'.next].id \in integrity'
      BY <1>1, <1>3, <2>3, <3>1
    <3> QED
      BY <3>1, <3>4, <3>5, <3>6 DEF LookInv
  <2> QED
    BY <1>6, <2>1, <2>2, <2>3
<1>8. Typed' /\ IdsInv' /\ FlagInv'
  <2>1. /\ \A id : Scored(log', id) =>
             Scored(log, id) \/ \E k \in DOMAIN traces : traces[k].id = id /\ ~traces[k].blank
        /\ \A id : Tainted(log', id) =>
             Tainted(log, id) \/ \E k \in DOMAIN traces : traces[k].id = id /\ traces[k].blank
    BY <1>3, <1>6
  <2> QED
    BY <1>1, <1>6, <1>7, <2>1, AnalysisSays
<1> QED
  BY <1>7, <1>8 DEF TraceInv

\* The loop that came to its end has settled every trace it met.
LEMMA ReturnStep ==
  ASSUME TraceInv, Return
  PROVE  TraceInv'
<1>0. /\ Typed /\ counts \in [traces : Nat, thoughts : Nat, looks : Nat, fails : Nat]
      /\ traces \in Seq(Taken) /\ look \in {Idle} \cup Looking \cup Scoring
  BY DEF TraceInv, Typed
<1>1. UNCHANGED <<traces, integrity, log, spoke, counts>> /\ look' = Idle /\ look'.pc = "idle"
  BY DEF Return, Idle
<1>2. /\ \A id \in reviewed : \E k \in DOMAIN traces : traces[k].id = id /\ Settled(k)
      /\ \A k \in DOMAIN traces : Settled(k) => Settled(k)'
  BY <1>1 DEF TraceInv, LookInv, Settled, Scored, Tainted
<1>3. \A id \in reviewed' : \E k \in DOMAIN traces' : traces'[k].id = id /\ Settled(k)'
  <2>1. CASE reviewed' = reviewed
    BY <1>1, <1>2, <2>1
  <2>2. CASE look.pc = "trace" /\ look.next > Len(traces) /\ reviewed' = reviewed \cup look.met
    <3>1. look \in Scoring /\ look.next \in Nat
      BY <1>0, <2>2 DEF Idle, Looking, Scoring
    <3>2. \A k \in DOMAIN traces : k < look.next
      BY <1>0, <2>2, <3>1
    <3>3. /\ \A k \in DOMAIN traces : k < look.next => Settled(k)
          /\ \A id \in look.met : Kept(traces, id)
      BY <2>2 DEF TraceInv, LookInv
    <3>4. \A id \in look.met : \E k \in DOMAIN traces : traces[k].id = id /\ Settled(k)
      BY <3>2, <3>3 DEF Kept
    <3> QED
      BY <1>1, <1>2, <2>2, <3>4
  <2> QED
    BY <2>1, <2>2 DEF Return
<1>4. LookInv'
  BY <1>1, <1>3 DEF LookInv
<1>5. Typed' /\ IdsInv' /\ FlagInv'
  BY <1>0, <1>1, AnalysisSays DEF Scored, Tainted
<1> QED
  BY <1>4, <1>5 DEF TraceInv

LEMMA TraceInit == Init => TraceInv
<1> SUFFICES ASSUME Init PROVE TraceInv
  OBVIOUS
<1>1. /\ traces = <<>> /\ log = {} /\ look = Idle /\ reviewed = {}
      /\ spoke = [t \in Spokes |-> Idle]
      /\ counts = [traces |-> 0, thoughts |-> 0, looks |-> 0, fails |-> 0]
  BY DEF Init
<1>2. /\ \A t \in Spokes : ~Busy(t)
      /\ look.pc = "idle" /\ counts.traces = 0
      /\ DOMAIN traces = {} /\ traces \in Seq(Taken)
  BY <1>1 DEF Busy, Idle
<1>3. Typed
  BY <1>1, <1>2 DEF Typed
<1>4. IdsInv
  BY <1>2 DEF IdsInv
<1>5. FlagInv
  BY <1>1, <1>2 DEF FlagInv, Scored, Tainted
<1>6. LookInv
  BY <1>1, <1>2 DEF LookInv
<1> QED
  BY <1>3, <1>4, <1>5, <1>6 DEF TraceInv

LEMMA TraceNext == TraceInv /\ [Next]_vars => TraceInv'
<1> SUFFICES ASSUME TraceInv, [Next]_vars PROVE TraceInv'
  OBVIOUS
<1>1. ASSUME NEW t \in Spokes, Submit(t) \/ Declare(t) \/ LandTainted(t) \/ Taint(t) \/ Keep(t)
      PROVE  TraceInv'
  BY <1>1, SubmitStep, SubmissionGoesOn, KeepStep
<1>2. CASE Install \/ Reflect \/ Analyze \/ Compare \/ SecondOpinion
  BY <1>2, ReflectionStep
<1>3. CASE Score
  BY <1>3, ScoreBegins
<1>4. CASE PassOver \/ Backstop \/ BackstopLine \/ ScoreTrace
  BY <1>4, LoopStep
<1>5. CASE Return
  BY <1>5, ReturnStep
<1>6. CASE UNCHANGED vars
  <2>1. UNCHANGED <<traces, integrity, log, spoke, counts, look, reviewed>>
    BY <1>6 DEF vars
  <2>2. LookInv'
    BY <2>1, LooksStand
  <2>3. counts \in [traces : Nat, thoughts : Nat, looks : Nat, fails : Nat]
        /\ look \in {Idle} \cup Looking \cup Scoring
    BY DEF TraceInv, Typed
  <2>4. Typed' /\ IdsInv' /\ FlagInv'
    BY <2>1, <2>3, AnalysisSays DEF Scored, Tainted
  <2> QED
    BY <2>2, <2>4 DEF TraceInv
<1> QED
  BY <1>1, <1>2, <1>3, <1>4, <1>5, <1>6 DEF Next

\* Whatever raised on its way in and whether or not the gate was armed then, a
\* trace that a scoring call went over has its score if it holds a thought, and
\* its taint and a person's flag if it does not, and never both
\* (analysis.py:59-61).
THEOREM NeverSilentCorrect == Spec => []NeverSilent
<1>1. TraceInv => NeverSilent
  <2> SUFFICES ASSUME TraceInv, NEW k \in DOMAIN traces, traces[k].id \in reviewed
               PROVE  IF traces[k].blank
                      THEN /\ Tainted(log, traces[k].id) /\ traces[k].id \in integrity
                           /\ ~Scored(log, traces[k].id)
                      ELSE Scored(log, traces[k].id) /\ ~Tainted(log, traces[k].id)
    BY DEF NeverSilent, Logged, Scored, Tainted
  <2>1. Settled(k)
    <3>1. PICK j \in DOMAIN traces : traces[j].id = traces[k].id /\ Settled(j)
      BY DEF TraceInv, LookInv
    <3>2. j = k
      BY <3>1 DEF TraceInv, IdsInv
    <3> QED
      BY <3>1, <3>2
  <2>2. /\ traces[k].blank => ~Scored(log, traces[k].id)
        /\ ~traces[k].blank => ~Tainted(log, traces[k].id)
    BY DEF TraceInv, FlagInv
  <2> QED
    BY <2>1, <2>2 DEF Settled
<1> QED
  BY TraceInit, TraceNext, <1>1, PTL DEF Spec
=============================================================================
