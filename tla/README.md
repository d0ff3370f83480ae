# The dispatcher, specified

TLA+ modules for the runtime in `src/dispatcher/`: a hub that carries every
message between agents and to the outside world, and the hash-chained audit log
the hub's claims rest on. Each module is translated from the code (line numbers
are those of the files under `src/dispatcher/`); TLC checks it on small
instances, and TLAPS proves the central properties for every value of the
constants. Around the two stand the parts that read the log, order runs, carry
contexts between hubs and judge what agents thought.

## 1. The system

| Part | Source | State | Operations |
|---|---|---|---|
| Hub | `hub.py` | `seen_ids`, `seq` per context, `loop_counts` per (context, intent), `_absolute_holds`, `_absolute_released`, `queues`, `handlers`, `signer_registry`, one re-entrant lock | `send`, `release_disclosure`, `decline_disclosure`, `resume_loop_suspension`, `escalate`, `notify`, `queue_and_notify`, `register`, `arm_signer_registry` |
| Reflection | `hub.py`, `analysis.py` | `spoke_traces`, `reflection_artifacts` | `ingest_spoke_trace`, `_reflect`, `analyze_reflections`, `score_spoke_traces` |
| Closed track | `core.py` `Routes`, `hub.py` `is_authority` | the route table, read once | `matches`, `tuple_legal`, `audience_for` |
| Audit log | `core.py` `AuditLog` | the file, an OS file lock, and per object `_prev`, `_stamp`, `_needs_newline`; side files of repairs | constructor, `append`, `ensure_intact`, `holding`, `repair_torn_tail`, `verify_chain`, `anchor`, `verify_anchor` |
| Exit gate | `pillars.py` | none | `exit_gate`: a reviewer model between persist and delivery |
| Run priority | `priority.py` | `holding` and `sidings` per spoke | `request_segment`, `release_segment` |
| Signer registry, signatures | `signer_registry.py`, `signatures.py` | rows loaded once | `check`, `verify` |
| Territory handoff | `territory.py` | the two hubs' sequences and queues | `build_transfer`, `receive_transfer`, `confirm_release` |
| KPIs, their gate, after-action report | `kpi.py`, `kpi_gate.py`, `after_action.py` | none: functions of the log | `compute_kpis`, `pair_escalations`, `gate` |
| Notifier | `notifier.py` | numbers and credentials | the SMS and WhatsApp notifiers |
| Boot attestation | `attestation.py` | none | `build_manifest`, `verify_manifest`, `attest_boot` |
| Playbook runs, watchdog | `runs.py` | none | one append per call |
| Identity loader, absolute signal text, demos, other tools | the files of those names | none that other parts read | |

**How they interact.** Agents, people and programs call the hub. A call runs
under the hub's lock, in one thread, from beginning to end. It appends to the
audit log at each step that claims something, and it calls foreign code while it
holds the lock: the handler of the receiving agent, the human notifier, the
reviewer model, the signature verifier. The lock is re-entrant, so a handler or a
notifier may call the hub again, and the nested call runs to its end inside the
outer one. The audit log is a file that several objects in several processes
append to, each with a cached hash of the last line; they take turns through an
OS lock; the threads of one process share a second lock on it, so a send takes
the hub's lock and then the log's. The siding scheduler, playbook runs, the
handoff and the analysis write to the same log without the hub's lock, and the
KPIs are read from nothing else.

**What is hard.** Calls nested in the middle of other calls (`hub.py:599`,
`:518`, `:666`); an append that raises between two state changes (`hub.py:371`);
an append whose line is on the file although it raised (`core.py:582`); a restart
that forgets what the hub remembered and the log still says; a pass that is armed
in one place and consumed in another (`hub.py:370`, `:586`); a cached tip that is
stale because another process wrote (`core.py:571`); a write cut off by a crash;
a repair that crashes half-way; programs that change the file without its lock;
preemptions that nest; two locks taken in both orders (`core.py:352`, `hub.py:178`);
a sequence read while a send is half-way (`territory.py:47`), a record or an ack
that comes late (`territory.py:87`, `:101`); outcomes of pages paired with
escalations of other processes (`kpi.py:59`); a log that refuses a handler's line,
after which the send escalates once more (`hub.py:667`). `PROJECT.json` lists each one at its line, with the
properties that would catch it going wrong.

**What makes each part correct.**

- *Hub*: an ack is a fact; an envelope reaches a handler at most once per boot;
  sequences have no gaps; nothing that was persisted vanishes; every call ends.
- *Gate*: nothing gated leaves without a trusted key, one key gives one pass, a
  pass is on the record before it is used, a held message is only held.
- *Audit log*: the chain verifies whatever fails; what append returned stays;
  a checked log takes the record; a rewritten past is found by an anchor.
- *Siding*: class before arrival, arrival within a class, nobody lost or left.
- *Locks*: what belongs together stays together on the log, and every call ends.
- *Handoff*: a context's numbers continue, its open items follow it, it is in
  some region, and nothing is adopted on trust.
- *KPIs*: what they say of the log is what the hub, the pager and the handoff did.
- *Reflection*: a trace without a thought is never passed over in silence.
- *Boot*: who is authorized is on the file and in effect; what verifies has not
  drifted.

## 2. The modules

| Module | Models | Notes |
|---|---|---|
| `Track` | `Routes` and `is_authority` as operators over a route table | used by `Hub` |
| `Hub` | `hub.py` and `exit_gate` | one module, because the methods share the lock and the maps |
| `MCHub` | instances of `Hub` for TLC: messages and a route table | |
| `HubProofs`, `HubFlowProofs` | theorems about `Hub`: calls, acks and the gate; the flow of envelopes, keys, numbers, and what the KPIs and their gate say of them | |
| `AuditLog` | the class `AuditLog`, its lock and its file | |
| `Ledger` | what an audit log promises its callers and readers | abstract; `AuditLog` implements it |
| `MCAuditLog`, `AuditLogProofs` | instances for TLC; theorems about `AuditLog` | |
| `Siding`, `MCSiding`, `SidingProofs` | `SidingScheduler`; theorems about it | |
| `Kpi` | `compute_kpis`, `pair_escalations` and `gate` as operators over a log | instantiated by `HubKpi`, `Turns`, `Handoff` |
| `HubKpi` | the log of `Hub` as the KPIs read it | composes `Hub` and `Kpi`; extended by `MCHub` |
| `Notifier` | what a notifier answers, what the hub records of it | instantiated by `Turns` |
| `Turns`, `MCTurns`, `TurnsProofs` | the hub's lock, the log's lock, the file lock, and threads of several processes | composes the locks of `hub.py` and `core.py` with `Notifier` and `Kpi` |
| `Handoff`, `MCHandoff`, `HandoffProofs` | `territory.py` between hubs; theorems about it | |
| `Traces`, `MCTraces` | `ingest_spoke_trace`, `_reflect`, `analysis.py` | |
| `Registry`, `Attestation` | `signer_registry.py`, `attestation.py` as operators | |
| `PartsProofs`, `Positions` | theorems about `Track`, `Registry`, `Attestation` and `Traces`; the least and greatest of a set of positions | |

### Hub

`stack` is the lock and the calls of the thread that holds it: `<<>>` when the
lock is free, else one frame per nested call, with the step it stands at (`pc`),
its envelope, what the presented object proves, and whether a key decides a
release or a decline. A step is cut where the outcome may differ: at each
`audit.append`, which may raise, and at each call of foreign code. Code between
two cuts is one action. `Line`, `Lines` and `Logs` are the appends with nothing
but the next step behind them; the other actions carry the state changes:

| Code | Actions |
|---|---|
| `send`: dedupe, loop protection | `Call`, `Duplicate`, `Suspend`, `Suspended`, `Admit` |
| `send`: schema, signer | `Schema`, `Forgery`, `Trusted`, and the lines "verified", "unarmed", "reject" |
| `send`: track, absolute signal | `OffTrack`, `OnTrack`, `GateHolds`, `GateCleared` |
| `send`: persist, exit gate | `Persist`, `Review`, `Flag` |
| `send`: delivery | `DeliverToQueue`, `NoHandler`, `RunHandler`, `HandlerReturns`, `HandlerRaises` |
| `release_disclosure`, `decline_disclosure`, the key check | `KeyDenied`, `KeyAccepted`, `Release`, `Decline` |
| `resume_loop_suspension`, `escalate`, `notify` | `Resume`, `Escalate`, `Notify` |
| `queue_and_notify`, `_notify` | `QueueAndNotify`, `Page`, `Notifier` |
| `register`, `arm_signer_registry`, a process restart | `Register`, `Arm`, `Restart` |

A notifier or a handler that calls again is `Call` while the top frame stands at
one of `Callbacks`. The log keeps kind, envelope, sequence and boot; `seen`,
`seq`, `loopCount`, `holds`, `released`, `queues` are the hub's own maps. Two kinds
of entry are split where the KPIs tell them apart: a reviewer's verdict that passes or
fails, and the violation of a forged key (`key.violation`), which the code logs under
the key's id and not the held message's; `HubKpi!KindOf` joins them again. Three
variables are history: `runs` and `finished` (handler runs), `keys` (accepted
keys). What an object proves is one of four kinds, from "malformed" to "stamped";
the verifier and the registry are their answers. They, and the reviewer model,
are assumed not to call the hub again: nothing in the repository passes them the
hub. A restart loses everything but the log and the code's configuration, as the
constructor does.

### AuditLog

A hash is the sequence of bodies it was computed from, which is what a
collision-free chain tells. `file` is the lines that are not blank; `blanks` says
which of them have blanks before them on lines of their own, and whether blanks stand
behind the last (`Trailing`); `ended` says whether the file ends in a newline;
`version` is what the stamp (size and
modification time) shows. Each instance stands at "down" (not constructed),
"opened" (tip read, stamp not yet taken), "idle", "check" (inside `append`,
before the resync), "write" or "written" (line on the file, stamp not yet taken).

| Code | Actions |
|---|---|
| constructor | `Open`, `Opened` |
| `append` | `Ask`, `Check` or `Refuse`, `WriteLine` or `WriteRaises`, `Written` |
| `ensure_intact` | `EnsureIntact` |
| `_guard`, `holding` | `Enters`, `Leaves`, `Hold`, `Unhold` |
| `repair_torn_tail` | `RepairSide`, then `RepairSwap` or `RepairRaises` |
| `anchor`, `verify_anchor` | `Anchor`; `AnchorHolds` |
| `_verify_chain`, `_resync`, `_recover_tip` | `Breaks`, `FirstBreak`, `TornTail`; `Accepts`, `Resync`; `Tip` |
| a process dies; programs without the lock | `Crash`; `Edit` |

A write that stops part-way leaves nothing, the newline it owed, part of a line,
or the whole line with or without its newline (`PartWritten`). `TornTail` and
`Repairable` are two tests: the check asks whether the last line that is not blank is
unreadable and the file lacks its last newline (`core.py:656-661`), the repair whether
the bytes after the last newline are (`core.py:485-494`). Simplifications: blank lines
between two entries count as one; a missing file is an empty one; programs without the
lock leave a repair alone (its help says to stop every process first) and change what
is written, other than by blanks, only while the last line is an entry; an operation that
gives up waiting for the lock (`AuditLogBusy`) changes nothing and is no step;
the upgrade of a shared lock to an exclusive one is not modelled, since no public
method asks for it.

`Ledger` is the promise: a list of entries that only grows, in which every append
that returned has a place of its own. `AuditLog!Promise` maps the file to it:
`entries` are the bodies that readers see (a cut-off last line is not one of
them), `owed` where each append stands, `told` the places of returned hashes.

### Siding

Each method is one step that ends after its k-th append: all of them when it
returns, fewer when an append raises (`MaxFails`). A ticket numbers the requests;
it is history and decides nothing. The class takes no lock, so no threads are
modelled. Spokes do not interact, so one spoke is checked.

### Kpi and HubKpi

A log is a sequence of entries; an entry's position stands for its hash and, as
the clock does not step back, for its time. `Walk` is the sequence KPI
(`PassBoot`, `PassTransfer`, `PassPersist`), `Backed` and `IntegrityIncidents` the
ack KPI, `PairEscalations` the pairing, with `Answered` for one outcome,
`GateViolations` the gate of `kpi_gate.py`, with its checks for
planted taints and for drafts the exit gate must hold (`Flagged` and `Held` are the
entries it looks at). The modules that write logs read them
with these operators and compare with what they did: `HubKpi` for the hub,
`Turns` for escalations of several processes, `Handoff` for two hubs.

### Turns

A call is the list of steps it has still to take (`Steps`): taking and leaving
the hub's lock, the log's lock of its process and the file lock, writing a line,
paging. `TakeHub`, `TakeLog` and `OpenFile` wait. `Refused` is `AuditLogBusy`, a
`RuntimeError`. Outside a handler it ends the call, which gives back what its `with`
blocks held (`Busy`). In a handler the send catches it like any other exception
(`hub.py:667-686`): it keeps the hub's lock, appends a dead letter and escalates a
second time (`BusyInHandler`, `Recovery`), and the log may refuse these too. A call of
`record` is a method of a `PlaybookRun` or a heartbeat: one line, and no lock of the
hub. `LeaveLog` gives
the file lock back only at the outermost block. `Page` is `_notify` with the
answers of `Notifier`: the service accepts, refuses, cannot be reached, or accepts and
its answer is lost, which the caller takes for a failure (`notifier.py:121-124`).
`reached` and `lost` are history: whose page reached a person, and which of these the
hub was not told of. All processes append to one log.

### Handoff

| Code | Actions |
|---|---|
| `send`, as a handoff sees it | `Persist`, then `Commit`: the lock is held in between, but the handoff does not take it; `PersistRaises`, where the append raises with its line on the file or not, and the number is not committed |
| `build_transfer` | `BuildRead` (the marks), `BuildDone` (the items, the two appends, the record) |
| `receive_transfer` | `Refuse`, or `Receive`, `Adopt`, `AckTransfer`; `ReceiveRaises` |
| `confirm_release` | `Confirm` |
| the carriers; a process restart | `Alter`; `Restart` |

Records and acks are sets: they may be presented late, twice or never, and a
record may be altered on the way, which its signature then shows. `Careful` names
the calls that are made only when they may be, by `MaySend`, `MayHandOff`,
`MayPresent` and `MayConfirm`: the code says of itself that no nonce, expiry or
ownership check exists (`territory.py:3-15`), so these are the callers' part, and
the properties hold under it. An append that raises leaves its line on the file or
not, in every call (`Writes`); `returned` on a persisted line is history. A careful restart meets only hubs that have no
context; a hub that has one loses its number with the process.

### Traces

Spokes' threads and one analysis call take turns at every append (`spoke`, `look`);
an append may raise, which ends its call. The package that judges a trace may be
installed while the hub runs, since it is imported at each call. The log is a set
of lines: no property asks for their order. `reviewed` is history: what was on
the list when a scoring call that returned began.

### Registry, Attestation

Operators over a file's entries and over a sequence of files. An effective date
is missing, garbled or a day; a manifest is a function from base names, in which a
later file of a name replaces an earlier one.

## 3. The runs

| Run | Question | Instance |
|---|---|---|
| `hub_traffic` | Do acks, loop protection and alarms hold when handlers and notifiers send and resume, and does every call end? | 4 envelopes (two to one agent in one context, one to a queue, one off the track), threshold 1, depth 3, 3 calls, a reviewer model |
| `hub_gate` | Is the gate closed under every order of sends, keys and declines, some of them from inside a page? | one envelope that is both gated and signed, three kinds of keys, 4 calls, depth 2, registry armed late |
| `hub_failures` | Once per boot, no gaps, a sequence KPI that is true and a KPI gate whose findings mean what they say, with appends that raise, before or after the line is on the file, and a restart? | an order and a gated authority letter of one context, two kinds of objects, an armed registry, a reviewer model, sends, releases and pages, 3 calls, depth 2, 1 failure, 2 boots |
| `audit_chain` | Do the chain, the returned appends, the side files and the promise of `Ledger` survive crashes, failed writes and repairs? | 3 instances in 2 processes, 3 lines, 1 failed write, 1 crash |
| `audit_edits` | What do edits by programs without the lock leave of the guarantees, and what is an anchor worth? | 2 processes, 2 edits of five kinds, 1 anchor |
| `siding_order` | Does class beat arrival, and is a run served once better classes stop passing it, under any nesting of preemptions, and who is lost when an append raises? | 5 runs of 4 classes, 1 spoke, 4 requests, 1 failure |
| `handoff` | Do numbers, open items and ownership survive late, repeated and lost records and acks? | 2 hubs, 1 context, 2 sends, 2 records, 2 receipts, 1 failure, 1 restart |
| `turns` | Do blocks stay together, are escalations paired with their own outcomes, and does every call end? | 2 threads of one process, 1 of another, 6 kinds of call, 1 call each |
| `traces` | Is every trace that was gone over scored, or flagged to a person? | 2 spokes, 2 traces, 2 analysis calls, 1 reflection, 2 failures |

Three runs show a place where the code and its own words part; TLC finds each one,
and `PROJECT.json` quotes the words:

| Run | Shown |
|---|---|
| `hub_release_unrecorded` | the pass is armed before its authorization is on the log; if that append raises, the sender's retry leaves unrecorded |
| `kpi_redelivery` | an envelope sent again after a restart makes its first, true ack an incident of the ack KPI |
| `turns_circle` | a send, and a send inside `holding()` in another thread of the process, each have the lock the other needs |

**Why the bounds are enough.** Each bounded thing is needed at most as often as the
shortest story that could break the property: two envelopes of one loop key at
threshold 1 reach the suspension; depth 2 lets a page or a handler call back, depth 3
lets that call do so too; four calls on one gated envelope are a send, a key, a second
key or a decline, and a retry; one raising append can stand at any append; two boots show what a restart forgets.
In the log, three lines hold one entry before, at and after a cut; two instances
in one process and one in another give both ways to take turns; one failed write
and one crash can meet each other and a repair in any order. Two records and two
receipts are a handoff there and back, or one record presented twice; two sends
put an envelope before and after it. Two threads of one process and one of
another are every way to share a lock; each makes one call, in which a send may be
refused in its handler and raise twice, since a call leaves nothing behind but the log and a lock it failed to give back, which `CallsEnd` then
finds with the others' calls. Two traces are one that the analysis is at and one
that comes while it runs; two failures let a trace fail on its way in and its
analysis fail too. `MaxDepth` bounds nesting, not the code: the code has no limit
but Python's recursion.
`CHECK_DEADLOCK FALSE` everywhere, since callers may stop calling and every run
ends at its bounds.

**Fairness.** `CallsReturn` and `CrashAlarms` assume `WF_vars(HubStep)`: the thread
that holds the lock is scheduled, and foreign code returns. Callers are not
assumed to call. The weak fairness is on the whole step, so a failing append is
one of its outcomes and not excluded. `Served` assumes that a run that holds a
segment finishes it (`WF_vars(Finish(s))` for each spoke), and is conditional: classes
are strict and do not age (`priority.py:49`, `:82`), so a run is promised its segment
only if better classes pass it finitely often (`<>[][~Passed(t)]_vars`). `MaxAsks`
bounds all requests, so every checked behaviour satisfies the condition; with requests
that never cease TLC finds the unconditional promise violated and the conditional one
kept. This is the contract of
a run that needs one spoke at a time; two runs that each hold one spoke and ask
for the other's wait for good, and nothing in the code rules that out. `CallsEnd`
assumes `WF_vars(Step(t))` for each thread of `Turns`: it is scheduled, and foreign
code returns. A thread that waits for a lock is disabled, so weak fairness says no
more than that a free lock is taken by someone; no thread is assumed to win. The
file lock has its time-out instead (`Busy`), the other two have none.

**What passes only with a condition.** `ChainIntact`, `ToldStands`, `SideKept`,
`CheckedIsRecorded` and `PromiseKept` are about logs that only this class writes.
`CheckedIsRecorded` needs it since the constructor reads the tip without verifying
the chain. `OwnHistoryStands` is checked against edits that change size or
modification time, between operations: the code says what it does not see
(`core.py:400-402`). `AnchorCatches` is about anchors
with no blank line among the entries they count, and `AnchorAccusesTruly` about those
that name the head the file had. `NothingVanishes`
and `AuthorizationRecorded` hold where nothing raises. In `siding_order`,
`NobodyLost` holds whatever raises; class, arrival, the log's account and service
hold as long as nothing did, since the scheduler undoes nothing. `handoff` is
checked with careful callers.

**Where the guarantees end.** Met while modelling; the modules can show each of
them with other constants, or an action more:

- A release whose re-send is stopped before the gate, by loop protection for one,
  leaves its pass armed for a later send of that id (`hub.py:370`, `:511`).
- A reviewer model that raises leaves an envelope persisted and seen, neither
  delivered nor queued (`hub.py:633`).
- The check for a cut-off last write and the repair differ where blanks follow the
  torn line: a torn line, a newline and blanks without one are reported as torn
  (`core.py:661`), and the repair refuses the file (`core.py:489`), against "exactly
  when the repair will accept it" (`core.py:443`). `TornTail => Repairable` is violated
  in `audit_edits` in that way; what the repair accepts is what `RepairLeavesSound`
  is about.
- With a blank line ahead of the entries an anchor may verify over an edited entry,
  since a line number is compared with a count (`core.py:620-621`); an anchor taken
  by an instance behind another writer pairs the new length with an old hash, and
  accuses an untouched log (`core.py:598-600`).
- An edit that falls between the stamp check of an append and its new stamp is
  taken over (`core.py:571-584`).
- A message whose answer from the service was lost is reported as failed although it
  reached a person (`notifier.py:121-124`); `ReportTrue` says that this, and a notifier
  that raises after it paged, are the only ways.
- An envelope presented forged and then truly under one id is flagged and acked, and
  the KPI gate counts that as an accepted forgery (`tools/kpi_gate.py:47-52`);
  `GateTells` says that its signer was verified nevertheless.
- A pattern of the audience map decides for every row further down that carries the
  same intent (`core.py:118-126`): a wildcard that says principal lets through what an
  exact row after it would hold.
- An ack used after its context came back puts the context in no region, and a
  send whose commit comes after `confirm_release` brings the number back
  (`territory.py:100-101`).
- `agentopenmind.unarmed` is declared once, and the flag is set before its line: if
  the append raises, nothing is declared (`hub.py:240-245`). Each further call of
  `score_spoke_traces` flags and counts a backstopped trace again
  (`analysis.py:73-77`).
- Of two attested files with one base name only the later one is attested
  (`attestation.py:42`).

## 4. The proofs

Assumptions are those the modules name: the constants have their types, the route
table is one the constructor loads (`RoutesAssumption`), the actors' names differ,
and "nobody" is not a thread. Where a theorem needs more, it says so as a
hypothesis, named below. Each safety theorem rests on an inductive
invariant; TLC checked the harder ones on an instance before they were proved.

**Hub** (`HubProofs`)

- `TypeCorrect`: types, for any nesting, by the type of each action.
- `AckCorrect`, `DeliveredOnceCorrect`, from `IInv`. `AckIsFact` speaks of log
  entries, so it is not inductive: an ack is right because of where the frame that
  writes it has been. `FrameInv` says what each step knows (a frame that delivers
  has its envelope persisted, unsettled and seen; one at "ack" has it finished),
  `Nesting` that all frames but the last wait in foreign code, `LiveOnce` that no
  two frames are between persist and ack with the same envelope, `SeenInv` that
  what is not seen has no run and no settlement in this boot. `LiveOnce` is what
  re-entrancy could break, and dedupe under the lock is what keeps it.
- `GateCorrect`, `HoldsCorrect`, from `GateInv`: a frame past the gate carries an
  envelope that is not held and, if gated, had a key accepted (`Through`); what is
  below the top of the stack is never past the gate (`OnlyTheTop`).

**The flow of envelopes** (`HubFlowProofs`). `Edges` is the graph of a call: step,
line it logs, next step. One lemma takes every action to a few kinds of move on it,
and each invariant below is proved once per kind instead of once per action.

- `AuthorityCorrect`, from `AuthInv`: a frame behind the signature check has its
  verdict on the log of this boot.
- `PersistFirstCorrect`, from `ReleaseInv`: an armed pass is for a gated message not
  yet persisted, and a send behind the gate has used its own.
- `KeysCorrect`, from `KeysInv`: passes on the log, armed, and in the hand of the top
  call are together no more than the keys accepted (`Passes`).
- `RecordedCorrect`, from `RecordInv`, while no append has failed: `Release` arms the
  pass before the append that records it, so one failure is enough
  (`hub_release_unrecorded` shows that).
- `LostAreFailures` and `VanishCorrect`, from `VanishInv`: every seen envelope is
  settled, on the stack, or lost, and each lost one has a failed append or reviewer
  of its own. `NothingVanishes` is the case of no failure.
- `LoopBudget` and `LoopCorrect`, from `LoopInv`: the counter and the log agree up to
  one threshold for each failed append, since an append may raise with its line
  written. `LoopBound` is the case of no failure.
- `GaplessCorrect`, from `GapInv`: the numbers on the log of this boot are those the
  hub committed and those whose commit an append's failure prevented, of which one
  may be ahead in each context.
- `SequenceKpiCorrect`, from `BootInv`, which adds the order of boots on the log, and
  from what the walk of `Kpi` computes on such a log (`WalkTells`). The walk is a
  recursive function of a position; that it exists, and what it holds at each
  position, is shown by the least position where it would fail, which needs only
  the least element of a set of positions (`Positions`).
- `IncidentsCorrect`, from `AckInv`: in one boot no persist of an envelope follows its
  ack, since a persist finds it unseen and thus unsettled. So an incident of the ack KPI
  is never an ack without its persist: it is an ack whose envelope a later boot
  persisted again, which is the story of `kpi_redelivery` and the only one.
- `TellsCorrect`: what a finding of the KPI gate tells of any hub, at any moment, with
  failed appends, restarts, forgeries and reviews. The two counts are those of the
  theorems above (`AckTells`, `GapTells`). For the authority finding (`AuthTells`),
  `ForgedInv`: a forgery is of an authority envelope, and such an envelope is acked
  only after its signer's verdict (`AuthInv`). For the exit gate, `VerdictInv`: an
  envelope held back in this boot is seen, and in no call's hands that could still ack
  it.

**Audit log** (`AuditLogProofs`)

- `TypeCorrect`, from `Base`: types, and `Solo`, that at most one operation is inside,
  that it holds the lock, and that a repair in progress stands before a tail it may
  repair.
- `ChainCorrect` and `DurableCorrect`, from `IInv` next to `Base`. Whether an append
  extends the chain rests on what its instance believes of the file; `CacheInv` says
  what that is worth at each place: an unmoved stamp proves the cached tip, the
  newline flag and that the chain verifies. `FileInv` says the chain verifies or ends
  in a write that the repair accepts, and every returned hash is on a readable line.
- `RepairCorrect`: `Solo` says that a repair in progress stands before a file it may
  repair, and no other step touches the file meanwhile; so what it swaps in is every
  line before the cut, which verified, and its record.
- `SideCorrect`, from `SideInv`: the side file is there before the record that names
  it, and a cut-off line is nobody's entry.
- `CheckedCorrect`, from `CheckInv`: inside a holding block a checked instance stays
  on a chain that verifies, whatever others of its process append.
- `HistoryCorrect`, from `HistoryInv`: an unmoved stamp proves the entries an instance
  was told it wrote. Hypothesis `Sealed`: edits move the stamp and fall between
  operations; `core.py:400-402` says that others are not seen.
- `AnchorCorrect` (the property itself excepts anchors with a blank line among their
  entries: with one it is false, see above) and `AccusationCorrect`: both follow from the types alone, by what a verified chain says
  of its hashes.
- `PromiseCorrect`: `AuditLog` implements `Ledger`. The initial state maps to the
  initial state and every step to a step or a stutter (`PInv`: nobody was told of an
  entry whose own append has not returned). Hypothesis `Edits = {}`: `PromiseKept` is
  about logs that only this class writes, and without an editor that is the
  whole specification.

**Siding** (`SidingProofs`). `ClassFirstCorrect`, `ArrivalCorrect` and `LostCorrect`,
from `IInv`: types; `Somewhere`, who asked and has not finished is somewhere,
whatever raised; and `Smooth`, as long as nothing raised, that nobody is in two
places and the line of a spoke (its holder, then its siding) is in order of class
and arrival. A preemption and a release are operations on that line. `ToldCorrect`,
from `ToldInv` next to it: each entry changes what the log says of its own spoke as
the method changes its line, where a run waits as often as it was sided and not
resumed.

**Handoff** (`HandoffProofs`)

- `TypeCorrect`; `AdoptedCorrect`, from `ReceivedInv`: whatever callers do, a record
  being adopted is signed and already on the adopter's log.
- `OpenItemsCorrect`, from `IdInv` (an id names one handoff), `ApartInv` (handoffs
  begun before a context moved are spent) and `ItemsInv` (while a handoff is on its
  way no send of its contexts is, and the record carries every open item). Hypothesis
  `HandedWithCare`: sends, handoffs, presentations and restarts keep to the protocol;
  releases need not.
- `InRegionCorrect`, from `OwnerInv` and `RegionInv` in addition. Hypothesis
  `ConfirmedWithCare`: presentations and releases keep to the protocol; sends,
  handoffs and restarts need not.
- `NumbersCorrect`, from `NumbersInv` next to these: the envelopes of a context whose
  append returned are numbered 1, 2, 3, ... over all hubs, each number once. An append
  that raised with its line on the file left a number that is given again, and the gaps
  a hub's sequence KPI counts are exactly the envelopes that repeat one. Three
  parts carry it. `CountInv`: the last number given (`Number`) is how many envelopes
  of returned appends the logs name, a raised one has at most the next, and it is what the hub that took the context last has, or what its
  open send is about to commit. `MarksInv`: a handoff that no adoption has overtaken
  carries that number, in its draft, its record or its receipt. `WalkInv`: what the
  walk over a hub's log expects next of a context is the next number where the hub
  took it last, and no number where it was never named; a receipt sets it anew, which
  is why the walk of `Kpi` reads the marks. Both hypotheses are needed, `HandedWithCare`
  and `ConfirmedWithCare` together: TLC finds `NumbersOnce` violated when any one of
  the five kinds of call is not careful.

**Locks** (`TurnsProofs`). `HoldingCorrect`, `PairsCorrect` and `ReportCorrect`, from
`CallInv`. What a thread has still to do is a run of segments, each leading from one
standing (which locks are held, how deep, what was paged) to another
(`OnCourse`), and where it stands is what it holds. That covers the second escalation of a send
that was refused in its handler: its remaining steps are again such a run, begun with
the hub's lock held once. `LocksInv` says a file held for
writing is held once, so a block's lines stand together and no foreign outcome falls
between an escalation and its own. The pairing of `Kpi` is recursive over the log and
is treated as the sequence walk is.

**The parts around them** (`PartsProofs`)

- `UngatedIsPrincipal`: for every route table, which messages pass the gate by their
  label alone, as an equivalence: those for which the first leaving pattern that carries
  the intent says principal in the last row of that pattern (`Decides`). So an intent no
  leaving row carries is gated, and so is one whose deciding row has no label or an
  unknown one; rows of other patterns further down have no say.
- `CheckVouches` and `FirstRowDecides`: what the registry's yes means, that it stays
  yes, and that rows appended to a file change no answer for a login an earlier row
  names, a revoked one included. Both rest on `FirstRow`.
- `VerifyExact` and `NothingDrifts`: the empty list of deviations is equality of
  manifests, and equality of manifests is equality of the files when no two share a
  base name. Tables and files keep no state, so these are about operators; what the
  registry's answer does to the hub is checked there.
- `NeverSilentCorrect`, from `TraceInv`: an id is one submission, which becomes one
  trace or none (`IdsInv`); the log scores only thoughts and taints only blanks, and
  what is marked as flagged was flagged before it was kept (`FlagInv`); the scoring
  loop leaves only settled traces behind it, those kept while it runs included
  (`LookInv`).

**Only model-checked.** The liveness properties `CallsReturn`, `CrashAlarms`, `Served`
and `CallsEnd`, which are out of the prover's reach. Every invariant and every action
property of a passing run has a theorem; those with a hypothesis or a condition are
`RecordedCorrect`, `VanishCorrect`, `LoopCorrect`, the theorems about
the audit log that name edits or blank lines, those of `Siding` but `LostCorrect`, and
those of `Handoff` that name careful callers.

## 5. The plan

Done, in order: `Track`, `Hub` with its gate, `AuditLog` with `Ledger`, `Siding`;
then `Kpi`, `Turns`, `Handoff`, `Traces`, `Registry`, `Attestation`; then the theorems
about all of them but `Notifier`, whose answers `Turns` contains. Nothing of the plan is left;
what could come next is in the list below and in the hazards without a property.

**Not modelled.** `on_turn_start`, `manners_reinjection`, `heartbeat` and
`attest_boot` each append lines that nothing modelled reads; `before_turn_check`
and the comparison of thoughts and results call packages that are not in the
repository (the comparison is a choice in `Traces`). The Watchdog, the latencies
and the counts of `compute_kpis`, and the after-action report are arithmetic and
text over one reading of the log. The identity loader validates fields of files
once. The absolute signal is a constant text. Signatures and hashes are taken as
what they are meant to be: a verifier's answer, and a name that no two contents
share. The demos and command lines are input and output.

## 6. Running

    tlc -workers 2 -config hub_gate.cfg MCHub
    tlapm AuditLogProofs.tla

`PROJECT.json` names the MC module of each `.cfg`.
