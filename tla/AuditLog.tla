------------------------------ MODULE AuditLog ------------------------------
(***************************************************************************)
(* The audit log of src/dispatcher/core.py: an append-only file of         *)
(* hash-chained lines, written by AuditLog instances of several processes  *)
(* that take turns through a lock, each with its own cached tip and stamp. *)
(* Processes die, writes are cut off or raise, a person repairs a cut-off  *)
(* tail, and programs that know nothing of the lock may edit the file.     *)
(*                                                                         *)
(* A hash is modelled as what it was computed from: the bodies of the      *)
(* entries up to and with its own, GENESIS being <<>>.  That is all a      *)
(* collision-free chain tells.  A body is the name of who wrote it.  The   *)
(* stamp (size and modification time) is a version that every visible      *)
(* change of the file advances.                                            *)
(***************************************************************************)
EXTENDS Naturals, Sequences, FiniteSets

CONSTANTS
  Instance,   \* the AuditLog objects on the file
  Process,    \* the processes
  Home,       \* [Instance -> Process]
  Edits,      \* what programs without the lock may do to the file
  Racing,     \* they may do it in the middle of an operation
  MaxLines,   \* bound: lines on the file
  MaxFails,   \* bound: writes and repairs that raise
  MaxEdits,   \* bound: edits
  MaxCrashes, \* bound: process deaths
  MaxAnchors  \* bound: anchors exported

EditKinds == {"edit", "silent", "cut", "tear", "regenerate", "blank"}
Body      == Instance \cup {"repair", "edited"}
GENESIS   == <<>>

ASSUME ActorsAssumption ==
  /\ Home \in [Instance -> Process]
  /\ Instance \cap {"repair", "edited"} = {}
  /\ {"free", "none"} \cap Process = {}
ASSUME EditsAssumption == Edits \subseteq EditKinds /\ Racing \in BOOLEAN
ASSUME LimitsAssumption ==
  {MaxLines, MaxFails, MaxEdits, MaxCrashes, MaxAnchors} \subseteq Nat

VARIABLES
  file,     \* the lines that are not blank
  blanks,   \* the places in it that blanks stand before, on a line of their own
  ended,    \* the file ends with a newline, or is empty
  version,  \* what _file_stamp tells of the file
  lock,     \* the process that holds the OS lock, or "free"
  holding,  \* processes inside a holding() block
  pc,       \* where each instance stands; "down": not constructed
  prev,     \* _prev: the hash the next entry is chained to
  stamp,    \* _stamp
  newline,  \* _needs_newline
  mending,  \* the process inside repair_torn_tail, or "none"
  side,     \* the side files: <<line, copy>>
  anchors,  \* exported anchors, each with the file it was taken from
  told,     \* history: the hashes that append has returned
  mine,     \* history: those returned to an instance since it was opened
  checked,  \* history: instances whose ensure_intact passed in this holding()
  fails, edits, crashes  \* how often each happened

disk   == <<file, blanks, ended, version>>
turns  == <<lock, holding>>
cached == <<prev, stamp, newline>>
repair == <<mending, side>>
counts == <<fails, edits, crashes>>
vars   == <<disk, turns, pc, cached, repair, anchors, told, mine, checked, counts>>

----------------------------------------------------------------------------
(* Reading the file *)

NewLine(body, p) == [form |-> "entry", body |-> body, prev |-> p, hash |-> Append(p, body)]

\* A line no reader can parse: a write cut off part-way.
Torn == [form |-> "torn", body |-> "edited", prev |-> GENESIS, hash |-> GENESIS]

Before(lines, k) == IF k = 1 THEN GENESIS ELSE lines[k - 1].hash

\* The line is readable, follows the one before it and is what was hashed.
Links(lines, k) ==
  /\ lines[k].form = "entry"
  /\ lines[k].prev = Before(lines, k)
  /\ lines[k].hash = Append(lines[k].prev, lines[k].body)

\* _verify_chain: the entries that do not link; the first is what it names.
Breaks(lines)   == {k \in DOMAIN lines : ~Links(lines, k)}
Verifies(lines) == Breaks(lines) = {}
Front(lines)    == SubSeq(lines, 1, Len(lines) - 1)
Readable        == \A k \in DOMAIN file : file[k].form = "entry"

\* break_at: a line number, blank lines counted.
FirstBreak ==
  LET first == CHOOSE k \in Breaks(file) : \A j \in Breaks(file) : k <= j
  IN  first + Cardinality({b \in blanks : b <= first})

\* Blanks stand behind the newline of the last line, with their own newline or not.
Trailing == Len(file) + 1 \in blanks

\* The torn_tail flag of the first problem: the last line that is not blank cannot
\* be read, and the file, not that line, lacks a newline.
TornTail ==
  /\ Breaks(file) = {Len(file)}
  /\ file[Len(file)].form = "torn"
  /\ ~ended

MutRepairable ==    \* the lines before the cut are not verified
  file # <<>> /\ ~ended /\ ~Trailing /\ file[Len(file)].form = "torn"

\* What _repair_torn_tail demands of the bytes after the last newline, which are
\* not blank and cannot be read, and of the lines before them.
Repairable ==
  /\ file # <<>> /\ ~ended /\ ~Trailing
  /\ file[Len(file)].form = "torn"
  /\ Verifies(Front(file))

Hashes(lines) == {lines[k].hash : k \in DOMAIN lines}

\* _recover_tip
Tip == IF file = <<>> THEN GENESIS ELSE file[Len(file)].hash

MutAccepts(i) ==    \* the file may have been cut back
  Verifies(file)

\* _resync: append again only if the whole chain verifies and still holds the
\* last entry this instance knows of.
Accepts(i) ==
  /\ Verifies(file)
  /\ prev[i] # GENESIS => prev[i] \in Hashes(file)

MutAnchorHolds(a) ==    \* the chain up to the anchored entry is not verified
  IF a.entries = 0 THEN a.head = GENESIS
  ELSE /\ Len(file) >= a.entries
       /\ file[a.entries].form = "entry" /\ file[a.entries].hash = a.head

MutAnchorHoldsWhole(a) ==    \* a break past the anchored entry counts too
  IF a.entries = 0 THEN a.head = GENESIS
  ELSE /\ Verifies(file)
       /\ Len(file) >= a.entries
       /\ file[a.entries].form = "entry" /\ file[a.entries].hash = a.head

\* _verify_anchor
AnchorHolds(a) ==
  IF a.entries = 0 THEN a.head = GENESIS
  ELSE /\ Verifies(file) \/ FirstBreak > a.entries
       /\ Len(file) >= a.entries
       /\ file[a.entries].form = "entry" /\ file[a.entries].hash = a.head

----------------------------------------------------------------------------
(* The lock: _guard and holding.  A process that already holds it enters   *)
(* again without waiting; one thread of a process is inside at a time.     *)

Inside == {"opened", "check", "write", "written"}
Busy(p) == mending = p \/ \E i \in Instance : Home[i] = p /\ pc[i] \in Inside

MutEnters(p) ==    \* a shared lock, where a writer needs an exclusive one
  lock' = p

Enters(p) ==
  /\ lock = "free" \/ (p \in holding /\ ~Busy(p))
  /\ lock' = p

Leaves(p) == lock' = IF p \in holding THEN p ELSE "free"

Hold(p) ==
  /\ \E i \in Instance : Home[i] = p /\ pc[i] = "idle"
  /\ lock = "free"
  /\ lock' = p
  /\ holding' = holding \cup {p}
  /\ UNCHANGED <<disk, pc, cached, repair, anchors, told, mine, checked, counts>>

Unhold(p) ==
  /\ p \in holding /\ ~Busy(p)
  /\ lock' = "free"
  /\ holding' = holding \ {p}
  /\ checked' = {i \in checked : Home[i] # p}
  /\ UNCHANGED <<disk, pc, cached, repair, anchors, told, mine, counts>>

----------------------------------------------------------------------------
(* The constructor and ensure_intact *)

\* An unreadable line raises AuditLogDamaged: the object is not constructed.
Open(i) ==
  /\ pc[i] = "down"
  /\ Enters(Home[i])
  /\ Readable
  /\ pc' = [pc EXCEPT ![i] = "opened"]
  /\ prev' = [prev EXCEPT ![i] = Tip]
  /\ newline' = [newline EXCEPT ![i] = ~ended]
  /\ mine' = [mine EXCEPT ![i] = {}]
  /\ UNCHANGED <<disk, holding, stamp, repair, anchors, told, checked, counts>>

MutOpened(i) ==    \* no stamp, as a reader is made: a value no file has
  /\ pc[i] = "opened"
  /\ pc' = [pc EXCEPT ![i] = "idle"]
  /\ stamp' = [stamp EXCEPT ![i] = 0 - 1]
  /\ Leaves(Home[i])
  /\ UNCHANGED <<disk, holding, prev, newline, repair, anchors, told, mine, checked, counts>>

Opened(i) ==
  /\ pc[i] = "opened"
  /\ pc' = [pc EXCEPT ![i] = "idle"]
  /\ stamp' = [stamp EXCEPT ![i] = version]
  /\ Leaves(Home[i])
  /\ UNCHANGED <<disk, holding, prev, newline, repair, anchors, told, mine, checked, counts>>

\* _resync continues from the file's real tip.
Resync(i) ==
  /\ prev' = [prev EXCEPT ![i] = Tip]
  /\ newline' = [newline EXCEPT ![i] = ~ended]

\* ensure_intact, when it does not raise: it changes nothing but the cache.
EnsureIntact(i) ==
  /\ pc[i] = "idle"
  /\ lock = "free" \/ (Home[i] \in holding /\ ~Busy(Home[i]))
  /\ \/ stamp[i] = version /\ UNCHANGED cached
     \/ /\ stamp[i] # version /\ Accepts(i)
        /\ Resync(i)
        /\ stamp' = [stamp EXCEPT ![i] = version]
  /\ checked' = IF Home[i] \in holding THEN checked \cup {i} ELSE checked
  /\ UNCHANGED <<disk, turns, pc, repair, anchors, told, mine, counts>>

----------------------------------------------------------------------------
(* append *)

Ask(i) ==
  /\ pc[i] = "idle"
  /\ Len(file) < MaxLines
  /\ Enters(Home[i])
  /\ pc' = [pc EXCEPT ![i] = "check"]
  /\ UNCHANGED <<disk, holding, cached, repair, anchors, told, mine, checked, counts>>

MutCheck(i) ==    \* no stamp: the cached tip is trusted
  /\ pc[i] = "check"
  /\ pc' = [pc EXCEPT ![i] = "write"]
  /\ UNCHANGED <<disk, turns, cached, repair, anchors, told, mine, checked, counts>>

Check(i) ==
  /\ pc[i] = "check"
  /\ \/ stamp[i] = version /\ UNCHANGED <<prev, newline>>
     \/ stamp[i] # version /\ Accepts(i) /\ Resync(i)
  /\ pc' = [pc EXCEPT ![i] = "write"]
  /\ UNCHANGED <<disk, turns, stamp, repair, anchors, told, mine, checked, counts>>

\* AuditLogDamaged: nothing is written.
Refuse(i) ==
  /\ pc[i] = "check"
  /\ stamp[i] # version /\ ~Accepts(i)
  /\ pc' = [pc EXCEPT ![i] = "idle"]
  /\ Leaves(Home[i])
  /\ UNCHANGED <<disk, holding, cached, repair, anchors, told, mine, checked, counts>>

\* The lines after instance i wrote `line`; one that starts behind an
\* unfinished line is glued to it, and neither can be read.  Blanks before an
\* entry on its own line do not matter.
Joined(i, line) ==
  IF ~ended /\ ~Trailing /\ ~newline[i] THEN Append(Front(file), Torn) ELSE Append(file, line)

\* The blank lines then: a newline that is owed makes a line of the blanks at the
\* end, or of nothing; without it those blanks begin the new line.
Spaced(i) ==
  CASE newline[i] /\ ended   -> blanks \cup {Len(file) + 1}
    [] ~newline[i] /\ ~ended -> blanks \ {Len(file) + 1}
    [] OTHER                  -> blanks

Entry(i) == NewLine(i, prev[i])

Becomes(lines, bl, nl) == file' = lines /\ blanks' = bl /\ ended' = nl /\ version' = version + 1

WriteLine(i) ==
  /\ pc[i] = "write"
  /\ Becomes(Joined(i, Entry(i)), Spaced(i), TRUE)
  /\ pc' = [pc EXCEPT ![i] = "written"]
  /\ UNCHANGED <<turns, cached, repair, anchors, told, mine, checked, counts>>

\* What a write that stops part-way can leave: nothing, the newline it owed,
\* part of the line, or all of it with or without its newline.
PartWritten(i) ==
  \/ UNCHANGED disk
  \/ newline[i] /\ Becomes(file, Spaced(i), TRUE)
  \/ Becomes(Joined(i, Torn), Spaced(i), FALSE)
  \/ \E nl \in BOOLEAN : Becomes(Joined(i, Entry(i)), Spaced(i), nl)

MutWritten(i) ==    \* the cached tip is not advanced
  /\ pc[i] = "written"
  /\ stamp' = [stamp EXCEPT ![i] = version]
  /\ newline' = [newline EXCEPT ![i] = FALSE]
  /\ told' = told \cup {Append(prev[i], i)}
  /\ mine' = [mine EXCEPT ![i] = @ \cup {Append(prev[i], i)}]
  /\ pc' = [pc EXCEPT ![i] = "idle"]
  /\ Leaves(Home[i])
  /\ UNCHANGED <<disk, holding, prev, repair, anchors, checked, counts>>

\* The file is closed and its stamp read: the append returns its hash.
Written(i) ==
  /\ pc[i] = "written"
  /\ stamp' = [stamp EXCEPT ![i] = version]
  /\ newline' = [newline EXCEPT ![i] = FALSE]
  /\ prev' = [prev EXCEPT ![i] = Append(@, i)]
  /\ told' = told \cup {prev'[i]}
  /\ mine' = [mine EXCEPT ![i] = @ \cup {prev'[i]}]
  /\ pc' = [pc EXCEPT ![i] = "idle"]
  /\ Leaves(Home[i])
  /\ UNCHANGED <<disk, holding, repair, anchors, checked, counts>>

\* The write or the flush raises; the cache keeps what it held before.
WriteRaises(i) ==
  /\ pc[i] = "write"
  /\ fails < MaxFails
  /\ fails' = fails + 1
  /\ PartWritten(i)
  /\ pc' = [pc EXCEPT ![i] = "idle"]
  /\ Leaves(Home[i])
  /\ checked' = {j \in checked : Home[j] # Home[i]}
  /\ UNCHANGED <<holding, cached, repair, anchors, told, mine, edits, crashes>>

----------------------------------------------------------------------------
(* repair_torn_tail, run by a person in any process *)

\* An earlier side file is never overwritten: the copy number grows.
Copy(line) == Cardinality({s \in side : s[1] = line}) + 1

MutRepairSide(p) ==    \* no side file
  /\ mending = "none"
  /\ Enters(p)
  /\ Repairable
  /\ mending' = p
  /\ UNCHANGED <<disk, holding, pc, cached, side, anchors, told, mine, checked, counts>>

\* The partial bytes go to a side file, flushed to disk.
RepairSide(p) ==
  /\ mending = "none"
  /\ Enters(p)
  /\ Repairable
  /\ mending' = p
  /\ side' = side \cup {<<Len(file), Copy(Len(file))>>}
  /\ UNCHANGED <<disk, holding, pc, cached, anchors, told, mine, checked, counts>>

MutRepairSwap(p) ==    \* the line before the cut goes with it
  /\ mending = p
  /\ LET kept == Front(Front(file))
     IN  Becomes(Append(kept, NewLine("repair", IF kept = <<>> THEN GENESIS ELSE kept[Len(kept)].hash)),
                 blanks, TRUE)
  /\ mending' = "none"
  /\ Leaves(p)
  /\ UNCHANGED <<holding, pc, cached, side, anchors, told, mine, checked, counts>>

\* os.replace: every complete entry, and the record of the repair.
RepairSwap(p) ==
  /\ mending = p
  /\ LET kept == Front(file)
     IN  Becomes(Append(kept, NewLine("repair", Before(file, Len(file)))), blanks, TRUE)
  /\ mending' = "none"
  /\ Leaves(p)
  /\ UNCHANGED <<holding, pc, cached, side, anchors, told, mine, checked, counts>>

\* Nothing changed: the side file of this repair is removed again.
RepairRaises(p) ==
  /\ mending = p
  /\ fails < MaxFails
  /\ fails' = fails + 1
  /\ side' = side \ {<<Len(file), Copy(Len(file)) - 1>>}
  /\ mending' = "none"
  /\ Leaves(p)
  /\ UNCHANGED <<disk, holding, pc, cached, anchors, told, mine, checked, edits, crashes>>

----------------------------------------------------------------------------
(* Anchors, process deaths, and programs without the lock *)

\* anchor(): the entries of the file, and this instance's own last hash.
Anchor(i) ==
  /\ pc[i] = "idle"
  /\ Cardinality(anchors) < MaxAnchors
  /\ lock = "free" \/ (Home[i] \in holding /\ ~Busy(Home[i]))
  /\ anchors' = anchors \cup {[entries |-> Len(file), head |-> prev[i], was |-> file]}
  /\ UNCHANGED <<disk, turns, pc, cached, repair, told, mine, checked, counts>>

\* A process dies anywhere: the OS releases its lock, its memory is gone, and
\* the write it was in stops part-way.
Crash(p) ==
  /\ crashes < MaxCrashes
  /\ crashes' = crashes + 1
  /\ \E i \in Instance : Home[i] = p /\ pc[i] # "down"
  /\ IF \E i \in Instance : Home[i] = p /\ pc[i] = "write"
     THEN \E i \in Instance : Home[i] = p /\ pc[i] = "write" /\ PartWritten(i)
     ELSE UNCHANGED disk
  /\ pc' = [i \in Instance |-> IF Home[i] = p THEN "down" ELSE pc[i]]
  /\ lock' = IF lock = p THEN "free" ELSE lock
  /\ holding' = holding \ {p}
  /\ checked' = {i \in checked : Home[i] # p}
  /\ mending' = IF mending = p THEN "none" ELSE mending
  /\ UNCHANGED <<cached, side, anchors, told, mine, fails, edits>>

\* A line's content is changed in place; its hash fields stay.
Altered(k) == [file EXCEPT ![k].body = "edited"]

\* A silent edit keeps the size and the modification time.
Stamped == {version + 1} \cup (IF "silent" \in Edits THEN {version} ELSE {})

\* A chain of n entries written anew from GENESIS.
Regenerated(n) ==
  LET all == [k \in 1 .. n |-> "edited"]
  IN  [k \in 1 .. n |-> NewLine("edited", SubSeq(all, 1, k - 1))]

\* A program may leave blanks behind the last line, which it ends with a newline.
\* The person who repairs has stopped the others first ("Stop every process").
Edit ==
  /\ edits < MaxEdits
  /\ mending = "none"
  /\ edits' = edits + 1
  /\ Racing \/ lock = "free"
  /\ file # <<>>
  /\ \/ /\ "blank" \in Edits
        /\ \E nl \in BOOLEAN : Becomes(file, blanks \cup {Len(file) + 1}, nl)
     \/ /\ file[Len(file)].form = "entry"
        /\ \/ /\ "edit" \in Edits
              /\ \E k \in DOMAIN file : file' = Altered(k)
              /\ version' \in Stamped /\ UNCHANGED <<blanks, ended>>
           \/ /\ "cut" \in Edits
              /\ \E n \in 0 .. Len(file) - 1 : Becomes(SubSeq(file, 1, n), blanks \cap 1 .. n, TRUE)
           \/ /\ "tear" \in Edits
              /\ ended /\ Len(file) < MaxLines
              /\ Becomes(Append(file, Torn), blanks, FALSE)
           \/ /\ "regenerate" \in Edits
              /\ \E n \in 1 .. MaxLines : Becomes(Regenerated(n), {}, TRUE)
  /\ checked' = {}
  /\ UNCHANGED <<turns, pc, cached, repair, anchors, told, mine, fails, crashes>>

----------------------------------------------------------------------------
Init ==
  /\ file = <<>> /\ blanks = {} /\ ended = TRUE /\ version = 0
  /\ lock = "free" /\ holding = {}
  /\ pc = [i \in Instance |-> "down"]
  /\ prev = [i \in Instance |-> GENESIS]
  /\ stamp = [i \in Instance |-> 0]
  /\ newline = [i \in Instance |-> FALSE]
  /\ mending = "none" /\ side = {}
  /\ anchors = {} /\ told = {}
  /\ mine = [i \in Instance |-> {}]
  /\ checked = {}
  /\ fails = 0 /\ edits = 0 /\ crashes = 0

InstanceStep(i) ==
  \/ Open(i) \/ Opened(i) \/ EnsureIntact(i)
  \/ Ask(i) \/ Check(i) \/ Refuse(i) \/ WriteLine(i) \/ WriteRaises(i) \/ Written(i)
  \/ Anchor(i)

ProcessStep(p) ==
  \/ Hold(p) \/ Unhold(p)
  \/ RepairSide(p) \/ RepairSwap(p) \/ RepairRaises(p)
  \/ Crash(p)

Next ==
  \/ \E i \in Instance : InstanceStep(i)
  \/ \E p \in Process : ProcessStep(p)
  \/ Edit

Spec == Init /\ [][Next]_vars

----------------------------------------------------------------------------
(* Properties *)

LineType == [form : {"entry", "torn"}, body : Body, prev : Seq(Body), hash : Seq(Body)]

AnchorType == [entries : Nat, head : Seq(Body), was : Seq(LineType)]

\* Every variable keeps its type, and only a known process holds the lock.
TypeOK ==
  /\ file \in Seq(LineType) /\ blanks \subseteq Nat \ {0} /\ ended \in BOOLEAN /\ version \in Nat
  /\ lock \in Process \cup {"free"} /\ holding \subseteq Process
  /\ pc \in [Instance -> Inside \cup {"down", "idle"}]
  /\ prev \in [Instance -> Seq(Body)]
  /\ stamp \in [Instance -> Nat]
  /\ newline \in [Instance -> BOOLEAN]
  /\ mending \in Process \cup {"none"}
  /\ side \subseteq Nat \X Nat /\ IsFiniteSet(side)
  /\ \A a \in anchors : a \in AnchorType
  /\ told \subseteq Seq(Body)
  /\ mine \in [Instance -> SUBSET Seq(Body)]
  /\ checked \subseteq Instance
  /\ {fails, edits, crashes} \subseteq Nat

\* As long as only this class writes the file, its chain verifies, whatever is
\* cut off, retried, reopened or repaired: at most the last line is a cut-off
\* write, and a person can repair it (core.py:152-161, 311-312).
ChainIntact == edits = 0 => Breaks(file) = {} \/ (TornTail /\ Repairable)

\* An append that returned is durable: its entry is on the file after every
\* crash, failed write, repair and restart (core.py:578-587, 455-465).
ToldStands == edits = 0 => told \subseteq Hashes(file)

\* "Check first, so the other write never happens without its record"
\* (core.py:383-384): inside holding(), after ensure_intact, the log will accept
\* the record, whatever other instances and processes do.
CheckedIsRecorded == edits = 0 => \A i \in checked : stamp[i] = version \/ Accepts(i)

\* A repair moves the partial line aside, never over another (core.py:461, 515):
\* for each repair on the chain the side file of its line exists.
SideKept ==
  edits = 0 => \A k \in DOMAIN file : file[k].body = "repair" => \E s \in side : s[1] = k

\* A repair leaves a log that opens: every line before the cut was verified, so what
\* was edited elsewhere is never sealed under a repair record, and every complete
\* entry is still there, "byte for byte" (core.py:438-443, 452-458).
RepairLeavesSound ==
  [][mending # "none" /\ version' # version => Verifies(file') /\ Front(file') = Front(file)]_vars

\* An instance that sees nothing to resync (core.py:395-397) still has on the
\* file, unaltered, everything it was told it wrote since it was opened.
OwnHistoryStands ==
  \A i \in Instance : pc[i] = "idle" /\ stamp[i] = version =>
    \A h \in mine[i] : \E k \in DOMAIN file : file[k].hash = h /\ Links(file, k)

\* An anchor that verifies vouches for every entry up to it (core.py:608-609): they
\* are the ones its head was computed from, if no blank line stands among them: those
\* count in break_at and not in the anchor (core.py:619-620).
AnchorCatches ==
  \A a \in anchors : AnchorHolds(a) /\ blanks \cap 1 .. a.entries = {} =>
    [k \in 1 .. a.entries |-> file[k].body] = a.head

\* "the log was regenerated or rewritten past the anchor" (core.py:638-639) is
\* said of a log only when what the anchor was taken from is no longer there,
\* whatever was edited, cut off or appended behind it: for an anchor of a sound
\* log, taken by an instance that had seen its last entry.
AnchorAccusesTruly ==
  \A a \in anchors :
    /\ Verifies(a.was) /\ Before(a.was, a.entries + 1) = a.head
    /\ Len(file) >= a.entries /\ SubSeq(file, 1, a.entries) = a.was
    => AnchorHolds(a)

\* The lines readers get, and the ledger they stand for.
Read == IF Breaks(file) # {} /\ TornTail THEN Front(file) ELSE file

Promise == INSTANCE Ledger WITH
  Author  <- Instance,
  Mender  <- "repair",
  entries <- [k \in DOMAIN Read |-> Read[k].body],
  owed    <- [i \in Instance |-> IF pc[i] \in {"check", "write"} THEN "asked"
                                 ELSE IF pc[i] = "written" THEN "written" ELSE "nothing"],
  told    <- {Len(h) : h \in told}

\* The file, the lock and the chain keep the promise of Ledger: entries only
\* accumulate, and every append that returned has a place of its own.
PromiseKept == Promise!Spec
=============================================================================
