--------------------------- MODULE AuditLogProofs ---------------------------
(***************************************************************************)
(* The audit log, proved for any number of processes and instances, any    *)
(* length of the file and any failures: types, the chain, that what append *)
(* returned stays on it, repairs and their side files, anchors, what edits *)
(* leave, and that the log implements the promise of Ledger.               *)
(***************************************************************************)
EXTENDS AuditLog, Positions, SequenceTheorems, FiniteSetTheorems, TLAPS

----------------------------------------------------------------------------
(* Sequences of lines *)

\* What appending one element leaves and adds.
LEMMA Appended ==
  ASSUME NEW S, NEW s \in Seq(S), NEW x \in S
  PROVE  /\ Append(s, x) \in Seq(S)
         /\ Len(s) \in Nat
         /\ Len(Append(s, x)) = Len(s) + 1
         /\ Append(s, x)[Len(s) + 1] = x
         /\ \A k \in 1 .. Len(s) : Append(s, x)[k] = s[k]
         /\ DOMAIN Append(s, x) = 1 .. Len(s) + 1 /\ DOMAIN s = 1 .. Len(s)
  OBVIOUS

\* What dropping the last element leaves.
LEMMA FrontOf ==
  ASSUME NEW S, NEW s \in Seq(S), s # <<>>
  PROVE  /\ Front(s) \in Seq(S)
         /\ Len(s) \in Nat \ {0}
         /\ Len(Front(s)) = Len(s) - 1
         /\ \A k \in 1 .. Len(s) - 1 : Front(s)[k] = s[k]
         /\ s[Len(s)] \in S
         /\ DOMAIN Front(s) = 1 .. Len(s) - 1 /\ DOMAIN s = 1 .. Len(s)
<1> DEFINE m == Len(s) - 1
<1>1. m \in Nat /\ Len(s) = m + 1 /\ DOMAIN s = 1 .. Len(s) /\ \A k \in 1 .. m + 1 : s[k] \in S
  OBVIOUS
<1>2. /\ SubSeq(s, 1, m) \in Seq(S)
      /\ Len(SubSeq(s, 1, m)) = m
      /\ \A k \in 1 .. m : SubSeq(s, 1, m)[k] = s[k]
  <2> HIDE DEF m
  <2>1. /\ SubSeq(s, 1, m) \in Seq(S)
        /\ Len(SubSeq(s, 1, m)) = IF 1 <= m THEN m - 1 + 1 ELSE 0
        /\ \A k \in 1 .. m - 1 + 1 : SubSeq(s, 1, m)[k] = s[1 + k - 1]
    BY <1>1, SubSeqProperties
  <2> QED
    BY <1>1, <2>1
<1>3. DOMAIN Front(s) = 1 .. Len(Front(s))
  BY <1>2 DEF Front
<1> QED
  BY <1>1, <1>2, <1>3 DEF Front

\* Every line the model writes is a line, and lines carry hashes.
LEMMA LineFacts ==
  /\ \A b \in Body, p \in Seq(Body) : NewLine(b, p) \in LineType
  /\ Torn \in LineType
  /\ \A f \in Seq(LineType) : \A k \in DOMAIN f : f[k] \in LineType /\ f[k].hash \in Seq(Body)
<1>1. \A b \in Body, p \in Seq(Body) : Append(p, b) \in Seq(Body)
  OBVIOUS
<1>2. <<>> \in Seq(Body) /\ "edited" \in Body
  BY DEF Body
<1>3. \A f \in Seq(LineType) : \A k \in DOMAIN f : f[k] \in LineType
  OBVIOUS
<1>4. \A l \in LineType : l.hash \in Seq(Body)
  BY DEF LineType
<1>5. \A b \in Body, p \in Seq(Body) : NewLine(b, p) \in LineType
  BY <1>1 DEF NewLine, LineType
<1>6. Torn \in LineType
  BY <1>2 DEF Torn, LineType, GENESIS
<1> QED
  BY <1>3, <1>4, <1>5, <1>6

----------------------------------------------------------------------------
(* Types *)

\* A run begins typed.
LEMMA InitType == Init => TypeOK
<1> SUFFICES ASSUME Init PROVE TypeOK
  OBVIOUS
<1>1. GENESIS \in Seq(Body) /\ <<>> \in Seq(LineType)
  BY DEF GENESIS
<1> QED
  BY <1>1, FS_EmptySet DEF Init, TypeOK

\* The tip read from a file is a hash.
LEMMA TipType == TypeOK => Tip \in Seq(Body)
<1> SUFFICES ASSUME TypeOK PROVE Tip \in Seq(Body)
  OBVIOUS
<1>1. CASE file = <<>>
  BY <1>1 DEF Tip, GENESIS
<1>2. CASE file # <<>>
  BY <1>2, FrontOf, LineFacts DEF TypeOK, Tip
<1> QED
  BY <1>1, <1>2

\* So is what the last line should link to.
LEMMA BeforeType ==
  ASSUME TypeOK, file # <<>>
  PROVE  Before(file, Len(file)) \in Seq(Body)
<1>1. /\ file \in Seq(LineType) /\ Len(file) \in Nat \ {0} /\ DOMAIN file = 1 .. Len(file)
  BY FrontOf DEF TypeOK
<1>2. Len(file) # 1 => Len(file) - 1 \in DOMAIN file
  BY <1>1
<1> QED
  BY <1>1, <1>2, LineFacts DEF Before, GENESIS

\* The entry an append would write, and the file with it behind a line, are typed.
LEMMA EntryType ==
  ASSUME TypeOK, NEW i \in Instance
  PROVE  /\ Entry(i) \in LineType
         /\ Append(prev[i], i) \in Seq(Body)
         /\ \A line \in LineType : Joined(i, line) \in Seq(LineType)
<1>1. i \in Body /\ prev[i] \in Seq(Body) /\ file \in Seq(LineType)
  BY DEF TypeOK, Body
<1>2. Entry(i) \in LineType /\ Append(prev[i], i) \in Seq(Body)
  BY <1>1, LineFacts, Appended DEF Entry
<1>3. ASSUME NEW line \in LineType PROVE Joined(i, line) \in Seq(LineType)
  <2>1. Append(file, line) \in Seq(LineType)
    BY <1>1
  <2>2. file = <<>> => Front(file) = <<>>
    BY DEF Front
  <2>3. Front(file) \in Seq(LineType)
    BY <1>1, <2>2, FrontOf
  <2> QED
    BY <2>1, <2>3, LineFacts, Appended DEF Joined
<1> QED
  BY <1>2, <1>3

\* A write leaves blanks before lines only.
LEMMA SpacedType ==
  ASSUME TypeOK
  PROVE  Len(file) + 1 \in Nat \ {0} /\ \A i \in Instance : Spaced(i) \subseteq Nat \ {0}
<1>1. Len(file) + 1 \in Nat \ {0} /\ blanks \subseteq Nat \ {0}
  BY DEF TypeOK
<1> QED
  BY <1>1, Zenon DEF Spaced

\* A write that stopped part-way leaves a typed file.
LEMMA PartWrittenType ==
  ASSUME TypeOK, NEW i \in Instance, PartWritten(i)
  PROVE  file' \in Seq(LineType) /\ blanks' \subseteq Nat \ {0} /\ ended' \in BOOLEAN /\ version' \in Nat
<1>1. /\ Joined(i, Torn) \in Seq(LineType) /\ Joined(i, Entry(i)) \in Seq(LineType)
      /\ file \in Seq(LineType) /\ blanks \subseteq Nat \ {0} /\ ended \in BOOLEAN /\ version \in Nat
  BY EntryType, LineFacts DEF TypeOK
<1>2. CASE UNCHANGED disk
  BY <1>1, <1>2 DEF disk
<1>3. ASSUME NEW lines \in Seq(LineType), NEW nl \in BOOLEAN, Becomes(lines, Spaced(i), nl)
      PROVE  /\ file' \in Seq(LineType) /\ blanks' \subseteq Nat \ {0} /\ ended' \in BOOLEAN
             /\ version' \in Nat
  <2>1. ended' \in BOOLEAN
    BY <1>3, Zenon DEF Becomes
  <2> QED
    BY <1>1, <1>3, <2>1, SpacedType DEF Becomes
<1> QED
  BY <1>1, <1>2, <1>3, Zenon DEF PartWritten

\* So does a program without the lock.
LEMMA EditType == TypeOK /\ Edit => file' \in Seq(LineType)
<1> SUFFICES ASSUME TypeOK, Edit PROVE file' \in Seq(LineType)
  OBVIOUS
<1>1. file \in Seq(LineType) /\ DOMAIN file = 1 .. Len(file) /\ Len(file) \in Nat
      /\ file # <<>>
  BY DEF TypeOK, Edit
<1>2. \A k \in DOMAIN file : Altered(k) \in Seq(LineType)
  <2> SUFFICES ASSUME NEW k \in DOMAIN file PROVE Altered(k) \in Seq(LineType)
    OBVIOUS
  <2>1. [file[k] EXCEPT !.body = "edited"] \in LineType
    BY LineFacts, <1>1 DEF LineType, Body
  <2>2. Altered(k) = [file EXCEPT ![k] = [file[k] EXCEPT !.body = "edited"]]
    BY DEF Altered
  <2> QED
    BY <1>1, <2>1, <2>2
<1>3. \A n \in 0 .. Len(file) - 1 : SubSeq(file, 1, n) \in Seq(LineType)
  BY <1>1
<1>4. Append(file, Torn) \in Seq(LineType)
  BY <1>1, LineFacts
<1>5. \A n \in 1 .. MaxLines : Regenerated(n) \in Seq(LineType)
  <2> SUFFICES ASSUME NEW n \in 1 .. MaxLines PROVE Regenerated(n) \in Seq(LineType)
    OBVIOUS
  <2>0. MaxLines \in Nat /\ n \in Nat
    BY LimitsAssumption
  <2> DEFINE all == [k \in 1 .. n |-> "edited"]
  <2>1. all \in Seq(Body) /\ Len(all) = n
    BY <2>0 DEF Body
  <2>2. \A k \in 1 .. n : SubSeq(all, 1, k - 1) \in Seq(Body)
    <3> HIDE DEF all
    <3> SUFFICES ASSUME NEW k \in 1 .. n PROVE SubSeq(all, 1, k - 1) \in Seq(Body)
      OBVIOUS
    <3>1. \A j \in 1 .. k - 1 : all[j] \in Body
      BY <2>0, <2>1
    <3> QED
      BY <2>0, <2>1, <3>1, SubSeqProperties
  <2>3. "edited" \in Body
    BY DEF Body
  <2>4. \A k \in 1 .. n : NewLine("edited", SubSeq(all, 1, k - 1)) \in LineType
    <3> HIDE DEF all
    <3> QED
      BY <2>2, <2>3, LineFacts
  <2>5. Regenerated(n) = [k \in 1 .. n |-> NewLine("edited", SubSeq(all, 1, k - 1))]
    BY DEF Regenerated
  <2> HIDE DEF all
  <2> QED
    BY <2>0, <2>4, <2>5
<1> QED
  BY <1>1, <1>2, <1>3, <1>4, <1>5 DEF Edit, Becomes

\* Each step of an instance, of a process, and of an editor keeps the types.
LEMMA InstanceType ==
  ASSUME TypeOK, NEW i \in Instance, InstanceStep(i)
  PROVE  TypeOK'
<1> USE DEF disk, turns, cached, repair, counts
<1>0. /\ Home[i] \in Process /\ ended \in BOOLEAN /\ version \in Nat /\ Tip \in Seq(Body)
      /\ (~ended) \in BOOLEAN
  BY ActorsAssumption, TipType DEF TypeOK
<1>1. CASE Open(i)
  BY <1>0, <1>1 DEF Open, Enters, Inside, TypeOK
<1>2. CASE Opened(i)
  BY <1>0, <1>2 DEF Opened, Leaves, TypeOK
<1>3. CASE EnsureIntact(i)
  <2>1. UNCHANGED cached \/ (Resync(i) /\ stamp' = [stamp EXCEPT ![i] = version])
    BY <1>3 DEF EnsureIntact
  <2>2. checked' \subseteq Instance
    BY <1>3 DEF EnsureIntact, TypeOK
  <2>3. /\ prev' \in [Instance -> Seq(Body)] /\ stamp' \in [Instance -> Nat]
        /\ newline' \in [Instance -> BOOLEAN]
    BY <1>0, <2>1 DEF Resync, TypeOK
  <2> QED
    BY <1>3, <2>2, <2>3 DEF EnsureIntact, TypeOK
<1>4. CASE Ask(i)
  BY <1>0, <1>4 DEF Ask, Enters, Inside, TypeOK
<1>5. CASE Check(i)
  <2>1. UNCHANGED <<prev, newline>> \/ Resync(i)
    BY <1>5 DEF Check
  <2>2. /\ prev' \in [Instance -> Seq(Body)] /\ newline' \in [Instance -> BOOLEAN]
    BY <1>0, <2>1 DEF Resync, TypeOK
  <2> QED
    BY <1>5, <2>2 DEF Check, Inside, TypeOK
<1>6. CASE Refuse(i)
  BY <1>0, <1>6 DEF Refuse, Leaves, TypeOK
<1>7. CASE WriteLine(i)
  <2>1. Joined(i, Entry(i)) \in Seq(LineType)
    BY EntryType
  <2> QED
    BY <1>0, <1>7, <2>1, SpacedType DEF WriteLine, Becomes, Inside, TypeOK
<1>8. CASE WriteRaises(i)
  <2>1. file' \in Seq(LineType) /\ blanks' \subseteq Nat \ {0} /\ ended' \in BOOLEAN /\ version' \in Nat
    BY <1>8, PartWrittenType DEF WriteRaises
  <2> QED
    BY <1>0, <1>8, <2>1 DEF WriteRaises, Leaves, TypeOK
<1>9. CASE Written(i)
  <2>1. Append(prev[i], i) \in Seq(Body)
    BY EntryType
  <2>2. prev' \in [Instance -> Seq(Body)] /\ prev'[i] = Append(prev[i], i)
    BY <1>9, <2>1 DEF Written, TypeOK
  <2>3. told' \subseteq Seq(Body) /\ mine' \in [Instance -> SUBSET Seq(Body)]
    BY <1>9, <2>1, <2>2 DEF Written, TypeOK
  <2> QED
    BY <1>0, <1>9, <2>2, <2>3 DEF Written, Leaves, TypeOK
<1>10. CASE Anchor(i)
  <2>1. [entries |-> Len(file), head |-> prev[i], was |-> file] \in AnchorType
    <3>1. Len(file) \in Nat /\ prev[i] \in Seq(Body) /\ file \in Seq(LineType)
      BY DEF TypeOK
    <3> QED
      BY <3>1 DEF AnchorType
  <2> QED
    BY <1>10, <2>1 DEF Anchor, TypeOK
<1> QED
  BY <1>1, <1>2, <1>3, <1>4, <1>5, <1>6, <1>7, <1>8, <1>9, <1>10 DEF InstanceStep

\* The steps of a process keep the types.
LEMMA ProcessType ==
  ASSUME TypeOK, NEW p \in Process, ProcessStep(p), mending # "none" => file # <<>>
  PROVE  TypeOK'
<1> USE DEF disk, turns, cached, repair, counts
<1>1. CASE Hold(p)
  BY <1>1 DEF Hold, TypeOK
<1>2. CASE Unhold(p)
  BY <1>2 DEF Unhold, TypeOK
<1>3. CASE RepairSide(p)
  <2> DEFINE copies == {s \in side : s[1] = Len(file)}
  <2>1. Len(file) \in Nat /\ IsFiniteSet(side) /\ copies \subseteq side
    BY DEF TypeOK
  <2>2. Cardinality(copies) \in Nat
    BY <2>1, FS_Subset, FS_CardinalityType
  <2>3. Copy(Len(file)) \in Nat
    BY <2>2 DEF Copy
  <2>4. side' = side \cup {<<Len(file), Copy(Len(file))>>}
    BY <1>3 DEF RepairSide
  <2>5. <<Len(file), Copy(Len(file))>> \in Nat \X Nat /\ side \subseteq Nat \X Nat
    BY <2>1, <2>3 DEF TypeOK
  <2>6. side' \subseteq Nat \X Nat
    BY <2>4, <2>5
  <2>7. IsFiniteSet(side')
    BY <2>1, <2>4, FS_AddElement
  <2> QED
    BY <1>3, <2>6, <2>7 DEF RepairSide, Enters, TypeOK
<1>4. CASE RepairSwap(p)
  <2> DEFINE line == NewLine("repair", Before(file, Len(file)))
  <2>1. file' = Append(Front(file), line) /\ blanks' = blanks /\ ended' = TRUE /\ version' = version + 1
    BY <1>4 DEF RepairSwap, Becomes
  <2>2. file # <<>> /\ file \in Seq(LineType)
    BY <1>4, ActorsAssumption DEF RepairSwap, TypeOK
  <2>3. line \in LineType
    BY <2>2, BeforeType, LineFacts DEF Body
  <2>4. file' \in Seq(LineType)
    <3> HIDE DEF line
    <3> QED
      BY <2>1, <2>2, <2>3, FrontOf, Appended
  <2> QED
    BY <1>4, <2>1, <2>4 DEF RepairSwap, Leaves, TypeOK
<1>5. CASE RepairRaises(p)
  <2>1. side' \subseteq side /\ IsFiniteSet(side')
    BY <1>5, FS_Subset DEF RepairRaises, TypeOK
  <2> QED
    BY <1>5, <2>1 DEF RepairRaises, Leaves, TypeOK
<1>6. CASE Crash(p)
  <2>1. UNCHANGED disk \/ \E i \in Instance : PartWritten(i)
    BY <1>6, Zenon DEF Crash
  <2>2. file' \in Seq(LineType) /\ blanks' \subseteq Nat \ {0} /\ ended' \in BOOLEAN /\ version' \in Nat
    BY <2>1, PartWrittenType DEF TypeOK
  <2>3. mending' \in Process \cup {"none"} /\ lock' \in Process \cup {"free"}
    BY <1>6 DEF Crash, TypeOK
  <2>4. pc' \in [Instance -> Inside \cup {"down", "idle"}] /\ crashes' \in Nat
    BY <1>6 DEF Crash, TypeOK
  <2> QED
    BY <1>6, <2>2, <2>3, <2>4 DEF Crash, TypeOK
<1> QED
  BY <1>1, <1>2, <1>3, <1>4, <1>5, <1>6 DEF ProcessStep

\* An edit keeps them.
LEMMA EditorType ==
  ASSUME TypeOK, Edit
  PROVE  TypeOK'
<1> USE DEF disk, turns, cached, repair, counts
<1>1. file' \in Seq(LineType)
  BY EditType
<1>2. ended' \in BOOLEAN
  <2>1. ended \in BOOLEAN
    BY DEF TypeOK
  <2>2. ended' \in {ended, TRUE, FALSE}
    BY Zenon DEF Edit, Becomes
  <2> QED
    BY <2>1, <2>2
<1>3. version' \in {version, version + 1}
  BY DEF Edit, Becomes, Stamped
<1>4. blanks' \subseteq Nat \ {0}
  <2>1. blanks \subseteq Nat \ {0} /\ Len(file) + 1 \in Nat \ {0}
    BY SpacedType DEF TypeOK
  <2>2. \A n : blanks \cap 1 .. n \subseteq blanks
    OBVIOUS
  <2>3. blanks' \subseteq blanks \cup {Len(file) + 1}
    BY <2>2, Zenon DEF Edit, Becomes
  <2> QED BY <2>1, <2>3
<1> QED
  BY <1>1, <1>2, <1>3, <1>4 DEF Edit, TypeOK

----------------------------------------------------------------------------
(* The lock: at most one operation is inside, and it holds the lock *)

Solo ==
  /\ \A i \in Instance : pc[i] \in Inside => lock = Home[i]
  /\ \A i, j \in Instance : pc[i] \in Inside /\ pc[j] \in Inside => i = j
  /\ mending # "none" => /\ lock = mending
                         /\ \A i \in Instance : pc[i] \notin Inside
                         /\ Repairable
  /\ \A p \in holding : lock = p

\* Who enters finds nobody inside.
LEMMA Alone ==
  ASSUME TypeOK, Solo, NEW p \in Process,
         lock = "free" \/ (p \in holding /\ ~Busy(p))
  PROVE  /\ mending = "none"
         /\ \A i \in Instance : pc[i] \notin Inside
         /\ \A q \in holding : q = p
<1>1. CASE lock = "free"
  BY <1>1, ActorsAssumption DEF TypeOK, Solo
<1>2. CASE p \in holding /\ ~Busy(p)
  BY <1>2, ActorsAssumption DEF TypeOK, Solo, Busy
<1> QED
  BY <1>1, <1>2

\* No instance's step brings a second operation inside.
LEMMA InstanceSolo ==
  ASSUME TypeOK, Solo, NEW i \in Instance, InstanceStep(i)
  PROVE  Solo'
<1> USE DEF disk, turns, cached, repair, counts
<1>0. Home[i] \in Process /\ mending \in Process \cup {"none"} /\ pc \in [Instance -> Inside \cup {"down", "idle"}]
  BY ActorsAssumption DEF TypeOK
<1>1. CASE Open(i) \/ Ask(i)
  <2>1. /\ mending = "none" /\ \A j \in Instance : pc[j] \notin Inside
        /\ \A q \in holding : q = Home[i]
    BY <1>0, <1>1, Alone DEF Open, Ask, Enters
  <2>2. /\ \A j \in Instance \ {i} : pc'[j] = pc[j]
        /\ lock' = Home[i] /\ holding' = holding /\ mending' = mending
    BY <1>0, <1>1 DEF Open, Ask, Enters
  <2> QED
    BY <2>1, <2>2 DEF Solo
\* The steps that leave: the instance is inside before, and idle after.
<1>2. ASSUME pc[i] \in Inside, pc' = [pc EXCEPT ![i] = "idle"], Leaves(Home[i]),
             UNCHANGED <<mending, holding>>
      PROVE  Solo'
  <2>1. \A j \in Instance : pc'[j] \notin Inside
    BY <1>0, <1>2 DEF Solo, Inside
  <2>2. mending = "none" /\ \A q \in holding : q = Home[i]
    BY <1>2 DEF Solo
  <2> QED
    BY <1>2, <2>1, <2>2 DEF Solo, Leaves
<1>3. CASE Opened(i) \/ Refuse(i) \/ Written(i) \/ WriteRaises(i)
  BY <1>2, <1>3 DEF Opened, Refuse, Written, WriteRaises, Inside
\* The steps inside.
<1>4. CASE Check(i) \/ WriteLine(i)
  <2>1. pc[i] \in Inside /\ UNCHANGED <<lock, holding, mending>>
    BY <1>4 DEF Check, WriteLine, Inside
  <2>2. \A j \in Instance : pc'[j] \in Inside => pc[j] \in Inside
    BY <1>0, <1>4, <2>1 DEF Check, WriteLine
  <2> QED
    BY <2>1, <2>2 DEF Solo
<1>5. CASE EnsureIntact(i) \/ Anchor(i)
  BY <1>5 DEF EnsureIntact, Anchor, Solo, Repairable, Trailing
<1> QED
  BY <1>1, <1>3, <1>4, <1>5 DEF InstanceStep

\* Nor does a process's.
LEMMA ProcessSolo ==
  ASSUME TypeOK, Solo, NEW p \in Process, ProcessStep(p)
  PROVE  Solo'
<1> USE DEF disk, turns, cached, repair, counts
<1>0. mending \in Process \cup {"none"} /\ "none" \notin Process /\ "free" \notin Process
  BY ActorsAssumption DEF TypeOK
<1>1. CASE Hold(p)
  <2>1. mending = "none" /\ (\A j \in Instance : pc[j] \notin Inside) /\ \A q \in holding : q = p
    BY <1>1, Alone DEF Hold
  <2> QED
    BY <1>1, <2>1 DEF Hold, Solo
<1>2. CASE Unhold(p)
  <2>1. mending = "none" /\ (\A j \in Instance : pc[j] \notin Inside) /\ \A q \in holding : q = p
    BY <1>2, Alone DEF Unhold
  <2> QED
    BY <1>2, <2>1 DEF Unhold, Solo
<1>3. CASE RepairSide(p)
  <2>1. (\A j \in Instance : pc[j] \notin Inside) /\ \A q \in holding : q = p
    BY <1>3, Alone DEF RepairSide, Enters
  <2>2. lock' = p /\ mending' = p /\ UNCHANGED <<pc, holding>> /\ Repairable'
    BY <1>3 DEF RepairSide, Enters, Repairable, Trailing
  <2> QED
    BY <2>1, <2>2 DEF Solo
<1>4. CASE RepairSwap(p) \/ RepairRaises(p)
  <2>1. mending = p /\ mending' = "none" /\ Leaves(p) /\ UNCHANGED <<pc, holding>>
    BY <1>4 DEF RepairSwap, RepairRaises
  <2>2. (\A j \in Instance : pc[j] \notin Inside) /\ \A q \in holding : q = p
    BY <1>0, <2>1 DEF Solo
  <2> QED
    BY <2>1, <2>2 DEF Solo, Leaves
<1>5. CASE Crash(p)
  <2>1. /\ \A i \in Instance : pc'[i] \in Inside => pc[i] \in Inside /\ Home[i] # p
        /\ lock' = IF lock = p THEN "free" ELSE lock
        /\ holding' = holding \ {p}
        /\ mending' = IF mending = p THEN "none" ELSE mending
    BY <1>5 DEF Crash, Inside
  <2>2. mending' # "none" => UNCHANGED <<file, blanks, ended>>
    <3>1. ASSUME mending' # "none" PROVE \A i \in Instance : pc[i] # "write"
      BY <2>1, <3>1 DEF Solo, Inside
    <3> QED
      BY <1>5, <3>1 DEF Crash
  <2>3. mending' # "none" => Repairable'
    BY <2>1, <2>2 DEF Solo, Repairable, Trailing
  <2> QED
    BY <1>0, <2>1, <2>3 DEF Solo
<1> QED
  BY <1>1, <1>2, <1>3, <1>4, <1>5 DEF ProcessStep

\* An edit moves no operation.
LEMMA EditorSolo ==
  ASSUME TypeOK, Solo, Edit
  PROVE  Solo'
<1>1. mending = "none"
  BY DEF Edit
<1> QED
  BY <1>1 DEF Edit, Solo, turns, repair

Base == TypeOK /\ Solo

\* Types and lone operations hold at first,
LEMMA InitBase == Init => Base
  BY InitType, ActorsAssumption DEF Init, Base, Solo, Inside

\* and after every step.
LEMMA NextBase == Base /\ [Next]_vars => Base'
<1> SUFFICES ASSUME Base, [Next]_vars PROVE Base'
  OBVIOUS
<1>1. CASE UNCHANGED vars
  BY <1>1 DEF vars, disk, turns, cached, repair, counts, Base, TypeOK, Solo, Repairable, Trailing
<1>2. mending # "none" => file # <<>>
  BY DEF Base, Solo, Repairable
<1> QED
  BY <1>1, <1>2, InstanceType, ProcessType, EditorType, InstanceSolo, ProcessSolo, EditorSolo
     DEF Next, Base

\* Every reachable state is well formed, whatever edits the file.
THEOREM TypeCorrect == Spec => []TypeOK
<1>1. Base => TypeOK
  BY DEF Base
<1> QED
  BY <1>1, InitBase, NextBase, PTL DEF Spec

----------------------------------------------------------------------------
(* The chain, as long as nobody edits the file                             *)
(*                                                                         *)
(* ChainIntact and ToldStands are not inductive: that an append extends    *)
(* the chain rests on what the instance believes of the file.  CacheInv    *)
(* says what that belief is worth at each place an instance can stand; in  *)
(* particular an unmoved stamp proves the cached tip.                      *)

Sound == Verifies(file) \/ Repairable

OnFile(h) == \E k \in DOMAIN file : file[k].form = "entry" /\ file[k].hash = h

FileInv == Sound /\ blanks = {} /\ \A h \in told : OnFile(h)

\* What instance i remembers is what the file ends in.
Knows(i) == prev[i] = Tip /\ newline[i] = ~ended

Fresh(i) == Knows(i) /\ Verifies(file)

Landed(i) == ended /\ Verifies(file) /\ file # <<>> /\ file[Len(file)] = Entry(i)

CacheInv(i) ==
  /\ stamp[i] <= version
  /\ pc[i] = "opened" => Knows(i) /\ Readable
  /\ pc[i] \in {"idle", "check"} /\ stamp[i] = version => Fresh(i)
  /\ pc[i] = "write" => Fresh(i)
  /\ pc[i] = "written" => Landed(i)

IInv == edits = 0 => FileInv /\ \A i \in Instance : CacheInv(i)

\* A line that links to the last one extends a chain that verifies.
LEMMA Extends ==
  ASSUME NEW f \in Seq(LineType), NEW line \in LineType, Verifies(f),
         line.form = "entry",
         line.prev = IF f = <<>> THEN GENESIS ELSE f[Len(f)].hash,
         line.hash = Append(line.prev, line.body)
  PROVE  Verifies(Append(f, line))
<1> DEFINE g == Append(f, line)
<1>1. /\ Len(f) \in Nat /\ DOMAIN f = 1 .. Len(f) /\ DOMAIN g = 1 .. Len(f) + 1
      /\ g[Len(f) + 1] = line /\ \A k \in 1 .. Len(f) : g[k] = f[k]
      /\ f = <<>> <=> Len(f) = 0
  BY Appended
<1> HIDE DEF g
<1>2. ASSUME NEW k \in 1 .. Len(f) PROVE Links(g, k)
  <2>1. Links(f, k)
    BY <1>1 DEF Verifies, Breaks
  <2>2. k # 1 => k - 1 \in 1 .. Len(f)
    BY <1>1
  <2>3. Before(g, k) = Before(f, k)
    BY <1>1, <2>2 DEF Before
  <2> QED
    BY <1>1, <2>1, <2>3 DEF Links
<1>3. Links(g, Len(f) + 1)
  <2>1. Len(f) + 1 - 1 = Len(f) /\ (Len(f) + 1 = 1 <=> Len(f) = 0) /\ (Len(f) # 0 => Len(f) \in 1 .. Len(f))
    BY <1>1
  <2>2. Before(g, Len(f) + 1) = line.prev
    BY <1>1, <2>1 DEF Before
  <2> QED
    BY <1>1, <2>2 DEF Links
<1>4. \A k \in DOMAIN g : k \in 1 .. Len(f) \/ k = Len(f) + 1
  BY <1>1
<1>5. Verifies(g)
  BY <1>2, <1>3, <1>4 DEF Verifies, Breaks
<1> QED
  BY <1>5 DEF g

\* A line that is written behind a whole chain leaves it whole, or cut off at
\* that line, and every entry where it was.
LEMMA AppendKeeps ==
  ASSUME TypeOK, Verifies(file), NEW line \in LineType, file' = Append(file, line),
         \/ line.form = "entry" /\ line.prev = Tip /\ line.hash = Append(Tip, line.body)
         \/ line.form = "torn" /\ ~ended' /\ blanks' = {}
  PROVE  /\ Sound'
         /\ line.form = "entry" => Verifies(file)' /\ OnFile(line.hash)'
         /\ \A h : OnFile(h) => OnFile(h)'
<1>1. /\ file \in Seq(LineType) /\ Len(file) \in Nat /\ Len(file') = Len(file) + 1
      /\ file' \in Seq(LineType)
      /\ file'[Len(file) + 1] = line /\ \A k \in 1 .. Len(file) : file'[k] = file[k]
      /\ DOMAIN file' = 1 .. Len(file) + 1 /\ DOMAIN file = 1 .. Len(file)
  BY Appended DEF TypeOK
<1>2. \A h : OnFile(h) => OnFile(h)'
  BY <1>1 DEF OnFile
<1>3. CASE line.form = "entry"
  <2>1. Verifies(Append(file, line))
    BY <1>1, <1>3, Extends DEF Tip
  <2>2. Verifies(file)'
    BY <2>1 DEF Verifies, Breaks, Links, Before
  <2>3. Len(file) + 1 \in DOMAIN file'
    BY <1>1
  <2> QED
    BY <1>1, <1>2, <1>3, <2>2, <2>3 DEF Sound, OnFile
<1>4. CASE line.form = "torn" /\ ~ended' /\ blanks' = {}
  <2>1. file' # <<>> /\ file'[Len(file')] = line /\ Len(file') - 1 = Len(file)
    BY <1>1
  <2>2. Front(file') = file
    <3>1. /\ Front(file') \in Seq(LineType) /\ Len(Front(file')) = Len(file)
          /\ \A k \in 1 .. Len(file) : Front(file')[k] = file'[k]
      BY <1>1, <2>1, FrontOf
    <3> QED
      BY <1>1, <3>1
  <2>3. Repairable'
    BY <1>4, <2>1, <2>2 DEF Repairable, Trailing, Verifies, Breaks, Links, Before
  <2> QED
    BY <1>2, <1>4, <2>3 DEF Sound
<1>5. line.form = "entry" \/ (line.form = "torn" /\ ~ended' /\ blanks' = {})
  OBVIOUS
<1> QED
  BY <1>3, <1>4, <1>5, Zenon

\* What an instance knows stays true while the file stays and it does not move
\* to where more is asked of it.
LEMMA Untouched ==
  ASSUME NEW j \in Instance, CacheInv(j), UNCHANGED disk,
         prev'[j] = prev[j], stamp'[j] = stamp[j], newline'[j] = newline[j],
         \/ pc'[j] = pc[j]
         \/ pc[j] \in {"idle", "check"} /\ pc'[j] \in {"idle", "check"}
         \/ pc[j] = "write" /\ pc'[j] = "idle"
         \/ pc'[j] = "down"
  PROVE  CacheInv(j)'
<1>1. file' = file /\ ended' = ended /\ version' = version
  BY DEF disk
<1>2. Knows(j)' <=> Knows(j)
  BY <1>1 DEF Knows, Tip
<1>3. Verifies(file)' <=> Verifies(file)
  BY <1>1 DEF Verifies, Breaks, Links, Before
<1>4. Fresh(j)' <=> Fresh(j)
  BY <1>2, <1>3 DEF Fresh
<1>5. Readable' <=> Readable
  BY <1>1 DEF Readable
<1>6. Landed(j)' <=> Landed(j)
  BY <1>1, <1>3 DEF Landed, Entry
<1> QED
  BY <1>1, <1>2, <1>4, <1>5, <1>6 DEF CacheInv

\* A stamp taken before the file changed proves nothing, and is not taken to.
LEMMA Behind ==
  ASSUME TypeOK, NEW j \in Instance, CacheInv(j), version' = version + 1,
         stamp'[j] = stamp[j], pc'[j] \in {"idle", "check", "down"}
  PROVE  CacheInv(j)'
<1>1. stamp[j] \in Nat /\ version \in Nat /\ stamp[j] <= version
  BY DEF CacheInv, TypeOK
<1> QED
  BY <1>1 DEF CacheInv

\* The file as the steps that leave it alone leave it.
LEMMA FileStays ==
  ASSUME FileInv, UNCHANGED disk, told' = told
  PROVE  FileInv'
<1>1. file' = file /\ blanks' = blanks /\ ended' = ended
  BY DEF disk
<1>2. Verifies(file)' <=> Verifies(file)
  BY <1>1 DEF Verifies, Breaks, Links, Before
<1>3. Repairable' <=> Repairable
  BY <1>1 DEF Repairable, Trailing, Verifies, Breaks, Links, Before
<1>4. \A h : OnFile(h)' <=> OnFile(h)
  BY <1>1 DEF OnFile
<1> QED
  BY <1>1, <1>2, <1>3, <1>4 DEF FileInv, Sound

\* A readable file with a sound chain verifies: its last line is not cut off.
LEMMA ReadableVerifies == TypeOK /\ Sound /\ Readable => Verifies(file)
<1> SUFFICES ASSUME TypeOK, Repairable, Readable PROVE FALSE
  BY DEF Sound
<1>1. file # <<>> /\ file \in Seq(LineType)
  BY DEF TypeOK, Repairable
<1>2. Len(file) \in DOMAIN file
  BY <1>1, FrontOf
<1> QED
  BY <1>2 DEF Repairable, Readable

\* An instance about to write finds its entry appended, never glued, and no
\* blank line comes of it.
LEMMA EntryLinks ==
  ASSUME TypeOK, NEW i \in Instance, Fresh(i)
  PROVE  /\ \A line : Joined(i, line) = Append(file, line)
         /\ Spaced(i) = blanks
         /\ Entry(i).form = "entry" /\ Entry(i).prev = Tip
         /\ Entry(i).hash = Append(Tip, Entry(i).body)
<1>1. newline[i] <=> ~ended
  BY DEF Fresh, Knows
<1>2. \A line : Joined(i, line) = Append(file, line)
  BY <1>1, Zenon DEF Joined
<1>3. prev[i] = Tip
  BY DEF Fresh, Knows
<1>4. Spaced(i) = blanks
  BY <1>1, Zenon DEF Spaced
<1> QED
  BY <1>2, <1>3, <1>4 DEF Entry, NewLine

\* Whatever a cut-off write leaves, the chain stays sound and loses nothing.
LEMMA PartWrittenKeeps ==
  ASSUME TypeOK, NEW i \in Instance, Fresh(i), FileInv, told' = told, PartWritten(i)
  PROVE  /\ FileInv'
         /\ UNCHANGED disk \/ version' = version + 1
<1>1. CASE UNCHANGED disk
  BY <1>1, FileStays
<1>2. ASSUME NEW nl \in BOOLEAN, Becomes(file, Spaced(i), nl) PROVE FileInv' /\ version' = version + 1
  <2>1. file' = file /\ version' = version + 1 /\ blanks' = {}
    BY <1>2, EntryLinks DEF Becomes, FileInv
  <2>2. Verifies(file)'
    BY <2>1 DEF Fresh, Verifies, Breaks, Links, Before
  <2>3. \A h : OnFile(h)' <=> OnFile(h)
    BY <2>1 DEF OnFile
  <2> QED
    BY <2>1, <2>2, <2>3 DEF FileInv, Sound
<1>3. ASSUME NEW line \in LineType, NEW nl \in BOOLEAN, Becomes(Joined(i, line), Spaced(i), nl),
             \/ line.form = "entry" /\ line.prev = Tip /\ line.hash = Append(Tip, line.body)
             \/ line.form = "torn" /\ ~nl
      PROVE  FileInv' /\ version' = version + 1
  <2>1. file' = Append(file, line) /\ version' = version + 1 /\ blanks' = {}
    BY <1>3, EntryLinks DEF Becomes, FileInv
  <2>2. ended' <=> nl
    BY <1>3, Zenon DEF Becomes
  <2>3. \/ line.form = "entry" /\ line.prev = Tip /\ line.hash = Append(Tip, line.body)
        \/ line.form = "torn" /\ ~ended' /\ blanks' = {}
    BY <1>3, <2>1, <2>2, Zenon
  <2>4. Verifies(file)
    BY DEF Fresh
  <2>5. Sound' /\ \A h : OnFile(h) => OnFile(h)'
    BY <2>1, <2>3, <2>4, AppendKeeps
  <2> QED
    BY <2>1, <2>5 DEF FileInv
<1>4. Torn \in LineType /\ Torn.form = "torn" /\ Entry(i) \in LineType
  BY LineFacts, EntryType DEF Torn
<1>5. newline[i] /\ Becomes(file, Spaced(i), TRUE) => FileInv' /\ version' = version + 1
  BY <1>2
<1>6. Becomes(Joined(i, Torn), Spaced(i), FALSE) => FileInv' /\ version' = version + 1
  BY <1>3, <1>4
<1>7. (\E nl \in BOOLEAN : Becomes(Joined(i, Entry(i)), Spaced(i), nl)) => FileInv' /\ version' = version + 1
  BY <1>3, <1>4, EntryLinks
<1> QED
  BY <1>1, <1>5, <1>6, <1>7, Zenon DEF PartWritten

\* An empty file verifies, and nobody believes otherwise.
LEMMA InitChain == Init => IInv
<1> SUFFICES ASSUME Init PROVE IInv
  OBVIOUS
<1>1. file = <<>> /\ blanks = {} /\ told = {} /\ version = 0
  BY DEF Init
<1>2. Verifies(file)
  BY <1>1 DEF Verifies, Breaks
<1>3. FileInv
  BY <1>1, <1>2 DEF FileInv, Sound
<1>4. ASSUME NEW i \in Instance PROVE CacheInv(i)
  BY <1>4 DEF Init, CacheInv
<1> QED
  BY <1>3, <1>4 DEF IInv

\* While an instance is inside, the others are not.
LEMMA OthersIdle ==
  ASSUME TypeOK, Solo, NEW i \in Instance, pc[i] \in Inside, NEW j \in Instance, j # i
  PROVE  pc[j] \in {"idle", "down"}
  BY DEF TypeOK, Solo

\* An instance's step keeps what the file and every cache are worth.
LEMMA InstanceChain ==
  ASSUME Base, NEW i \in Instance, InstanceStep(i),
         FileInv, \A j \in Instance : CacheInv(j)
  PROVE  FileInv' /\ \A j \in Instance : CacheInv(j)'
<1> USE DEF disk, turns, cached, repair, counts, Base
<1>0. /\ pc \in [Instance -> Inside \cup {"down", "idle"}] /\ prev \in [Instance -> Seq(Body)]
      /\ stamp \in [Instance -> Nat] /\ newline \in [Instance -> BOOLEAN]
      /\ version \in Nat /\ ended \in BOOLEAN /\ CacheInv(i)
  BY DEF TypeOK
<1>1. CASE Open(i)
  <2>1. FileInv'
    BY <1>1, FileStays DEF Open
  <2>2. \A j \in Instance \ {i} : CacheInv(j)'
    BY <1>0, <1>1, Untouched DEF Open
  <2>3. prev'[i] = Tip /\ newline'[i] = ~ended /\ pc'[i] = "opened" /\ Readable
        /\ UNCHANGED <<file, blanks, ended, version, stamp>>
    BY <1>0, <1>1 DEF Open
  <2>4. Knows(i)'
    BY <2>3 DEF Knows, Tip
  <2>5. Readable'
    BY <2>3 DEF Readable
  <2>6. CacheInv(i)'
    BY <1>0, <2>3, <2>4, <2>5 DEF CacheInv
  <2> QED
    BY <2>1, <2>2, <2>6
<1>2. CASE Opened(i)
  <2>1. FileInv'
    BY <1>2, FileStays DEF Opened
  <2>2. \A j \in Instance \ {i} : CacheInv(j)'
    BY <1>0, <1>2, Untouched DEF Opened
  <2>3. UNCHANGED <<file, blanks, ended, version, prev, newline>> /\ pc[i] = "opened"
        /\ pc'[i] = "idle" /\ stamp'[i] = version
    BY <1>0, <1>2 DEF Opened
  <2>4. Knows(i)'
    BY <1>0, <2>3 DEF CacheInv, Knows, Tip
  <2>5. Verifies(file)
    BY <1>0, <2>3, ReadableVerifies DEF CacheInv, FileInv
  <2>6. Verifies(file)'
    BY <2>3, <2>5 DEF Verifies, Breaks, Links, Before
  <2>7. Fresh(i)'
    BY <2>4, <2>6 DEF Fresh
  <2>8. CacheInv(i)'
    BY <1>0, <2>3, <2>7 DEF CacheInv
  <2> QED
    BY <2>1, <2>2, <2>8
<1>3. CASE EnsureIntact(i)
  <2>1. FileInv'
    BY <1>3, FileStays DEF EnsureIntact
  <2>2. \A j \in Instance \ {i} : CacheInv(j)'
    BY <1>0, <1>3, Untouched DEF EnsureIntact, Resync
  <2>3. ASSUME UNCHANGED cached PROVE CacheInv(i)'
    BY <1>3, <2>3, <1>0, Untouched DEF EnsureIntact
  <2>4. ASSUME Accepts(i), Resync(i), stamp' = [stamp EXCEPT ![i] = version]
        PROVE  CacheInv(i)'
    <3>1. prev'[i] = Tip /\ newline'[i] = ~ended /\ stamp'[i] = version /\ pc'[i] = "idle"
          /\ UNCHANGED <<file, blanks, ended, version>> /\ Verifies(file)
      BY <1>0, <1>3, <2>4 DEF EnsureIntact, Resync, Accepts
    <3>2. Knows(i)'
      BY <3>1 DEF Knows, Tip
    <3>3. Verifies(file)'
      BY <3>1 DEF Verifies, Breaks, Links, Before
    <3>4. Fresh(i)'
      BY <3>2, <3>3 DEF Fresh
    <3> QED
      BY <1>0, <3>1, <3>4 DEF CacheInv
  <2>5. CacheInv(i)'
    BY <1>3, <2>3, <2>4, Zenon DEF EnsureIntact
  <2> QED
    BY <2>1, <2>2, <2>5
<1>4. CASE Ask(i) \/ Refuse(i) \/ Anchor(i)
  <2>1. FileInv'
    BY <1>4, FileStays DEF Ask, Refuse, Anchor
  <2>2. ASSUME NEW j \in Instance PROVE CacheInv(j)'
    <3>1. pc'[j] = pc[j] \/ (pc[j] \in {"idle", "check"} /\ pc'[j] \in {"idle", "check"})
      BY <1>0, <1>4 DEF Ask, Refuse, Anchor
    <3>2. UNCHANGED disk /\ prev'[j] = prev[j] /\ stamp'[j] = stamp[j] /\ newline'[j] = newline[j]
      BY <1>4 DEF Ask, Refuse, Anchor
    <3> QED
      BY <3>1, <3>2, Untouched
  <2> QED
    BY <2>1, <2>2
<1>5. CASE Check(i)
  <2>1. FileInv'
    BY <1>5, FileStays DEF Check
  <2>2. \A j \in Instance \ {i} : CacheInv(j)'
    BY <1>0, <1>5, Untouched DEF Check, Resync
  <2>3. pc[i] = "check" /\ pc'[i] = "write" /\ UNCHANGED <<file, blanks, ended, version, stamp>>
    BY <1>0, <1>5 DEF Check
  <2>4. ASSUME stamp[i] = version, UNCHANGED <<prev, newline>>
        PROVE  Knows(i)' /\ Verifies(file)
    <3>1. Fresh(i)
      BY <1>0, <2>3, <2>4 DEF CacheInv
    <3>2. Knows(i)'
      BY <2>3, <2>4, <3>1 DEF Fresh, Knows, Tip
    <3> QED
      BY <3>1, <3>2 DEF Fresh
  <2>5. ASSUME Accepts(i), Resync(i) PROVE Knows(i)' /\ Verifies(file)
    <3>1. Verifies(file)
      BY <2>5 DEF Accepts
    <3>2. Knows(i)'
      BY <1>0, <2>3, <2>5 DEF Resync, Knows, Tip
    <3> QED
      BY <3>1, <3>2
  <2>6. Knows(i)' /\ Verifies(file)
    BY <1>5, <2>4, <2>5, Zenon DEF Check
  <2>7. Verifies(file)'
    BY <2>3, <2>6 DEF Verifies, Breaks, Links, Before
  <2>8. Fresh(i)'
    BY <2>6, <2>7 DEF Fresh
  <2>9. CacheInv(i)'
    BY <1>0, <2>3, <2>8 DEF CacheInv
  <2> QED
    BY <2>1, <2>2, <2>9
<1>6. CASE WriteLine(i)
  <2>1. pc[i] = "write" /\ pc'[i] = "written" /\ UNCHANGED <<prev, newline, stamp, told>>
        /\ \A j \in Instance \ {i} : pc'[j] = pc[j]
    BY <1>0, <1>6 DEF WriteLine
  <2>2. Fresh(i)
    BY <1>0, <2>1 DEF CacheInv
  <2>3. /\ Entry(i) \in LineType /\ file' = Append(file, Entry(i)) /\ ended' /\ version' = version + 1
        /\ blanks' = {}
    BY <1>6, <2>2, EntryLinks, EntryType DEF WriteLine, Becomes, FileInv
  <2>4. Sound' /\ Verifies(file)' /\ \A h : OnFile(h) => OnFile(h)'
    BY <2>2, <2>3, EntryLinks, AppendKeeps DEF Fresh
  <2>5. FileInv'
    BY <2>1, <2>3, <2>4 DEF FileInv
  <2>6. \A j \in Instance \ {i} : CacheInv(j)'
    BY <2>1, <2>3, OthersIdle, Behind DEF Inside
  <2>7. file' # <<>> /\ file'[Len(file')] = Entry(i)
    <3>1. file \in Seq(LineType)
      BY DEF TypeOK
    <3> QED
      BY <2>3, <3>1, Appended
  <2>8. Entry(i)' = Entry(i)
    BY <2>1 DEF Entry, NewLine
  <2>9. Landed(i)'
    BY <2>3, <2>4, <2>7, <2>8 DEF Landed
  <2>10. stamp'[i] <= version'
    BY <1>0, <2>1, <2>3 DEF CacheInv
  <2>11. CacheInv(i)'
    BY <2>1, <2>9, <2>10 DEF CacheInv
  <2> QED
    BY <2>5, <2>6, <2>11
<1>7. CASE WriteRaises(i)
  <2>1. pc[i] = "write" /\ pc'[i] = "idle" /\ UNCHANGED <<prev, newline, stamp, told>>
        /\ \A j \in Instance \ {i} : pc'[j] = pc[j]
    BY <1>0, <1>7 DEF WriteRaises
  <2>2. Fresh(i)
    BY <1>0, <2>1 DEF CacheInv
  <2>3. FileInv' /\ (UNCHANGED disk \/ version' = version + 1)
    BY <1>7, <2>1, <2>2, PartWrittenKeeps DEF WriteRaises
  <2>4. \A j \in Instance \ {i} : pc[j] \in {"idle", "down"}
    BY <2>1, OthersIdle DEF Inside
  <2>5. ASSUME UNCHANGED disk PROVE \A j \in Instance : CacheInv(j)'
    <3>1. \A j \in Instance : pc'[j] = pc[j] \/ (pc[j] = "write" /\ pc'[j] = "idle")
      BY <2>1
    <3> QED
      BY <2>1, <2>5, <3>1, Untouched
  <2>6. ASSUME version' = version + 1 PROVE \A j \in Instance : CacheInv(j)'
    <3>1. \A j \in Instance : pc'[j] \in {"idle", "check", "down"}
      BY <2>1, <2>4
    <3> QED
      BY <2>1, <2>6, <3>1, Behind
  <2> QED
    BY <2>3, <2>5, <2>6
<1>8. CASE Written(i)
  <2>1. UNCHANGED <<file, blanks, ended, version>> /\ pc[i] = "written" /\ pc'[i] = "idle"
        /\ stamp'[i] = version /\ newline'[i] = FALSE /\ prev'[i] = Append(prev[i], i)
        /\ told' = told \cup {prev'[i]}
    BY <1>0, <1>8 DEF Written
  <2>2. Landed(i)
    BY <1>0, <2>1 DEF CacheInv
  <2>3. prev'[i] = Entry(i).hash /\ Entry(i).form = "entry"
    BY <2>1 DEF Entry, NewLine
  <2>4. prev'[i] = Tip /\ Len(file) \in DOMAIN file
    <3>1. file # <<>> /\ file \in Seq(LineType)
      BY <2>2 DEF Landed, TypeOK
    <3> QED
      BY <2>2, <2>3, <3>1, FrontOf DEF Landed, Tip
  <2>5. OnFile(prev'[i])
    BY <2>2, <2>3, <2>4 DEF Landed, OnFile
  <2>6. FileInv'
    <3>1. Sound'
      BY <2>1, <2>2 DEF Landed, Sound, Verifies, Breaks, Links, Before
    <3>2. \A h : OnFile(h) => OnFile(h)'
      BY <2>1 DEF OnFile
    <3>3. \A h \in told' : OnFile(h)
      BY <2>1, <2>5 DEF FileInv
    <3> QED
      BY <2>1, <3>1, <3>2, <3>3 DEF FileInv
  <2>7. Knows(i)'
    <3>1. prev'[i] = Tip'
      BY <2>1, <2>4 DEF Tip
    <3>2. newline'[i] = ~ended'
      BY <2>1, <2>2 DEF Landed
    <3> QED
      BY <3>1, <3>2 DEF Knows
  <2>8. Verifies(file)'
    BY <2>1, <2>2 DEF Landed, Verifies, Breaks, Links, Before
  <2>9. Fresh(i)'
    BY <2>7, <2>8 DEF Fresh
  <2>10. CacheInv(i)'
    BY <1>0, <2>1, <2>9 DEF CacheInv
  <2>11. \A j \in Instance \ {i} : CacheInv(j)'
    BY <1>0, <1>8, Untouched DEF Written
  <2> QED
    BY <2>6, <2>10, <2>11
<1> QED
  BY <1>1, <1>2, <1>3, <1>4, <1>5, <1>6, <1>7, <1>8, Zenon DEF InstanceStep

\* The repair takes the cut-off line off the end and chains its record to the
\* entry before it: what is left verifies, edited before or not.
LEMMA RepairSound ==
  ASSUME Base, NEW p \in Process, RepairSwap(p)
  PROVE  /\ Verifies(file)' /\ Front(file') = Front(file)
         /\ Len(file') = Len(file) /\ Len(file) \in Nat \ {0}
         /\ DOMAIN file = 1 .. Len(file) /\ DOMAIN file' = 1 .. Len(file)
         /\ file[Len(file)].form = "torn"
         /\ \A k \in 1 .. Len(file) - 1 : file'[k] = file[k]
<1> DEFINE line == NewLine("repair", Before(file, Len(file)))
           kept == Front(file)
<1>1. mending = p /\ mending # "none" /\ file \in Seq(LineType)
  BY ActorsAssumption DEF RepairSwap, Base, TypeOK
<1>2. Repairable
  BY <1>1 DEF Base, Solo
<1>3. /\ file # <<>> /\ file[Len(file)].form = "torn" /\ Verifies(kept)
  BY <1>2 DEF Repairable
<1>4. file' = Append(kept, line)
  BY DEF RepairSwap, Becomes
<1>5. line \in LineType
  BY <1>3, BeforeType, LineFacts DEF Base, Body
<1>6. /\ kept \in Seq(LineType) /\ Len(file) \in Nat \ {0} /\ Len(kept) = Len(file) - 1
      /\ \A k \in 1 .. Len(file) - 1 : kept[k] = file[k]
      /\ DOMAIN kept = 1 .. Len(file) - 1 /\ DOMAIN file = 1 .. Len(file)
  BY <1>1, <1>3, FrontOf
<1>7. line.form = "entry" /\ line.prev = Before(file, Len(file))
      /\ line.hash = Append(line.prev, line.body)
  BY DEF NewLine
<1>8. line.prev = IF kept = <<>> THEN GENESIS ELSE kept[Len(kept)].hash
  <2> HIDE DEF line, kept
  <2>1. kept = <<>> <=> Len(file) = 1
    BY <1>6
  <2>2. Len(file) # 1 => Len(file) - 1 \in 1 .. Len(file) - 1
    BY <1>6
  <2> QED
    BY <1>6, <1>7, <2>1, <2>2 DEF Before
<1> HIDE DEF line, kept
<1>9. Verifies(Append(kept, line))
  BY <1>3, <1>5, <1>6, <1>7, <1>8, Extends
<1>10. Verifies(file)'
  BY <1>4, <1>9 DEF Verifies, Breaks, Links, Before
<1>11. /\ Append(kept, line) \in Seq(LineType) /\ Len(Append(kept, line)) = Len(file)
       /\ DOMAIN Append(kept, line) = 1 .. Len(file)
       /\ \A k \in 1 .. Len(file) - 1 : Append(kept, line)[k] = kept[k]
  <2>1. Len(kept) + 1 = Len(file)
    BY <1>6
  <2> QED
    BY <1>5, <1>6, <2>1, Appended
<1>12. Front(file') = kept
  <2>1. file' \in Seq(LineType) /\ Len(file') = Len(file) /\ file' # <<>>
    BY <1>4, <1>6, <1>11
  <2>2. /\ Front(file') \in Seq(LineType) /\ Len(Front(file')) = Len(kept)
        /\ \A k \in 1 .. Len(kept) : Front(file')[k] = file'[k]
    BY <1>6, <2>1, FrontOf
  <2>3. \A k \in 1 .. Len(kept) : Front(file')[k] = kept[k]
    BY <1>4, <1>6, <1>11, <2>2
  <2> QED
    BY <1>6, <2>2, <2>3
<1> QED
  BY <1>3, <1>4, <1>6, <1>10, <1>11, <1>12 DEF kept

\* It keeps every entry, and every cache is worth what it was.
LEMMA RepairKeeps ==
  ASSUME Base, NEW p \in Process, RepairSwap(p), FileInv, \A j \in Instance : CacheInv(j)
  PROVE  FileInv' /\ \A j \in Instance : CacheInv(j)'
<1>1. mending = p /\ mending # "none"
  BY ActorsAssumption DEF RepairSwap
<1>2. \A j \in Instance : pc[j] \notin Inside
  BY <1>1 DEF Base, Solo
<1>3. blanks' = blanks /\ version' = version + 1 /\ UNCHANGED <<pc, stamp, told>>
  BY DEF RepairSwap, Becomes, cached
<1>4. \A h : OnFile(h) => OnFile(h)'
  <2> SUFFICES ASSUME NEW h, OnFile(h) PROVE OnFile(h)'
    OBVIOUS
  <2>1. PICK k \in DOMAIN file : file[k].form = "entry" /\ file[k].hash = h
    BY DEF OnFile
  <2>2. k \in 1 .. Len(file) - 1 /\ k \in DOMAIN file'
    BY <2>1, RepairSound
  <2>3. file'[k] = file[k]
    BY <2>2, RepairSound
  <2> QED
    BY <2>1, <2>2, <2>3 DEF OnFile
<1>5. Verifies(file)'
  BY RepairSound
<1>6. FileInv'
  BY <1>3, <1>4, <1>5 DEF FileInv, Sound
<1>7. ASSUME NEW j \in Instance PROVE CacheInv(j)'
  <2>1. pc'[j] \in {"idle", "down"}
    BY <1>2, <1>3 DEF Base, TypeOK
  <2> QED
    BY <1>3, <2>1, Behind DEF Base
<1> QED
  BY <1>6, <1>7

\* While a person mends the file, only the repair changes it.
LEMMA MendingAlone ==
  ASSUME Base, [Next]_vars, mending # "none", version' # version
  PROVE  \E p \in Process : RepairSwap(p)
<1>1. \A i \in Instance : pc[i] # "write"
  BY DEF Base, Solo, Inside
<1>2. ~Edit /\ ~UNCHANGED vars
  BY DEF Edit, vars, disk
<1>3. ASSUME NEW i \in Instance, InstanceStep(i) PROVE FALSE
  BY <1>1, <1>3 DEF InstanceStep, Open, Opened, EnsureIntact, Ask, Check, Refuse, WriteLine,
     WriteRaises, Written, Anchor, disk
<1>4. ASSUME NEW p \in Process, ProcessStep(p) PROVE RepairSwap(p)
  BY <1>1, <1>4 DEF ProcessStep, Hold, Unhold, RepairSide, RepairRaises, Crash, disk
<1> QED
  BY <1>2, <1>3, <1>4 DEF Next

\* A repair leaves a log that opens, whatever was edited before it: every line
\* before the cut was verified, and is still there (core.py:438-443, 452-458).
THEOREM RepairCorrect == Spec => RepairLeavesSound
<1>1. Base /\ [Next]_vars =>
        [mending # "none" /\ version' # version => Verifies(file') /\ Front(file') = Front(file)]_vars
  <2> SUFFICES ASSUME Base, [Next]_vars, mending # "none", version' # version
               PROVE  Verifies(file') /\ Front(file') = Front(file)
    OBVIOUS
  <2>1. PICK p \in Process : RepairSwap(p)
    BY MendingAlone
  <2>2. Verifies(file)' /\ Front(file') = Front(file)
    BY <2>1, RepairSound
  <2> QED
    BY <2>2 DEF Verifies, Breaks, Links, Before
<1> QED
  BY <1>1, InitBase, NextBase, PTL DEF Spec, RepairLeavesSound

\* So does a process's, a repair and a crash among them.
LEMMA ProcessChain ==
  ASSUME Base, NEW p \in Process, ProcessStep(p),
         FileInv, \A j \in Instance : CacheInv(j)
  PROVE  FileInv' /\ \A j \in Instance : CacheInv(j)'
<1> USE DEF cached, repair, counts
<1>1. CASE Hold(p) \/ Unhold(p) \/ RepairSide(p) \/ RepairRaises(p)
  <2>1. UNCHANGED disk /\ UNCHANGED <<pc, prev, stamp, newline, told>>
    BY <1>1 DEF Hold, Unhold, RepairSide, RepairRaises
  <2>2. FileInv'
    BY <2>1, FileStays
  <2>3. \A j \in Instance : CacheInv(j)'
    BY <2>1, Untouched
  <2> QED
    BY <2>2, <2>3
<1>2. CASE RepairSwap(p)
  BY <1>2, RepairKeeps
<1>3. CASE Crash(p)
  <2>1. UNCHANGED <<prev, stamp, newline, told>>
        /\ \A j \in Instance : pc'[j] = IF Home[j] = p THEN "down" ELSE pc[j]
    BY <1>3 DEF Crash
  <2>2. CASE UNCHANGED disk
    <3>1. FileInv'
      BY <2>1, <2>2, FileStays
    <3>2. \A j \in Instance : CacheInv(j)'
      BY <2>1, <2>2, Untouched
    <3> QED
      BY <3>1, <3>2
  <2>3. ASSUME NEW i \in Instance, Home[i] = p, pc[i] = "write", PartWritten(i)
        PROVE  FileInv' /\ \A j \in Instance : CacheInv(j)'
    <3>1. Fresh(i)
      BY <2>3 DEF CacheInv
    <3>2. FileInv' /\ (UNCHANGED disk \/ version' = version + 1)
      BY <2>1, <2>3, <3>1, PartWrittenKeeps DEF Base
    <3>3. \A j \in Instance : pc'[j] \in {"idle", "check", "down"}
      <4>1. \A j \in Instance \ {i} : pc[j] \in {"idle", "down"}
        BY <2>3, OthersIdle DEF Base, Inside
      <4> QED
        BY <2>1, <2>3, <4>1
    <3>4. ASSUME version' = version + 1 PROVE \A j \in Instance : CacheInv(j)'
      BY <2>1, <3>3, <3>4, Behind DEF Base
    <3> QED
      BY <2>2, <3>2, <3>4
  <2> QED
    BY <1>3, <2>2, <2>3, Zenon DEF Crash
<1> QED
  BY <1>1, <1>2, <1>3 DEF ProcessStep

\* Only an edit counts as one.
LEMMA EditsStay ==
  ASSUME [Next]_vars, ~Edit
  PROVE  edits' = edits
<1>1. CASE UNCHANGED vars
  BY <1>1 DEF vars, counts
<1>2. ASSUME NEW i \in Instance, InstanceStep(i) PROVE edits' = edits
  BY <1>2, Zenon DEF InstanceStep, Open, Opened, EnsureIntact, Ask, Check, Refuse, WriteLine,
              WriteRaises, Written, Anchor, counts
<1>3. ASSUME NEW p \in Process, ProcessStep(p) PROVE edits' = edits
  BY <1>3, Zenon DEF ProcessStep, Hold, Unhold, RepairSide, RepairSwap, RepairRaises, Crash, counts
<1> QED
  BY <1>1, <1>2, <1>3 DEF Next

\* Up to a state no edit has reached, no step was one.
LEMMA NoEdits ==
  ASSUME TypeOK, [Next]_vars, edits' = 0
  PROVE  ~Edit /\ edits = 0
<1>1. ~Edit
  <2>1. edits \in Nat
    BY DEF TypeOK
  <2>2. Edit => edits' = edits + 1
    BY Zenon DEF Edit
  <2> QED
    BY <2>1, <2>2
<1> QED
  BY <1>1, EditsStay

\* So every step keeps it, as long as nobody edits the file.
LEMMA NextChain == Base /\ IInv /\ [Next]_vars => IInv'
<1> SUFFICES ASSUME Base, IInv, [Next]_vars, edits' = 0
                PROVE  FileInv' /\ \A i \in Instance : CacheInv(i)'
  BY DEF IInv
<1>1. ~Edit /\ edits = 0
  BY NoEdits DEF Base
<1>3. FileInv /\ \A i \in Instance : CacheInv(i)
  BY <1>1 DEF IInv
<1>4. CASE UNCHANGED vars
  <2>1. UNCHANGED disk /\ UNCHANGED <<pc, prev, stamp, newline, told>>
    BY <1>4 DEF vars, cached
  <2>2. FileInv'
    BY <1>3, <2>1, FileStays
  <2>3. \A i \in Instance : CacheInv(i)'
    BY <1>3, <2>1, Untouched
  <2> QED
    BY <2>2, <2>3
<1>5. ASSUME NEW i \in Instance, InstanceStep(i) PROVE FileInv' /\ \A j \in Instance : CacheInv(j)'
  BY <1>3, <1>5, InstanceChain
<1>6. ASSUME NEW p \in Process, ProcessStep(p) PROVE FileInv' /\ \A j \in Instance : CacheInv(j)'
  BY <1>3, <1>6, ProcessChain
<1> QED
  BY <1>1, <1>4, <1>5, <1>6 DEF Next

\* What the repair demands is what the report calls a torn tail.
LEMMA RepairableIsTorn == TypeOK /\ Repairable => TornTail
<1> SUFFICES ASSUME TypeOK, Repairable PROVE TornTail
  OBVIOUS
<1> DEFINE kept == Front(file)
<1>1. file # <<>> /\ file \in Seq(LineType) /\ ~ended /\ file[Len(file)].form = "torn"
      /\ Verifies(kept)
  BY DEF Repairable, TypeOK
<1>2. /\ Len(file) \in Nat \ {0} /\ DOMAIN file = 1 .. Len(file)
      /\ \A k \in 1 .. Len(file) - 1 : kept[k] = file[k]
      /\ DOMAIN kept = 1 .. Len(file) - 1
  BY <1>1, FrontOf
<1> HIDE DEF kept
<1>3. ASSUME NEW k \in 1 .. Len(file) - 1 PROVE Links(file, k)
  <2>1. Links(kept, k)
    BY <1>1, <1>2 DEF Verifies, Breaks
  <2>2. k # 1 => k - 1 \in 1 .. Len(file) - 1
    BY <1>2
  <2>3. Before(kept, k) = Before(file, k)
    BY <1>2, <2>2 DEF Before
  <2> QED
    BY <1>2, <2>1, <2>3 DEF Links
<1>4. ~Links(file, Len(file))
  BY <1>1 DEF Links
<1>5. \A k \in DOMAIN file : k \in 1 .. Len(file) - 1 \/ k = Len(file)
  BY <1>2
<1>6. Len(file) \in DOMAIN file
  BY <1>2
<1>7. Breaks(file) = {Len(file)}
  BY <1>3, <1>4, <1>5, <1>6 DEF Breaks
<1> QED
  BY <1>1, <1>7 DEF TornTail

\* The two together hold of every behaviour.
LEMMA SpecChain == Spec => [](Base /\ IInv)
  BY InitBase, InitChain, NextBase, NextChain, PTL DEF Spec

\* As long as only this class writes the file, its chain verifies up to at most
\* one cut-off write, which a person can repair (core.py:152-161, 311-312).
THEOREM ChainCorrect == Spec => []ChainIntact
<1>1. Base /\ IInv => ChainIntact
  BY RepairableIsTorn DEF Base, IInv, FileInv, Sound, ChainIntact, Verifies
<1> QED
  BY <1>1, SpecChain, PTL

\* What append returned stays on the file through every crash, failed write,
\* repair and restart (core.py:578-587, 455-465).
THEOREM DurableCorrect == Spec => []ToldStands
<1>1. Base /\ IInv => ToldStands
  BY DEF Base, IInv, FileInv, OnFile, ToldStands, Hashes
<1> QED
  BY <1>1, SpecChain, PTL
----------------------------------------------------------------------------
(* What a prefix of the file tells *)

\* Whether a line links is decided by the lines up to it.
LEMMA PrefixLinks ==
  ASSUME NEW f, NEW g, NEW n \in Nat,
         1 .. n \subseteq DOMAIN f, 1 .. n \subseteq DOMAIN g,
         \A k \in 1 .. n : f[k] = g[k]
  PROVE  \A k \in 1 .. n : Links(f, k) <=> Links(g, k)
<1> SUFFICES ASSUME NEW k \in 1 .. n PROVE Links(f, k) <=> Links(g, k)
  OBVIOUS
<1>1. k # 1 => k - 1 \in 1 .. n
  OBVIOUS
<1>2. Before(f, k) = Before(g, k)
  BY <1>1 DEF Before
<1> QED
  BY <1>2 DEF Links

\* The chain up to the anchored entry, when nothing breaks before it.
LEMMA UpToBreak ==
  ASSUME TypeOK, NEW n \in Nat, n <= Len(file),
         Verifies(file) \/ \A k \in Breaks(file) : k > n
  PROVE  \A k \in 1 .. n : Links(file, k)
<1>1. Len(file) \in Nat /\ DOMAIN file = 1 .. Len(file)
  BY DEF TypeOK
<1>2. \A k \in 1 .. n : k \in DOMAIN file /\ ~(k > n)
  BY <1>1
<1> QED
  BY <1>2 DEF Verifies, Breaks

\* The break that is named is the first one.
LEMMA FirstIsFirst ==
  ASSUME TypeOK, ~Verifies(file)
  PROVE  \E k \in Breaks(file) : /\ FirstBreak = k + Cardinality({b \in blanks : b <= k})
                                 /\ \A j \in Breaks(file) : k <= j
<1>1. Len(file) \in Nat /\ DOMAIN file = 1 .. Len(file)
  BY DEF TypeOK
<1>2. Breaks(file) \in SUBSET (1 .. Len(file)) /\ Breaks(file) # {}
  BY <1>1 DEF Breaks, Verifies
<1>3. \E k \in Breaks(file) : \A j \in Breaks(file) : k <= j
  BY <1>1, <1>2, LeastOf
<1> QED
  BY <1>3 DEF FirstBreak

\* What a hash was computed from: in a chain that links, the bodies of the
\* entries up to its own.
LEMMA HashIsBodies ==
  ASSUME NEW f \in Seq(LineType), NEW n \in 1 .. Len(f), \A k \in 1 .. n : Links(f, k)
  PROVE  f[n].hash \in Seq(Body) /\ Len(f[n].hash) = n /\ \A j \in 1 .. n : f[n].hash[j] = f[j].body
<1> DEFINE Told(k) == /\ f[k].hash \in Seq(Body) /\ Len(f[k].hash) = k
                      /\ \A j \in 1 .. k : f[k].hash[j] = f[j].body
           S == {k \in 1 .. n : ~Told(k)}
<1>1. Len(f) \in Nat /\ n \in Nat /\ n <= Len(f) /\ DOMAIN f = 1 .. Len(f)
  OBVIOUS
<1>2. SUFFICES ASSUME ~Told(n) PROVE FALSE
  OBVIOUS
<1>3. n \in S
  BY <1>1, <1>2
<1>4. PICK k \in S : \A j \in S : k <= j
  <2>1. S \in SUBSET (1 .. n) /\ S # {}
    BY <1>3
  <2> HIDE DEF S
  <2> QED
    BY <1>1, <2>1, LeastOf
<1>5. k \in 1 .. n /\ ~Told(k) /\ k \in Nat /\ k \in DOMAIN f
  BY <1>1, <1>4
<1>6. f[k].prev = Before(f, k) /\ f[k].hash = Append(f[k].prev, f[k].body) /\ f[k].body \in Body
  <2>1. f[k] \in LineType
    BY <1>5
  <2>2. f[k].body \in Body
    BY <2>1 DEF LineType
  <2> QED
    BY <1>5, <2>2 DEF Links
<1>7. CASE k = 1
  <2>1. f[k].prev = <<>>
    BY <1>6, <1>7 DEF Before, GENESIS
  <2>2. f[k].hash = Append(<<>>, f[k].body) /\ <<>> \in Seq(Body) /\ Len(<<>>) = 0
    BY <1>6, <2>1
  <2>3. f[k].hash \in Seq(Body) /\ Len(f[k].hash) = 1 /\ f[k].hash[1] = f[k].body
    BY <1>6, <2>2, Appended
  <2> QED
    BY <1>5, <1>7, <2>3
<1>8. CASE k # 1
  <2> DEFINE p == f[k - 1].hash
  <2>1. k - 1 \in 1 .. n /\ ~(k <= k - 1)
    BY <1>1, <1>5, <1>8
  <2>2. Told(k - 1)
    BY <1>4, <2>1
  <2>3. f[k].hash = Append(p, f[k].body)
    BY <1>6, <1>8 DEF Before
  <2>4. p \in Seq(Body) /\ Len(p) = k - 1 /\ \A j \in 1 .. k - 1 : p[j] = f[j].body
    BY <2>2
  <2> HIDE DEF p
  <2>5. f[k].hash \in Seq(Body) /\ Len(f[k].hash) = k /\ f[k].hash[k] = f[k].body
        /\ \A j \in 1 .. k - 1 : f[k].hash[j] = p[j]
    BY <1>5, <1>6, <2>3, <2>4, Appended
  <2>6. \A j \in 1 .. k : j = k \/ j \in 1 .. k - 1
    BY <1>5
  <2> QED
    BY <1>5, <2>4, <2>5, <2>6
<1> QED
  BY <1>7, <1>8

----------------------------------------------------------------------------
(* Anchors *)

\* An anchor that verifies has a chain that links up to its entry.
LEMMA AnchorLinks ==
  ASSUME TypeOK, NEW a \in AnchorType, AnchorHolds(a), a.entries # 0, blanks \cap 1 .. a.entries = {}
  PROVE  /\ \A k \in 1 .. a.entries : Links(file, k)
         /\ a.entries \in 1 .. Len(file) /\ file[a.entries].hash = a.head
<1>1. /\ Verifies(file) \/ FirstBreak > a.entries
      /\ Len(file) >= a.entries /\ file[a.entries].hash = a.head
  BY DEF AnchorHolds
<1>2. a.entries \in Nat /\ file \in Seq(LineType) /\ Len(file) \in Nat /\ DOMAIN file = 1 .. Len(file)
  BY DEF AnchorType, TypeOK
<1>3. Verifies(file) \/ \A k \in Breaks(file) : k > a.entries
  <2> SUFFICES ASSUME ~Verifies(file) PROVE \A k \in Breaks(file) : k > a.entries
    OBVIOUS
  <2>1. PICK k \in Breaks(file) : /\ FirstBreak = k + Cardinality({b \in blanks : b <= k})
                                  /\ \A j \in Breaks(file) : k <= j
    BY FirstIsFirst
  <2>2. \A j \in Breaks(file) : j \in Nat
    BY <1>2 DEF Breaks
  <2>3. k > a.entries
    <3> SUFFICES ASSUME ~(k > a.entries) PROVE FALSE
      OBVIOUS
    <3>1. \A b \in blanks : b <= k => b \in 1 .. a.entries
      BY <1>2, <2>2 DEF TypeOK
    <3>2. {b \in blanks : b <= k} = {}
      BY <3>1
    <3>3. FirstBreak = k
      BY <2>1, <2>2, <3>2, FS_EmptySet
    <3> QED
      BY <1>1, <1>2, <2>1, <2>2, <3>3 DEF Verifies
  <2> QED
    BY <1>2, <2>1, <2>2, <2>3
<1>4. \A k \in 1 .. a.entries : Links(file, k)
  BY <1>1, <1>2, <1>3, UpToBreak
<1> QED
  BY <1>1, <1>2, <1>4

\* An anchor that verifies vouches for every entry up to it, whatever edited
\* the file since (core.py:608-609), if no blank line stands among them: with one
\* the line of the break and the number of the entry are not counted alike.
THEOREM AnchorCorrect == Spec => []AnchorCatches
<1>1. ASSUME TypeOK PROVE AnchorCatches
  <2> SUFFICES ASSUME NEW a \in anchors, AnchorHolds(a), blanks \cap 1 .. a.entries = {}
               PROVE  [k \in 1 .. a.entries |-> file[k].body] = a.head
    BY DEF AnchorCatches
  <2>1. a \in AnchorType /\ a.entries \in Nat /\ a.head \in Seq(Body)
    BY <1>1 DEF TypeOK, AnchorType
  <2>2. CASE a.entries = 0
    <3>1. a.head = <<>>
      BY <2>2 DEF AnchorHolds, GENESIS
    <3>2. 1 .. a.entries = {}
      BY <2>2
    <3> QED
      BY <3>1, <3>2
  <2>3. CASE a.entries # 0
    <3>1. /\ \A k \in 1 .. a.entries : Links(file, k)
          /\ a.entries \in 1 .. Len(file) /\ file[a.entries].hash = a.head
      BY <1>1, <2>1, <2>3, AnchorLinks
    <3>2. Len(a.head) = a.entries /\ \A j \in 1 .. a.entries : a.head[j] = file[j].body
      BY <1>1, <3>1, HashIsBodies DEF TypeOK
    <3> QED
      BY <2>1, <3>2
  <2> QED
    BY <2>2, <2>3
<1> QED
  BY <1>1, TypeCorrect, PTL

\* A log is said to be rewritten past its anchor (core.py:638-639) only when
\* what the anchor was taken from is no longer there.
THEOREM AccusationCorrect == Spec => []AnchorAccusesTruly
<1>1. ASSUME TypeOK PROVE AnchorAccusesTruly
  <2> SUFFICES ASSUME NEW a \in anchors, Verifies(a.was), Before(a.was, a.entries + 1) = a.head,
                      Len(file) >= a.entries, SubSeq(file, 1, a.entries) = a.was
               PROVE  AnchorHolds(a)
    BY DEF AnchorAccusesTruly
  <2> DEFINE n == a.entries
             was == a.was
  <2>1. n \in Nat /\ file \in Seq(LineType) /\ Len(file) \in Nat /\ DOMAIN file = 1 .. Len(file)
    BY <1>1 DEF TypeOK, AnchorType
  <2>2. \A k \in 1 .. n : k \in DOMAIN file /\ file[k] \in LineType
    BY <2>1
  <2>3. DOMAIN was = 1 .. n /\ \A k \in 1 .. n : was[k] = file[k]
    <3>1. Len(SubSeq(file, 1, n)) = n /\ DOMAIN SubSeq(file, 1, n) = 1 .. n
          /\ \A k \in 1 .. n : SubSeq(file, 1, n)[k] = file[k]
      BY <2>1
    <3> QED
      BY <3>1
  <2>4. \A k \in 1 .. n : Links(was, k)
    BY <2>3 DEF Verifies, Breaks
  <2>5. \A k \in 1 .. n : Links(file, k)
    BY <2>1, <2>2, <2>3, <2>4, PrefixLinks
  <2>6. CASE n = 0
    BY <2>6 DEF AnchorHolds, Before
  <2>7. CASE n # 0
    <3>1. n \in 1 .. n /\ n + 1 # 1 /\ n + 1 - 1 = n
      BY <2>1, <2>7
    <3>2. file[n].form = "entry" /\ file[n].hash = a.head
      BY <2>3, <2>5, <3>1 DEF Links, Before
    <3>3. Verifies(file) \/ FirstBreak > n
      <4> SUFFICES ASSUME ~Verifies(file) PROVE FirstBreak > n
        OBVIOUS
      <4>1. PICK k \in Breaks(file) : FirstBreak = k + Cardinality({b \in blanks : b <= k})
        BY <1>1, FirstIsFirst
      <4>2. k \in Nat /\ k \notin 1 .. n /\ k # 0
        BY <2>1, <2>5 DEF Breaks
      <4>3. Cardinality({b \in blanks : b <= k}) \in Nat
        <5>1. IsFiniteSet(1 .. k)
          BY <4>2, FS_Interval
        <5>2. {b \in blanks : b <= k} \subseteq 1 .. k
          <6>1. blanks \subseteq Nat \ {0}
            BY <1>1 DEF TypeOK
          <6>2. ASSUME NEW b \in blanks, b <= k PROVE b \in 1 .. k
            <7>1. b \in Nat /\ b # 0
              BY <6>1
            <7> QED
              BY <4>2, <6>2, <7>1
          <6> QED
            BY <6>2
        <5> QED
          BY <5>1, <5>2, FS_Subset, FS_CardinalityType
      <4>4. ASSUME NEW c \in Nat PROVE k + c > n
        BY <2>1, <4>2
      <4> QED
        BY <4>1, <4>3, <4>4
    <3> QED
      BY <2>7, <3>2, <3>3 DEF AnchorHolds
  <2> QED
    BY <2>6, <2>7
<1> QED
  BY <1>1, TypeCorrect, PTL

----------------------------------------------------------------------------
(* How the file moves while nobody edits it *)

Calm == Base /\ FileInv /\ \A j \in Instance : CacheInv(j)

\* Instance i is writing behind a chain that verifies, and nobody mends.
Writing(i) == pc[i] = "write" /\ Fresh(i) /\ mending = "none" /\ lock = Home[i]

Writes(i) == \/ file' = Append(file, Entry(i))
             \/ file' = Append(file, Torn) /\ ~ended' /\ blanks' = blanks

\* What a write that stops part-way does to the lines.
LEMMA PartWrites ==
  ASSUME TypeOK, NEW i \in Instance, Fresh(i), PartWritten(i)
  PROVE  file' = file \/ Writes(i)
<1>1. (\A line : Joined(i, line) = Append(file, line)) /\ Spaced(i) = blanks
  BY EntryLinks
<1>2. UNCHANGED disk => file' = file
  BY DEF disk
<1>3. Becomes(file, Spaced(i), TRUE) => file' = file
  BY DEF Becomes
<1>4. Becomes(Joined(i, Torn), Spaced(i), FALSE) => file' = Append(file, Torn) /\ ~ended' /\ blanks' = blanks
  BY <1>1, Zenon DEF Becomes
<1>5. (\E nl \in BOOLEAN : Becomes(Joined(i, Entry(i)), Spaced(i), nl)) => file' = Append(file, Entry(i))
  BY <1>1, Zenon DEF Becomes
<1> QED
  BY <1>2, <1>3, <1>4, <1>5, Zenon DEF PartWritten, Writes

\* Who is at its write is alone.
LEMMA WritesAlone ==
  ASSUME Calm, NEW i \in Instance, pc[i] = "write"
  PROVE  Writing(i)
<1>1. Fresh(i)
  BY DEF Calm, CacheInv
<1>2. mending = "none" /\ lock = Home[i]
  BY DEF Calm, Base, Solo, Inside
<1> QED
  BY <1>1, <1>2 DEF Writing

\* A step leaves the lines as they are, writes one behind a chain that
\* verifies, or is the swap of a repair.
LEMMA FileMoves ==
  ASSUME Calm, [Next]_vars, ~Edit
  PROVE  \/ file' = file
         \/ \E i \in Instance : Writing(i) /\ Writes(i)
         \/ \E p \in Process : RepairSwap(p)
<1>1. CASE UNCHANGED vars
  BY <1>1, Zenon DEF vars, disk
<1>2. ASSUME NEW i \in Instance, InstanceStep(i)
      PROVE  file' = file \/ (Writing(i) /\ Writes(i))
  <2>1. CASE WriteLine(i)
    <3>1. Writing(i)
      BY <2>1, WritesAlone DEF WriteLine
    <3>2. file' = Append(file, Entry(i))
      BY <2>1, <3>1, EntryLinks, Zenon DEF WriteLine, Writing, Becomes, Calm, Base
    <3> QED
      BY <3>1, <3>2 DEF Writes
  <2>2. CASE WriteRaises(i)
    <3>1. Writing(i) /\ PartWritten(i)
      BY <2>2, WritesAlone DEF WriteRaises
    <3> QED
      BY <3>1, PartWrites DEF Writing, Calm, Base
  <2> QED
    BY <1>2, <2>1, <2>2, Zenon DEF InstanceStep, Open, Opened, EnsureIntact, Ask, Check, Refuse,
       Written, Anchor, disk
<1>3. ASSUME NEW p \in Process, ProcessStep(p)
      PROVE  \/ file' = file \/ RepairSwap(p)
             \/ \E i \in Instance : Writing(i) /\ Writes(i)
  <2>1. CASE Crash(p)
    <3>1. UNCHANGED disk \/ \E i \in Instance : pc[i] = "write" /\ PartWritten(i)
      BY <2>1, Zenon DEF Crash
    <3>2. ASSUME NEW i \in Instance, pc[i] = "write", PartWritten(i)
          PROVE  Writing(i) /\ (file' = file \/ Writes(i))
      BY <3>2, WritesAlone, PartWrites DEF Writing, Calm, Base
    <3> QED
      BY <3>1, <3>2, Zenon DEF disk
  <2> QED
    BY <1>3, <2>1, Zenon DEF ProcessStep, Hold, Unhold, RepairSide, RepairRaises, disk
<1> QED
  BY <1>1, <1>2, <1>3 DEF Next

\* A file whose tail a repair would take off does not verify.
LEMMA TornBreaks == TypeOK /\ Repairable => ~Verifies(file)
  BY RepairableIsTorn DEF TornTail, Verifies

----------------------------------------------------------------------------
(* The side files                                                          *)
(*                                                                         *)
(* SideKept rests on two facts of the repair that is under way: its side   *)
(* file is there before its record is, and a cut-off line is nobody's, so  *)
(* that the file a failed repair removes belongs to no record.             *)

Aside(k) == \E s \in side : s[1] = k

SideInv ==
  /\ \A k \in DOMAIN file : /\ file[k].body = "repair" => Aside(k)
                            /\ file[k].form = "torn" => file[k].body = "edited"
  /\ mending # "none" => Aside(Len(file))

SInv == edits = 0 => SideInv

\* The side files and who mends, in any step.
LEMMA SideMoves ==
  ASSUME [Next]_vars, ~Edit
  PROVE  \/ side' = side /\ (mending' = mending \/ mending' = "none")
         \/ \E p \in Process : RepairSide(p) \/ RepairRaises(p)
<1>1. ASSUME NEW i \in Instance, InstanceStep(i) PROVE side' = side /\ mending' = mending
  BY <1>1, Zenon DEF InstanceStep, Open, Opened, EnsureIntact, Ask, Check, Refuse, WriteLine,
              WriteRaises, Written, Anchor, repair
<1>2. ASSUME NEW p \in Process, ProcessStep(p)
      PROVE  \/ side' = side /\ (mending' = mending \/ mending' = "none")
             \/ RepairSide(p) \/ RepairRaises(p)
  BY <1>2, Zenon DEF ProcessStep, Hold, Unhold, RepairSwap, Crash, repair
<1>3. UNCHANGED vars => side' = side /\ mending' = mending
  BY DEF vars, repair
<1> QED
  BY <1>1, <1>2, <1>3 DEF Next

\* Every step but an edit keeps a side file behind each repair.
LEMMA NextSide == Calm /\ SideInv /\ [Next]_vars /\ ~Edit => SideInv'
<1> SUFFICES ASSUME Calm, SideInv, [Next]_vars, ~Edit PROVE SideInv'
  OBVIOUS
<1>0. /\ file \in Seq(LineType) /\ Len(file) \in Nat /\ DOMAIN file = 1 .. Len(file)
      /\ "repair" # "edited" /\ "repair" \notin Instance
      /\ side \subseteq Nat \X Nat
  BY ActorsAssumption DEF Calm, Base, TypeOK
\* The lines stay.
<1>1. CASE file' = file
  <2>1. CASE side' = side /\ (mending' = mending \/ mending' = "none")
    BY <1>1, <2>1 DEF SideInv, Aside
  <2>2. ASSUME NEW p \in Process, RepairSide(p) PROVE SideInv'
    <3> DEFINE new == <<Len(file), Copy(Len(file))>>
    <3>1. side' = side \cup {new} /\ new[1] = Len(file)
      BY <2>2 DEF RepairSide
    <3>2. \A k : Aside(k) => Aside(k)'
      BY <3>1 DEF Aside
    <3>3. Aside(Len(file))'
      BY <1>1, <3>1 DEF Aside
    <3> QED
      BY <1>1, <3>2, <3>3 DEF SideInv
  <2>3. ASSUME NEW p \in Process, RepairRaises(p) PROVE SideInv'
    <3>1. mending = p /\ mending # "none" /\ mending' = "none"
      BY <2>3, ActorsAssumption DEF RepairRaises
    <3>2. Repairable
      BY <3>1 DEF Calm, Base, Solo
    <3>3. file[Len(file)].body = "edited" /\ Len(file) \in DOMAIN file
      BY <1>0, <3>2 DEF Repairable, SideInv
    <3>4. side' = side \ {<<Len(file), Copy(Len(file)) - 1>>}
      BY <2>3 DEF RepairRaises
    <3>5. \A k : Aside(k) /\ k # Len(file) => Aside(k)'
      BY <3>4 DEF Aside
    <3> QED
      BY <1>0, <1>1, <3>1, <3>3, <3>5 DEF SideInv
  <2> QED
    BY <2>1, <2>2, <2>3, SideMoves
\* A line is written: nobody mends, and the line is an author's or nobody's.
<1>2. ASSUME NEW i \in Instance, Writing(i), Writes(i) PROVE SideInv'
  <2>1. mending = "none" /\ Verifies(file)
    BY <1>2 DEF Writing, Fresh
  <2>2. PICK line \in {Entry(i), Torn} : file' = Append(file, line)
    BY <1>2 DEF Writes
  <2>3. /\ line \in LineType /\ line.body # "repair"
        /\ line.form = "torn" => line.body = "edited"
    <3>1. Entry(i) \in LineType /\ Torn \in LineType
      BY EntryType, LineFacts DEF Calm, Base
    <3>2. Entry(i).body = i /\ Entry(i).form = "entry" /\ Torn.body = "edited"
      BY DEF Entry, NewLine, Torn
    <3> QED
      BY <1>0, <3>1, <3>2
  <2>4. /\ file' # file /\ DOMAIN file' = 1 .. Len(file) + 1 /\ file'[Len(file) + 1] = line
        /\ \A k \in 1 .. Len(file) : file'[k] = file[k]
    <3>1. /\ DOMAIN file' = 1 .. Len(file) + 1 /\ file'[Len(file) + 1] = line
          /\ \A k \in 1 .. Len(file) : file'[k] = file[k]
      BY <1>0, <2>2, <2>3, Appended
    <3>2. Len(file) + 1 \in DOMAIN file' /\ Len(file) + 1 \notin DOMAIN file
      BY <1>0, <3>1
    <3> QED
      BY <3>1, <3>2
  <2>5. side' = side /\ mending' = "none"
    <3>1. ~(\E p \in Process : RepairSide(p) \/ RepairRaises(p))
      BY <2>4, Zenon DEF RepairSide, RepairRaises, disk
    <3> QED
      BY <2>1, <3>1, SideMoves, Zenon
  <2>6. \A k \in 1 .. Len(file) + 1 : k = Len(file) + 1 \/ k \in 1 .. Len(file)
    BY <1>0
  <2> QED
    BY <1>0, <2>3, <2>4, <2>5, <2>6 DEF SideInv, Aside
\* The record of a repair takes the place of the line that was moved aside.
<1>3. ASSUME NEW p \in Process, RepairSwap(p) PROVE SideInv'
  <2> DEFINE kept == Front(file)
             line == NewLine("repair", Before(file, Len(file)))
  <2>1. mending = p /\ mending # "none" /\ mending' = "none" /\ side' = side
        /\ file' = Append(kept, line)
    BY <1>3, ActorsAssumption, Zenon DEF RepairSwap, Becomes
  <2>2. Aside(Len(file)) /\ file # <<>>
    BY <2>1 DEF SideInv, Calm, Base, Solo, Repairable
  <2>3. /\ kept \in Seq(LineType) /\ Len(file) \in Nat \ {0} /\ Len(kept) = Len(file) - 1
        /\ \A k \in 1 .. Len(file) - 1 : kept[k] = file[k]
    BY <1>0, <2>2, FrontOf
  <2>4. line \in LineType /\ line.form = "entry"
    <3>1. line \in LineType
      BY <2>2, BeforeType, LineFacts DEF Calm, Base, Body
    <3> QED
      BY <3>1 DEF NewLine
  <2> HIDE DEF kept, line
  <2>5. /\ DOMAIN file' = 1 .. Len(file) /\ file'[Len(file)] = line
        /\ \A k \in 1 .. Len(file) - 1 : file'[k] = file[k]
    <3>1. /\ DOMAIN file' = 1 .. Len(kept) + 1 /\ file'[Len(kept) + 1] = line
          /\ \A k \in 1 .. Len(kept) : file'[k] = kept[k]
      BY <2>1, <2>3, <2>4, Appended
    <3> QED
      BY <2>3, <3>1
  <2>6. \A n \in Nat : \A k \in 1 .. n : k = n \/ k \in 1 .. n - 1
    OBVIOUS
  <2> QED
    BY <1>0, <2>1, <2>2, <2>4, <2>5, <2>6 DEF SideInv, Aside
<1> QED
  BY <1>1, <1>2, <1>3, FileMoves

\* There is no repair at first.
LEMMA InitSide == Init => SInv
  BY DEF Init, SInv, SideInv

\* For every repair on the chain, the partial line it took off is in a side
\* file, whatever repairs fail or are cut off (core.py:461, 515).
THEOREM SideCorrect == Spec => []SideKept
<1>1. Base /\ IInv /\ SInv /\ [Next]_vars => SInv'
  <2> SUFFICES ASSUME Base, IInv, SInv, [Next]_vars, edits' = 0 PROVE SideInv'
    BY DEF SInv
  <2>1. ~Edit /\ edits = 0
    BY NoEdits DEF Base
  <2>2. Calm /\ SideInv
    BY <2>1 DEF Calm, IInv, SInv
  <2> QED
    BY <2>1, <2>2, NextSide
<1>2. SInv => SideKept
  BY DEF SInv, SideInv, Aside, SideKept
<1> QED
  BY <1>1, <1>2, InitSide, SpecChain, PTL DEF Spec

----------------------------------------------------------------------------
(* Check first                                                             *)
(*                                                                         *)
(* Inside holding() no other process writes.  What another instance of the *)
(* same process appends leaves the entry the checked one knows on a chain  *)
(* that verifies, and a write that is cut off ends the block.              *)

CheckInv ==
  \A i \in checked : /\ Home[i] \in holding
                     /\ pc[i] \in {"idle", "check", "write", "written"}
                     /\ Accepts(i)

CInv == edits = 0 => CheckInv

\* What is accepted stays so while the lines and what is known of them stay.
LEMMA AcceptsStays ==
  ASSUME NEW i \in Instance, Accepts(i), file' = file, prev'[i] = prev[i]
  PROVE  Accepts(i)'
  BY DEF Accepts, Verifies, Breaks, Links, Before, Hashes

\* The tip of a chain that verifies is accepted.
LEMMA TipAccepted ==
  ASSUME file \in Seq(LineType), Verifies(file), file' = file,
         NEW i \in Instance, prev'[i] = Tip
  PROVE  Accepts(i)'
<1>1. Tip # GENESIS => Tip \in Hashes(file)
  <2>1. CASE file = <<>>
    BY <2>1 DEF Tip
  <2>2. CASE file # <<>>
    <3>1. Len(file) \in DOMAIN file
      BY <2>2, FrontOf
    <3> QED
      BY <2>2, <3>1 DEF Tip, Hashes
  <2> QED
    BY <2>1, <2>2
<1>2. Verifies(file)'
  BY DEF Verifies, Breaks, Links, Before
<1>3. Hashes(file)' = Hashes(file)
  BY DEF Hashes
<1> QED
  BY <1>1, <1>2, <1>3 DEF Accepts

\* An entry written behind a chain that verifies keeps it so, and what was on
\* it where it was.
LEMMA EntryAccepts ==
  ASSUME Calm, NEW j \in Instance, Fresh(j), file' = Append(file, Entry(j)),
         NEW i \in Instance, Accepts(i), prev'[i] = prev[i]
  PROVE  Accepts(i)'
<1>1. /\ Entry(j) \in LineType /\ Entry(j).form = "entry" /\ Entry(j).prev = Tip
      /\ Entry(j).hash = Append(Tip, Entry(j).body)
  BY EntryLinks, EntryType DEF Calm, Base
<1>2. Verifies(file)'
  BY <1>1, AppendKeeps DEF Fresh, Calm, Base
<1>3. Hashes(file) \subseteq Hashes(file')
  <2>1. /\ DOMAIN file' = 1 .. Len(file) + 1 /\ DOMAIN file = 1 .. Len(file) /\ Len(file) \in Nat
        /\ \A k \in 1 .. Len(file) : file'[k] = file[k]
    BY <1>1, Appended DEF Calm, Base, TypeOK
  <2> QED
    BY <2>1 DEF Hashes
<1>4. Hashes(file)' = Hashes(file')
  BY DEF Hashes
<1> QED
  BY <1>2, <1>3, <1>4 DEF Accepts

\* While something is checked the chain verifies, so nobody mends, and who is
\* inside has the process of whatever is checked.
LEMMA CheckedAlone ==
  ASSUME Calm, CheckInv, NEW j \in checked
  PROVE  /\ j \in Instance /\ Verifies(file) /\ mending = "none" /\ lock = Home[j]
         /\ \A i \in Instance : pc[i] \in Inside => Home[i] = Home[j]
<1>1. j \in Instance /\ Verifies(file) /\ Home[j] \in holding
  BY DEF CheckInv, Accepts, Calm, Base, TypeOK
<1>2. mending = "none"
  BY <1>1, TornBreaks DEF Calm, Base, Solo
<1> QED
  BY <1>1, <1>2 DEF Calm, Base, Solo

\* An instance's step leaves the checked ones able to write.
LEMMA InstanceChecked ==
  ASSUME Calm, CheckInv, NEW i \in Instance, InstanceStep(i)
  PROVE  CheckInv'
<1> USE DEF disk, turns, cached, repair, counts
<1>0. /\ pc \in [Instance -> Inside \cup {"down", "idle"}] /\ prev \in [Instance -> Seq(Body)]
      /\ file \in Seq(LineType) /\ CacheInv(i) /\ checked \subseteq Instance
  BY DEF Calm, Base, TypeOK
<1>1. CASE Open(i) \/ Opened(i)
  <2>1. i \notin checked
    BY <1>1 DEF CheckInv, Open, Opened
  <2>2. /\ checked' = checked /\ holding' = holding /\ file' = file
        /\ \A j \in checked : pc'[j] = pc[j] /\ prev'[j] = prev[j]
    BY <1>0, <1>1, <2>1 DEF Open, Opened
  <2> QED
    BY <1>0, <2>2, AcceptsStays DEF CheckInv
<1>2. CASE EnsureIntact(i)
  <2>1. /\ pc' = pc /\ holding' = holding /\ file' = file
        /\ \A j \in Instance \ {i} : prev'[j] = prev[j]
        /\ pc[i] = "idle"
    BY <1>0, <1>2 DEF EnsureIntact, Resync
  <2>2. \A j \in checked' : j # i => j \in checked
    BY <1>2 DEF EnsureIntact
  <2>3. i \in checked' => Home[i] \in holding
    BY <1>2 DEF EnsureIntact, CheckInv
  <2>4. Verifies(file) /\ prev'[i] = Tip
    <3>1. CASE stamp[i] = version /\ UNCHANGED cached
      BY <1>0, <2>1, <3>1 DEF CacheInv, Fresh, Knows
    <3>2. CASE Accepts(i) /\ Resync(i)
      BY <1>0, <3>2 DEF Accepts, Resync
    <3> QED
      BY <1>2, <3>1, <3>2 DEF EnsureIntact
  <2>5. Accepts(i)'
    BY <1>0, <2>1, <2>4, TipAccepted
  <2>6. ASSUME NEW j \in checked', j # i
        PROVE  Home[j] \in holding' /\ pc'[j] \in {"idle", "check", "write", "written"} /\ Accepts(j)'
    <3>1. j \in checked /\ j \in Instance
      BY <1>0, <2>2, <2>6
    <3> QED
      BY <2>1, <2>6, <3>1, AcceptsStays DEF CheckInv
  <2> QED
    BY <2>1, <2>3, <2>5, <2>6 DEF CheckInv
<1>3. CASE Ask(i) \/ Refuse(i) \/ Anchor(i)
  <2>1. /\ checked' = checked /\ holding' = holding /\ file' = file /\ prev' = prev
        /\ \A j \in Instance : pc'[j] = pc[j] \/ pc'[j] \in {"idle", "check"}
    BY <1>0, <1>3 DEF Ask, Refuse, Anchor
  <2> QED
    BY <1>0, <2>1, AcceptsStays DEF CheckInv
<1>4. CASE Check(i)
  <2>1. /\ checked' = checked /\ holding' = holding /\ file' = file
        /\ \A j \in Instance \ {i} : pc'[j] = pc[j] /\ prev'[j] = prev[j]
        /\ pc[i] = "check" /\ pc'[i] = "write"
    BY <1>0, <1>4 DEF Check, Resync
  <2>2. Verifies(file) /\ prev'[i] = Tip
    <3>1. CASE stamp[i] = version /\ UNCHANGED <<prev, newline>>
      BY <1>0, <2>1, <3>1 DEF CacheInv, Fresh, Knows
    <3>2. CASE Accepts(i) /\ Resync(i)
      BY <1>0, <3>2 DEF Accepts, Resync
    <3> QED
      BY <1>4, <3>1, <3>2 DEF Check
  <2>3. Accepts(i)'
    BY <1>0, <2>1, <2>2, TipAccepted
  <2>4. \A j \in checked : j # i => Accepts(j)'
    BY <1>0, <2>1, AcceptsStays DEF CheckInv
  <2> QED
    BY <1>0, <2>1, <2>3, <2>4 DEF CheckInv
<1>5. CASE WriteLine(i)
  <2>1. /\ checked' = checked /\ holding' = holding /\ prev' = prev
        /\ \A j \in Instance \ {i} : pc'[j] = pc[j]
        /\ pc[i] = "write" /\ pc'[i] = "written"
    BY <1>0, <1>5 DEF WriteLine
  <2>2. Fresh(i)
    BY <1>0, <2>1 DEF CacheInv
  <2>3. file' = Append(file, Entry(i))
    BY <1>5, <2>2, EntryLinks DEF WriteLine, Becomes, Calm, Base
  <2>4. \A j \in checked : Accepts(j)'
    BY <1>0, <2>1, <2>2, <2>3, EntryAccepts DEF CheckInv
  <2> QED
    BY <1>0, <2>1, <2>4 DEF CheckInv
<1>6. CASE WriteRaises(i)
  <2>1. pc[i] \in Inside /\ checked' = {j \in checked : Home[j] # Home[i]}
    BY <1>6 DEF WriteRaises, Inside
  <2>2. checked' = {}
    BY <2>1, CheckedAlone
  <2> QED
    BY <2>2 DEF CheckInv
<1>7. CASE Written(i)
  <2>1. /\ checked' = checked /\ holding' = holding /\ file' = file
        /\ \A j \in Instance \ {i} : pc'[j] = pc[j] /\ prev'[j] = prev[j]
        /\ pc[i] = "written" /\ pc'[i] = "idle" /\ prev'[i] = Append(prev[i], i)
    BY <1>0, <1>7 DEF Written
  <2>2. Landed(i)
    BY <1>0, <2>1 DEF CacheInv
  <2>3. Verifies(file) /\ prev'[i] = Tip
    BY <2>1, <2>2 DEF Landed, Entry, NewLine, Tip
  <2>4. Accepts(i)'
    BY <1>0, <2>1, <2>3, TipAccepted
  <2>5. \A j \in checked : j # i => Accepts(j)'
    BY <1>0, <2>1, AcceptsStays DEF CheckInv
  <2> QED
    BY <1>0, <2>1, <2>4, <2>5 DEF CheckInv
<1> QED
  BY <1>1, <1>2, <1>3, <1>4, <1>5, <1>6, <1>7 DEF InstanceStep

\* So does a process's: leaving the block unchecks its instances.
LEMMA ProcessChecked ==
  ASSUME Calm, CheckInv, NEW p \in Process, ProcessStep(p)
  PROVE  CheckInv'
<1> USE DEF disk, turns, cached, repair, counts
<1>0. /\ pc \in [Instance -> Inside \cup {"down", "idle"}] /\ checked \subseteq Instance
      /\ p # "none"
  BY ActorsAssumption DEF Calm, Base, TypeOK
<1>1. CASE Hold(p) \/ Unhold(p) \/ RepairSide(p)
  <2>1. /\ file' = file /\ prev' = prev /\ pc' = pc /\ checked' \subseteq checked
        /\ \A j \in checked' : Home[j] \in holding => Home[j] \in holding'
    BY <1>1 DEF Hold, Unhold, RepairSide
  <2> QED
    BY <1>0, <2>1, AcceptsStays DEF CheckInv
<1>2. CASE RepairSwap(p) \/ RepairRaises(p)
  <2>1. mending = p /\ checked' = checked
    BY <1>2 DEF RepairSwap, RepairRaises
  <2>2. checked' = {}
    BY <1>0, <2>1, CheckedAlone
  <2> QED
    BY <2>2 DEF CheckInv
<1>3. CASE Crash(p)
  <2>1. /\ checked' = {j \in checked : Home[j] # p} /\ holding' = holding \ {p} /\ prev' = prev
        /\ \A j \in checked' : pc'[j] = pc[j]
    BY <1>0, <1>3 DEF Crash
  <2>2. ASSUME NEW j \in checked' PROVE file' = file
    <3>1. \A i \in Instance : ~(Home[i] = p /\ pc[i] = "write")
      BY <2>1, <2>2, CheckedAlone DEF Inside
    <3> QED
      BY <1>3, <3>1 DEF Crash
  <2> QED
    BY <1>0, <2>1, <2>2, AcceptsStays DEF CheckInv
<1> QED
  BY <1>1, <1>2, <1>3 DEF ProcessStep

\* So every step keeps it, as long as nobody edits the file.
LEMMA NextChecked == Base /\ IInv /\ CInv /\ [Next]_vars => CInv'
<1> SUFFICES ASSUME Base, IInv, CInv, [Next]_vars, edits' = 0 PROVE CheckInv'
  BY DEF CInv
<1>1. ~Edit /\ edits = 0
  BY NoEdits DEF Base
<1>2. Calm /\ CheckInv
  BY <1>1 DEF Calm, IInv, CInv
<1>3. CASE UNCHANGED vars
  BY <1>2, <1>3, AcceptsStays DEF CheckInv, vars, disk, turns, cached, Calm, Base, TypeOK
<1> QED
  BY <1>1, <1>2, <1>3, InstanceChecked, ProcessChecked DEF Next

\* Inside holding(), once ensure_intact has passed, the log will accept the
\* record of what is done in the block: "check first, so the other write never
\* happens without its record" (core.py:383-384).
THEOREM CheckedCorrect == Spec => []CheckedIsRecorded
<1>1. Init => CInv
  BY DEF Init, CInv, CheckInv
<1>2. CInv => CheckedIsRecorded
  BY DEF CInv, CheckInv, CheckedIsRecorded
<1> QED
  BY <1>1, <1>2, NextChecked, SpecChain, PTL DEF Spec

----------------------------------------------------------------------------
(* What the stamp is worth when programs without the lock edit the file    *)
(*                                                                         *)
(* Neither the chain nor the file need be sound here: an instance may have *)
(* been opened on an altered log.  As long as every edit moves the stamp   *)
(* and waits for the lock, an unmoved one still proves the cached tip and  *)
(* the entries the instance was told it wrote, which are the beginnings of *)
(* the hash it remembers.                                                  *)

Sealed == ~Racing /\ "silent" \notin Edits

\* h was computed from a beginning of what s was.
Begins(h, s) == h # <<>> /\ Len(h) <= Len(s) /\ \A k \in 1 .. Len(h) : h[k] = s[k]

Stands(h) == \E k \in DOMAIN file : file[k].hash = h /\ Links(file, k)

Own(i) == \A h \in mine[i] : Stands(h)

HistoryInv(i) ==
  /\ stamp[i] <= version
  /\ \A h \in mine[i] : Begins(h, prev[i])
  /\ pc[i] = "opened" => mine[i] = {} /\ Knows(i)
  /\ pc[i] \in {"idle", "check"} /\ stamp[i] = version => Own(i) /\ Knows(i)
  /\ pc[i] = "write" => Own(i) /\ Knows(i)
  /\ pc[i] = "written" => /\ Own(i) /\ Stands(Entry(i).hash)
                          /\ ended /\ Tip = Entry(i).hash

HInv == \A i \in Instance : HistoryInv(i)

\* On a chain that verifies and holds the hash an instance remembers, all that
\* it was told it wrote stands, and is a beginning of the tip.
LEMMA AcceptedHistory ==
  ASSUME TypeOK, NEW i \in Instance, Accepts(i), NEW h \in mine[i], Begins(h, prev[i])
  PROVE  Stands(h) /\ Begins(h, Tip)
<1>0. /\ file \in Seq(LineType) /\ Len(file) \in Nat /\ DOMAIN file = 1 .. Len(file)
      /\ h \in Seq(Body) /\ prev[i] \in Seq(Body)
  BY DEF TypeOK
<1>1. \A k \in 1 .. Len(file) : Links(file, k)
  BY <1>0 DEF Accepts, Verifies, Breaks
<1>2. \A n \in 1 .. Len(file) : /\ file[n].hash \in Seq(Body) /\ Len(file[n].hash) = n
                                /\ \A j \in 1 .. n : file[n].hash[j] = file[j].body
  <2> SUFFICES ASSUME NEW n \in 1 .. Len(file)
               PROVE  /\ file[n].hash \in Seq(Body) /\ Len(file[n].hash) = n
                      /\ \A j \in 1 .. n : file[n].hash[j] = file[j].body
    OBVIOUS
  <2>1. \A k \in 1 .. n : Links(file, k)
    BY <1>0, <1>1
  <2> QED
    BY <1>0, <2>1, HashIsBodies
<1>3. Len(h) \in Nat \ {0} /\ Len(h) <= Len(prev[i]) /\ prev[i] # <<>>
  BY <1>0 DEF Begins
<1>4. PICK n \in 1 .. Len(file) : prev[i] = file[n].hash
  BY <1>0, <1>3 DEF Accepts, Hashes, GENESIS
<1>5. Len(prev[i]) = n /\ \A j \in 1 .. n : prev[i][j] = file[j].body
  BY <1>2, <1>4
<1> DEFINE m == Len(h)
<1>6. m \in 1 .. n /\ m \in 1 .. Len(file) /\ n \in Nat
  BY <1>0, <1>3, <1>5
<1>7. \A j \in 1 .. m : h[j] = file[j].body
  BY <1>5, <1>6 DEF Begins
<1>8. file[m].hash = h
  <2>1. file[m].hash \in Seq(Body) /\ Len(file[m].hash) = m
        /\ \A j \in 1 .. m : file[m].hash[j] = file[j].body
    BY <1>2, <1>6
  <2>2. \A j \in 1 .. m : file[m].hash[j] = h[j]
    BY <1>7, <2>1
  <2> QED
    BY <1>0, <2>1, <2>2
<1>9. Stands(h)
  BY <1>0, <1>1, <1>6, <1>8 DEF Stands
<1>10. Begins(h, Tip)
  <2>1. file # <<>> /\ Len(file) \in 1 .. Len(file)
    BY <1>0, <1>6
  <2>2. Len(Tip) = Len(file) /\ \A j \in 1 .. Len(file) : Tip[j] = file[j].body
    BY <1>2, <2>1 DEF Tip
  <2>3. \A j \in 1 .. m : j \in 1 .. Len(file)
    BY <1>0, <1>6
  <2> QED
    BY <1>3, <1>6, <1>7, <2>2, <2>3 DEF Begins
<1> QED
  BY <1>9, <1>10

\* What stands while the lines stay.
LEMMA StandsStays ==
  ASSUME file' = file
  PROVE  (\A h : Stands(h)' <=> Stands(h)) /\ Tip' = Tip
  BY DEF Stands, Links, Before, Tip

\* What stands when a line is written behind the others.
LEMMA StandsBehind ==
  ASSUME TypeOK, NEW line \in LineType, file' = Append(file, line)
  PROVE  /\ \A h : Stands(h) => Stands(h)'
         /\ line.form = "entry" /\ line.prev = Tip /\ line.hash = Append(Tip, line.body)
              => Stands(line.hash)'
         /\ Tip' = line.hash
<1>1. /\ file \in Seq(LineType) /\ Len(file) \in Nat /\ DOMAIN file = 1 .. Len(file)
      /\ Len(file') = Len(file) + 1
      /\ DOMAIN file' = 1 .. Len(file) + 1 /\ file'[Len(file) + 1] = line
      /\ \A k \in 1 .. Len(file) : file'[k] = file[k]
  BY Appended DEF TypeOK
<1>2. \A k \in 1 .. Len(file) : Links(file, k) <=> Links(file', k)
  <2>1. 1 .. Len(file) \subseteq DOMAIN file /\ 1 .. Len(file) \subseteq DOMAIN file'
    BY <1>1
  <2> QED
    BY <1>1, <2>1, PrefixLinks
<1>3. ASSUME NEW h, Stands(h) PROVE Stands(h)'
  <2>1. PICK k \in 1 .. Len(file) : file[k].hash = h /\ Links(file, k)
    BY <1>1, <1>3 DEF Stands
  <2>2. k \in DOMAIN file' /\ file'[k].hash = h /\ Links(file', k)
    BY <1>1, <1>2, <2>1
  <2>3. \E j \in DOMAIN file' : file'[j].hash = h /\ Links(file', j)
    BY <2>2
  <2> QED
    BY <2>3 DEF Stands, Links, Before
<1>4. ASSUME line.form = "entry", line.prev = Tip, line.hash = Append(Tip, line.body)
      PROVE  Stands(line.hash)'
  <2> DEFINE n == Len(file) + 1
  <2>1. n \in DOMAIN file' /\ n - 1 = Len(file) /\ (n = 1 <=> file = <<>>)
        /\ (file # <<>> => Len(file) \in 1 .. Len(file))
    BY <1>1
  <2>2. Before(file', n) = Tip
    BY <1>1, <2>1 DEF Before, Tip
  <2>3. Links(file', n)
    BY <1>1, <1>4, <2>2 DEF Links
  <2>4. \E j \in DOMAIN file' : file'[j].hash = line.hash /\ Links(file', j)
    BY <1>1, <2>1, <2>3
  <2> QED
    BY <2>4 DEF Stands, Links, Before
<1>5. Tip' = line.hash
  <2>1. file' # <<>> /\ file'[Len(file')] = line
    BY <1>1
  <2> QED
    BY <2>1 DEF Tip
<1> QED
  BY <1>3, <1>4, <1>5

\* What an instance believes stays worth as much while the file stays.
LEMMA HistoryUntouched ==
  ASSUME NEW j \in Instance, HistoryInv(j), UNCHANGED disk,
         prev'[j] = prev[j], stamp'[j] = stamp[j], newline'[j] = newline[j], mine'[j] = mine[j],
         \/ pc'[j] = pc[j]
         \/ pc[j] \in {"idle", "check"} /\ pc'[j] \in {"idle", "check"}
         \/ pc[j] = "write" /\ pc'[j] = "idle"
         \/ pc'[j] = "down"
  PROVE  HistoryInv(j)'
<1>1. file' = file /\ ended' = ended /\ version' = version
  BY DEF disk
<1>2. (\A h : Stands(h)' <=> Stands(h)) /\ Tip' = Tip
  BY <1>1, StandsStays
<1>3. (Knows(j)' <=> Knows(j)) /\ (Own(j)' <=> Own(j))
  BY <1>1, <1>2 DEF Knows, Own
<1>4. Entry(j)' = Entry(j)
  BY DEF Entry, NewLine
<1> QED
  BY <1>1, <1>2, <1>3, <1>4 DEF HistoryInv

\* A stamp taken before the file changed claims nothing.
LEMMA HistoryBehind ==
  ASSUME TypeOK, NEW j \in Instance, HistoryInv(j), version' = version + 1,
         prev'[j] = prev[j], stamp'[j] = stamp[j], mine'[j] = mine[j],
         pc'[j] \in {"idle", "check", "down"}
  PROVE  HistoryInv(j)'
<1>1. stamp[j] \in Nat /\ version \in Nat /\ stamp[j] <= version
  BY DEF HistoryInv, TypeOK
<1> QED
  BY <1>1 DEF HistoryInv

\* Whatever part of a write reaches the file, its stamp moves.
LEMMA PartMoves == ASSUME NEW i \in Instance, PartWritten(i) PROVE UNCHANGED disk \/ version' = version + 1
<1>1. \A lines, bl, nl : Becomes(lines, bl, nl) => version' = version + 1
  BY DEF Becomes
<1> QED
  BY <1>1, Zenon DEF PartWritten

\* An instance's step keeps what the others saw, and its own.
LEMMA InstanceHistory ==
  ASSUME Base, HInv, NEW i \in Instance, InstanceStep(i)
  PROVE  HInv'
<1> USE DEF disk, turns, cached, repair, counts
<1>0. /\ pc \in [Instance -> Inside \cup {"down", "idle"}] /\ prev \in [Instance -> Seq(Body)]
      /\ stamp \in [Instance -> Nat] /\ newline \in [Instance -> BOOLEAN]
      /\ mine \in [Instance -> SUBSET Seq(Body)]
      /\ version \in Nat /\ ended \in BOOLEAN /\ HistoryInv(i)
      /\ \A j \in Instance : HistoryInv(j)
  BY DEF Base, TypeOK, HInv
<1>1. CASE Open(i)
  <2>1. \A j \in Instance \ {i} : HistoryInv(j)'
    BY <1>0, <1>1, HistoryUntouched DEF Open
  <2>2. prev'[i] = Tip /\ newline'[i] = ~ended /\ pc'[i] = "opened" /\ mine'[i] = {}
        /\ UNCHANGED <<file, blanks, ended, version, stamp>>
    BY <1>0, <1>1 DEF Open
  <2>3. Knows(i)'
    BY <2>2 DEF Knows, Tip
  <2>4. HistoryInv(i)'
    BY <1>0, <2>2, <2>3 DEF HistoryInv
  <2> QED
    BY <2>1, <2>4 DEF HInv
<1>2. CASE Opened(i)
  <2>1. \A j \in Instance \ {i} : HistoryInv(j)'
    BY <1>0, <1>2, HistoryUntouched DEF Opened
  <2>2. UNCHANGED <<file, blanks, ended, version, prev, newline, mine>> /\ pc[i] = "opened"
        /\ pc'[i] = "idle" /\ stamp'[i] = version
    BY <1>0, <1>2 DEF Opened
  <2>3. Knows(i)' /\ Own(i)'
    BY <1>0, <2>2 DEF HistoryInv, Knows, Tip, Own
  <2>4. HistoryInv(i)'
    BY <1>0, <2>2, <2>3 DEF HistoryInv
  <2> QED
    BY <2>1, <2>4 DEF HInv
\* Either the stamp has not moved, or the chain was read and accepted.
<1>3. ASSUME Accepts(i), Resync(i), UNCHANGED <<file, blanks, ended, version, mine>>,
             stamp'[i] = version \/ stamp'[i] = stamp[i], pc'[i] \in {"idle", "write"}
      PROVE  HistoryInv(i)'
  <2>1. prev'[i] = Tip /\ newline'[i] = ~ended
    BY <1>0, <1>3 DEF Resync
  <2>2. \A h \in mine[i] : Stands(h) /\ Begins(h, Tip)
    BY <1>0, <1>3, AcceptedHistory DEF HistoryInv, Base
  <2>3. (\A h : Stands(h)' <=> Stands(h)) /\ Tip' = Tip
    BY <1>3, StandsStays
  <2>4. Knows(i)' /\ Own(i)'
    BY <1>3, <2>1, <2>2, <2>3 DEF Knows, Own
  <2>5. \A h \in mine'[i] : Begins(h, prev'[i])
    BY <1>3, <2>1, <2>2
  <2>6. stamp'[i] <= version'
    BY <1>0, <1>3 DEF HistoryInv
  <2> QED
    BY <1>3, <2>4, <2>5, <2>6 DEF HistoryInv, Begins
<1>4. CASE EnsureIntact(i)
  <2>1. \A j \in Instance \ {i} : HistoryInv(j)'
    BY <1>0, <1>4, HistoryUntouched DEF EnsureIntact, Resync
  <2>2. pc[i] = "idle" /\ UNCHANGED <<disk, pc, mine>>
    BY <1>4 DEF EnsureIntact
  <2>3. ASSUME UNCHANGED cached PROVE HistoryInv(i)'
    BY <1>0, <2>2, <2>3, HistoryUntouched
  <2>4. ASSUME Accepts(i) /\ Resync(i) /\ stamp' = [stamp EXCEPT ![i] = version]
        PROVE  HistoryInv(i)'
    BY <1>0, <1>3, <2>2, <2>4
  <2>5. HistoryInv(i)'
    BY <1>4, <2>3, <2>4, Zenon DEF EnsureIntact
  <2> QED
    BY <2>1, <2>5 DEF HInv
<1>5. CASE Ask(i) \/ Refuse(i) \/ Anchor(i)
  <2>1. ASSUME NEW j \in Instance PROVE HistoryInv(j)'
    <3>1. pc'[j] = pc[j] \/ (pc[j] \in {"idle", "check"} /\ pc'[j] \in {"idle", "check"})
      BY <1>0, <1>5 DEF Ask, Refuse, Anchor
    <3>2. UNCHANGED disk /\ prev' = prev /\ stamp' = stamp /\ newline' = newline /\ mine' = mine
      BY <1>5 DEF Ask, Refuse, Anchor
    <3> QED
      BY <1>0, <3>1, <3>2, HistoryUntouched
  <2> QED
    BY <2>1 DEF HInv
<1>6. CASE Check(i)
  <2>1. \A j \in Instance \ {i} : HistoryInv(j)'
    BY <1>0, <1>6, HistoryUntouched DEF Check, Resync
  <2>2. pc[i] = "check" /\ pc'[i] = "write" /\ UNCHANGED <<disk, stamp, mine>>
    BY <1>0, <1>6 DEF Check
  <2>3. ASSUME stamp[i] = version /\ UNCHANGED <<prev, newline>>
        PROVE  HistoryInv(i)'
    <3>1. Own(i) /\ Knows(i)
      BY <1>0, <2>2, <2>3 DEF HistoryInv
    <3>2. (\A h : Stands(h)' <=> Stands(h)) /\ Tip' = Tip
      BY <2>2, StandsStays
    <3>3. Own(i)' /\ Knows(i)'
      BY <2>2, <2>3, <3>1, <3>2 DEF Own, Knows
    <3> QED
      BY <1>0, <2>2, <2>3, <3>3 DEF HistoryInv, Begins
  <2>4. ASSUME Accepts(i) /\ Resync(i) PROVE HistoryInv(i)'
    BY <1>3, <2>2, <2>4
  <2>5. HistoryInv(i)'
    BY <1>6, <2>3, <2>4 DEF Check
  <2> QED
    BY <2>1, <2>5 DEF HInv
<1>7. CASE WriteLine(i)
  <2>1. pc[i] = "write" /\ pc'[i] = "written" /\ UNCHANGED <<prev, newline, stamp, mine>>
        /\ \A j \in Instance \ {i} : pc'[j] = pc[j]
    BY <1>0, <1>7 DEF WriteLine
  <2>2. Own(i) /\ Knows(i)
    BY <1>0, <2>1 DEF HistoryInv
  <2>3. file' = Append(file, Entry(i)) /\ ended' /\ version' = version + 1
    BY <1>7, <2>2, Zenon DEF WriteLine, Becomes, Joined, Knows
  <2>4. Entry(i) \in LineType /\ Entry(i).form = "entry" /\ Entry(i).prev = Tip
        /\ Entry(i).hash = Append(Tip, Entry(i).body)
    <3>1. Entry(i) \in LineType
      BY EntryType DEF Base
    <3>2. prev[i] = Tip
      BY <2>2 DEF Knows
    <3> QED
      BY <3>1, <3>2 DEF Entry, NewLine
  <2>5. PICK line \in LineType : line = Entry(i)
    BY <2>4
  <2>6. (\A h : Stands(h) => Stands(h)') /\ Stands(line.hash)' /\ Tip' = line.hash
    BY <2>3, <2>4, <2>5, StandsBehind DEF Base
  <2>7. Stands(Entry(i).hash)' /\ (Tip = Entry(i).hash)'
    <3>1. Entry(i)' = line
      BY <2>1, <2>5 DEF Entry, NewLine
    <3> QED
      BY <2>6, <3>1 DEF Stands
  <2>8. stamp'[i] <= version' /\ Own(i)'
    BY <1>0, <2>1, <2>2, <2>3, <2>6 DEF HistoryInv, Own
  <2>9. HistoryInv(i)'
    BY <1>0, <2>1, <2>3, <2>7, <2>8 DEF HistoryInv, Begins
  <2>10. \A j \in Instance \ {i} : HistoryInv(j)'
    BY <1>0, <2>1, <2>3, OthersIdle, HistoryBehind DEF Inside, Base
  <2> QED
    BY <2>9, <2>10 DEF HInv
<1>8. CASE WriteRaises(i)
  <2>1. pc[i] = "write" /\ pc'[i] = "idle" /\ UNCHANGED <<prev, newline, stamp, mine>>
        /\ \A j \in Instance \ {i} : pc'[j] = pc[j]
    BY <1>0, <1>8 DEF WriteRaises
  <2>2. UNCHANGED disk \/ version' = version + 1
    BY <1>8, PartMoves DEF WriteRaises
  <2>3. \A j \in Instance \ {i} : pc[j] \in {"idle", "down"}
    BY <2>1, OthersIdle DEF Inside, Base
  <2>4. ASSUME NEW j \in Instance PROVE HistoryInv(j)'
    <3>1. pc'[j] = pc[j] \/ (pc[j] = "write" /\ pc'[j] = "idle")
      BY <2>1
    <3>2. pc'[j] \in {"idle", "check", "down"}
      BY <2>1, <2>3
    <3>3. UNCHANGED disk => HistoryInv(j)'
      BY <1>0, <2>1, <3>1, HistoryUntouched
    <3>4. version' = version + 1 => HistoryInv(j)'
      BY <1>0, <2>1, <3>2, HistoryBehind DEF Base
    <3> QED
      BY <2>2, <3>3, <3>4
  <2> QED
    BY <2>4 DEF HInv
<1>9. CASE Written(i)
  <2>1. UNCHANGED <<file, blanks, ended, version>> /\ pc[i] = "written" /\ pc'[i] = "idle"
        /\ stamp'[i] = version /\ newline'[i] = FALSE /\ prev'[i] = Append(prev[i], i)
        /\ mine'[i] = mine[i] \cup {Append(prev[i], i)}
    BY <1>0, <1>9 DEF Written
  <2>2. /\ Own(i) /\ ended /\ Stands(Append(prev[i], i)) /\ Tip = Append(prev[i], i)
        /\ \A h \in mine[i] : Begins(h, prev[i])
    BY <1>0, <2>1 DEF HistoryInv, Entry, NewLine
  <2>3. (\A h : Stands(h)' <=> Stands(h)) /\ Tip' = Tip
    BY <2>1, StandsStays
  <2>4. Own(i)' /\ Knows(i)'
    BY <2>1, <2>2, <2>3 DEF Own, Knows
  <2>5. \A h \in mine'[i] : Begins(h, prev'[i])
    <3> DEFINE p == prev[i]
    <3>1. /\ p \in Seq(Body) /\ i \in Body
      BY <1>0 DEF Body
    <3>2. /\ Append(p, i) \in Seq(Body) /\ Len(p) \in Nat /\ Len(Append(p, i)) = Len(p) + 1
          /\ \A k \in 1 .. Len(p) : Append(p, i)[k] = p[k]
      BY <3>1, Appended
    <3>3. Begins(Append(p, i), Append(p, i))
      BY <3>2 DEF Begins
    <3>4. ASSUME NEW h \in mine[i] PROVE Begins(h, Append(p, i))
      <4>1. h \in Seq(Body) /\ Begins(h, p)
        BY <1>0, <2>2
      <4>2. Len(h) \in Nat
        BY <4>1
      <4> HIDE DEF p
      <4> QED
        BY <3>2, <4>1, <4>2 DEF Begins
    <3> QED
      BY <2>1, <3>3, <3>4
  <2>6. HistoryInv(i)'
    BY <1>0, <2>1, <2>4, <2>5 DEF HistoryInv, Begins
  <2>7. \A j \in Instance \ {i} : HistoryInv(j)'
    BY <1>0, <1>9, HistoryUntouched DEF Written
  <2> QED
    BY <2>6, <2>7 DEF HInv
<1> QED
  BY <1>1, <1>2, <1>4, <1>5, <1>6, <1>7, <1>8, <1>9, Zenon DEF InstanceStep

\* A process's step keeps it.
LEMMA ProcessHistory ==
  ASSUME Base, HInv, NEW p \in Process, ProcessStep(p)
  PROVE  HInv'
<1> USE DEF cached, repair, counts
<1>0. /\ pc \in [Instance -> Inside \cup {"down", "idle"}] /\ p # "none"
      /\ \A j \in Instance : HistoryInv(j)
  BY ActorsAssumption DEF Base, TypeOK, HInv
<1>1. CASE Hold(p) \/ Unhold(p) \/ RepairSide(p) \/ RepairRaises(p)
  <2>1. UNCHANGED disk /\ UNCHANGED <<pc, prev, stamp, newline, mine>>
    BY <1>1 DEF Hold, Unhold, RepairSide, RepairRaises
  <2> QED
    BY <1>0, <2>1, HistoryUntouched DEF HInv
<1>2. CASE RepairSwap(p)
  <2>1. \A j \in Instance : pc[j] \notin Inside
    BY <1>0, <1>2 DEF RepairSwap, Base, Solo
  <2>2. version' = version + 1 /\ UNCHANGED <<pc, prev, stamp, newline, mine>>
    BY <1>2 DEF RepairSwap, Becomes
  <2>3. \A j \in Instance : pc'[j] \in {"idle", "check", "down"}
    BY <1>0, <2>1, <2>2
  <2> QED
    BY <1>0, <2>2, <2>3, HistoryBehind DEF HInv, Base
<1>3. CASE Crash(p)
  <2>1. UNCHANGED <<prev, stamp, newline, mine>>
        /\ \A j \in Instance : pc'[j] = IF Home[j] = p THEN "down" ELSE pc[j]
    BY <1>3 DEF Crash
  <2>2. CASE UNCHANGED disk
    BY <1>0, <2>1, <2>2, HistoryUntouched DEF HInv
  <2>3. ASSUME NEW i \in Instance, Home[i] = p, pc[i] = "write", version' = version + 1
        PROVE  HInv'
    <3>1. \A j \in Instance : pc'[j] \in {"idle", "check", "down"}
      BY <2>1, <2>3, OthersIdle DEF Base, Inside
    <3> QED
      BY <1>0, <2>1, <2>3, <3>1, HistoryBehind DEF HInv, Base
  <2>4. UNCHANGED disk \/ \E i \in Instance : Home[i] = p /\ pc[i] = "write" /\ PartWritten(i)
    BY <1>3, Zenon DEF Crash
  <2> QED
    BY <2>2, <2>3, <2>4, PartMoves
<1> QED
  BY <1>1, <1>2, <1>3 DEF ProcessStep

\* A sealed edit moves the stamp, so nobody believes in the file it left.
LEMMA EditorHistory ==
  ASSUME Sealed, Base, HInv, Edit
  PROVE  HInv'
<1>1. version' = version + 1
  <2>1. \A lines, bl, nl : Becomes(lines, bl, nl) => version' = version + 1
    BY DEF Becomes
  <2>2. version' \in Stamped => version' = version + 1
    BY DEF Stamped, Sealed
  <2> QED
    BY <2>1, <2>2, Zenon DEF Edit
<1>2. lock = "free" /\ UNCHANGED <<pc, prev, stamp, newline, mine>>
  BY Zenon DEF Edit, Sealed, cached
<1>3. \A j \in Instance : pc'[j] \in {"idle", "down"}
  BY <1>2, ActorsAssumption DEF Base, TypeOK, Solo
<1> QED
  BY <1>1, <1>2, <1>3, HistoryBehind DEF HInv, Base

\* As long as edits keep out of running operations and move the stamp, an
\* instance that sees nothing to resync (core.py:395-397) still has on the
\* file, unaltered, all that it was told it wrote.
THEOREM HistoryCorrect == Sealed => (Spec => []OwnHistoryStands)
<1> SUFFICES ASSUME Sealed PROVE Spec => []OwnHistoryStands
  OBVIOUS
<1>1. Init => HInv
  BY DEF Init, HInv, HistoryInv
<1>2. Base /\ HInv /\ [Next]_vars => HInv'
  <2>1. ASSUME Base, HInv, UNCHANGED vars PROVE HInv'
    BY <2>1, HistoryUntouched DEF vars, cached, HInv
  <2> QED
    BY <2>1, InstanceHistory, ProcessHistory, EditorHistory DEF Next
<1>3. HInv => OwnHistoryStands
  BY DEF HInv, HistoryInv, Own, Stands, OwnHistoryStands
<1> QED
  BY <1>1, <1>2, <1>3, InitBase, NextBase, PTL DEF Spec

----------------------------------------------------------------------------
(* The promise of the ledger, kept by the file, the lock and the chain     *)

Owed == [i \in Instance |-> IF pc[i] \in {"check", "write"} THEN "asked"
                            ELSE IF pc[i] = "written" THEN "written" ELSE "nothing"]
Bodies(lines) == [k \in DOMAIN lines |-> lines[k].body]
Places == {Len(h) : h \in told}

\* No append has been told of an entry whose own append has not returned.
Untold(i) == pc[i] = "written" => Entry(i).hash \notin told

PInv == edits = 0 /\ \A i \in Instance : Untold(i)

\* The bodies of a file with a line behind it.
LEMMA BodiesAppend ==
  ASSUME NEW s \in Seq(LineType), NEW line \in LineType
  PROVE  Bodies(Append(s, line)) = Append(Bodies(s), line.body)
<1>1. /\ Len(s) \in Nat /\ DOMAIN s = 1 .. Len(s) /\ DOMAIN Append(s, line) = 1 .. Len(s) + 1
      /\ Append(s, line)[Len(s) + 1] = line /\ \A k \in 1 .. Len(s) : Append(s, line)[k] = s[k]
  BY Appended
<1>2. line.body \in Body /\ \A k \in 1 .. Len(s) : s[k].body \in Body
  <2>1. \A l \in LineType : l.body \in Body
    BY DEF LineType
  <2> QED
    BY <1>1, <2>1
<1>3. Bodies(s) \in Seq(Body) /\ Len(Bodies(s)) = Len(s)
  BY <1>1, <1>2 DEF Bodies
<1>4. /\ DOMAIN Append(Bodies(s), line.body) = 1 .. Len(s) + 1
      /\ Append(Bodies(s), line.body)[Len(s) + 1] = line.body
      /\ \A k \in 1 .. Len(s) : Append(Bodies(s), line.body)[k] = Bodies(s)[k]
      /\ Append(Bodies(s), line.body) \in Seq(Body)
  BY <1>2, <1>3, Appended
<1> DEFINE f == Bodies(Append(s, line))
           g == Append(Bodies(s), line.body)
<1>5. \A n \in Nat : \A k \in 1 .. n + 1 : k = n + 1 \/ k \in 1 .. n
  OBVIOUS
<1>6. DOMAIN f = 1 .. Len(s) + 1 /\ \A k \in 1 .. Len(s) + 1 : f[k] = Append(s, line)[k].body
  BY <1>1 DEF Bodies
<1>7. \A k \in 1 .. Len(s) : Bodies(s)[k] = s[k].body
  BY <1>1 DEF Bodies
<1>8. DOMAIN g = 1 .. Len(s) + 1 /\ g = [k \in DOMAIN g |-> g[k]] /\ f = [k \in DOMAIN f |-> f[k]]
  BY <1>4 DEF Bodies
<1> HIDE DEF f, g
<1>9. \A k \in 1 .. Len(s) : f[k] = g[k]
  <2>1. \A k \in 1 .. Len(s) : k \in 1 .. Len(s) + 1
    BY <1>1
  <2> QED
    BY <1>1, <1>4, <1>6, <1>7, <2>1 DEF g
<1>10. f[Len(s) + 1] = g[Len(s) + 1]
  <2>1. Len(s) + 1 \in 1 .. Len(s) + 1
    BY <1>1
  <2> QED
    BY <1>1, <1>4, <1>6, <2>1 DEF g
<1>11. \A k \in 1 .. Len(s) + 1 : f[k] = g[k]
  BY <1>1, <1>5, <1>9, <1>10
<1>12. f = g
  BY <1>6, <1>8, <1>11
<1> QED
  BY <1>12 DEF f, g

\* What readers get: the lines, or all but a cut-off last one.
ReadRight ==
  TypeOK => /\ Verifies(file) => Read = file
            /\ Repairable => Read = Front(file)

\* What readers see is the file, or the file without its cut-off last line.
LEMMA ReadIs == ReadRight
<1>1. Verifies(file) => Read = file
  BY DEF Verifies, Read
<1>2. TypeOK /\ Repairable => Read = Front(file)
  BY RepairableIsTorn, TornBreaks DEF Verifies, Read
<1> QED
  BY <1>1, <1>2 DEF ReadRight

\* The same of the next state.
LEMMA ReadWillBe == ReadRight'
  BY ReadIs, PTL

\* It changes only with the file.
LEMMA ReadStays == ASSUME file' = file, ended' = ended PROVE Read' = Read
  BY DEF Read, Breaks, Links, Before, TornTail, Front

\* What a write leaves for readers: its entry behind the others, or nothing.
LEMMA WritesRead ==
  ASSUME Calm, TypeOK', NEW i \in Instance, Fresh(i)
  PROVE  /\ Read = file
         /\ file' = file => Read' = file
         /\ file' = Append(file, Torn) /\ ~ended' /\ blanks' = {} => Read' = file
         /\ file' = Append(file, Entry(i)) => Read' = Append(file, Entry(i))
<1>0. /\ file \in Seq(LineType) /\ Len(file) \in Nat /\ DOMAIN file = 1 .. Len(file)
      /\ TypeOK /\ Verifies(file) /\ Entry(i) \in LineType /\ Torn \in LineType
      /\ Torn.form = "torn"
  <2>1. TypeOK /\ Verifies(file) /\ Entry(i) \in LineType /\ Torn \in LineType
    BY LineFacts, EntryType DEF Calm, Base, Fresh
  <2>2. file \in Seq(LineType)
    BY <2>1 DEF TypeOK
  <2> QED
    BY <2>1, <2>2 DEF Torn
<1>1. Read = file
  BY <1>0, ReadIs DEF ReadRight
<1>2. ASSUME file' = file PROVE Read' = file
  <2>1. Verifies(file)'
    BY <1>0, <1>2 DEF Verifies, Breaks, Links, Before
  <2> QED
    BY <1>2, <2>1, ReadWillBe DEF ReadRight
<1>3. ASSUME file' = Append(file, Torn), ~ended', blanks' = {} PROVE Read' = file
  <2>1. Sound'
    BY <1>0, <1>3, AppendKeeps
  <2>2. /\ file' \in Seq(LineType) /\ Len(file') = Len(file) + 1 /\ DOMAIN file' = 1 .. Len(file) + 1
        /\ file'[Len(file')] = Torn /\ \A k \in 1 .. Len(file) : file'[k] = file[k]
    BY <1>0, <1>3, Appended
  <2>3. ~Verifies(file)'
    <3>1. Len(file') \in DOMAIN file' /\ file'[Len(file')].form # "entry"
      BY <1>0, <2>2
    <3> QED
      BY <3>1 DEF Verifies, Breaks, Links
  <2>4. Read' = Front(file')
    BY <2>1, <2>3, ReadWillBe DEF ReadRight, Sound, Front
  <2>5. Front(file') = file
    <3>1. file' # <<>>
      BY <1>0, <2>2
    <3>2. /\ Front(file') \in Seq(LineType) /\ Len(Front(file')) = Len(file)
          /\ \A k \in 1 .. Len(file) : Front(file')[k] = file'[k]
      <4>1. \A g \in Seq(LineType) : g # <<>> =>
              /\ Front(g) \in Seq(LineType) /\ Len(Front(g)) = Len(g) - 1
              /\ \A k \in 1 .. Len(g) - 1 : Front(g)[k] = g[k]
        BY FrontOf
      <4>2. Len(file) + 1 - 1 = Len(file)
        BY <1>0
      <4> QED
        BY <2>2, <3>1, <4>1, <4>2
    <3> QED
      BY <1>0, <2>2, <3>2
  <2> QED
    BY <2>4, <2>5
<1>4. ASSUME file' = Append(file, Entry(i)) PROVE Read' = Append(file, Entry(i))
  <2>1. Verifies(file)'
    BY <1>0, <1>4, EntryLinks, AppendKeeps
  <2> QED
    BY <1>4, <2>1, ReadWillBe DEF ReadRight
<1> QED
  BY <1>1, <1>2, <1>3, <1>4

\* Every hash that was told is computed from no more entries than there are.
LEMMA PlacesOnFile ==
  ASSUME Calm, Verifies(file), NEW h \in told
  PROVE  /\ Len(h) \in 1 .. Len(file) /\ file[Len(h)].hash = h
<1>1. PICK k \in DOMAIN file : file[k].hash = h
  BY DEF Calm, FileInv, OnFile
<1>2. file \in Seq(LineType) /\ Len(file) \in Nat /\ DOMAIN file = 1 .. Len(file)
  BY DEF Calm, Base, TypeOK
<1>3. \A j \in 1 .. k : Links(file, j)
  BY <1>1, <1>2 DEF Verifies, Breaks
<1>4. Len(h) = k
  BY <1>1, <1>2, <1>3, HashIsBodies
<1> QED
  BY <1>1, <1>2, <1>4

\* An entry about to be written has a hash no one was told.
LEMMA EntryUntold ==
  ASSUME Calm, NEW i \in Instance, Fresh(i)
  PROVE  Len(Entry(i).hash) = Len(file) + 1 /\ Entry(i).hash \notin told
<1>1. file \in Seq(LineType) /\ Len(file) \in Nat /\ DOMAIN file = 1 .. Len(file)
      /\ prev[i] \in Seq(Body) /\ prev[i] = Tip /\ Verifies(file)
  BY DEF Calm, Base, TypeOK, Fresh, Knows
<1>2. Len(Tip) = Len(file)
  <2>1. CASE file = <<>>
    BY <2>1 DEF Tip, GENESIS
  <2>2. CASE file # <<>>
    <3>1. Len(file) \in 1 .. Len(file)
      BY <1>1, <2>2
    <3>2. \A j \in 1 .. Len(file) : Links(file, j)
      BY <1>1 DEF Verifies, Breaks
    <3> QED
      BY <1>1, <2>2, <3>1, <3>2, HashIsBodies DEF Tip
  <2> QED
    BY <2>1, <2>2
<1>3. Entry(i).hash = Append(prev[i], i)
  BY DEF Entry, NewLine
<1>4. Len(Append(prev[i], i)) = Len(prev[i]) + 1
  BY <1>1
<1>5. Len(Entry(i).hash) = Len(file) + 1
  BY <1>1, <1>2, <1>3, <1>4
<1>6. \A h \in told : Len(h) # Len(file) + 1
  <2> SUFFICES ASSUME NEW h \in told PROVE Len(h) # Len(file) + 1
    OBVIOUS
  <2>1. Len(h) \in 1 .. Len(file)
    BY <1>1, PlacesOnFile
  <2> QED
    BY <1>1, <2>1
<1> QED
  BY <1>5, <1>6

\* An entry on its way was told to nobody yet.
LEMMA NextUntold ==
  ASSUME Calm, \A i \in Instance : Untold(i), [Next]_vars, ~Edit
  PROVE  \A i \in Instance : Untold(i)'
<1> USE DEF disk, turns, cached, repair, counts
<1>0. /\ pc \in [Instance -> Inside \cup {"down", "idle"}] /\ prev \in [Instance -> Seq(Body)]
      /\ "written" \in Inside
  BY DEF Calm, Base, TypeOK, Inside
<1>1. ASSUME NEW j \in Instance, pc'[j] = pc[j] \/ pc'[j] # "written",
             prev'[j] = prev[j], told' = told
      PROVE  Untold(j)'
  <2>1. Entry(j)' = Entry(j)
    BY <1>1 DEF Entry, NewLine
  <2> QED
    BY <1>1, <2>1 DEF Untold
<1>2. ASSUME NEW i \in Instance, InstanceStep(i), NEW j \in Instance PROVE Untold(j)'
  <2>1. CASE WriteLine(i)
    <3>1. CASE j = i
      <4>1. pc[i] = "write" /\ prev' = prev /\ told' = told
        BY <2>1 DEF WriteLine
      <4>2. Entry(i).hash \notin told
        BY <4>1, EntryUntold DEF Calm, CacheInv
      <4>3. Entry(i)' = Entry(i)
        BY <4>1 DEF Entry, NewLine
      <4> QED
        BY <3>1, <4>1, <4>2, <4>3 DEF Untold
    <3>2. CASE j # i
      BY <1>0, <1>1, <2>1, <3>2 DEF WriteLine
    <3> QED
      BY <3>1, <3>2
  <2>2. CASE Written(i)
    <3>1. pc[i] \in Inside
      BY <2>2 DEF Written, Inside
    <3>2. pc'[j] # "written"
      BY <1>0, <2>2, <3>1, OthersIdle DEF Written, Calm, Base
    <3> QED
      BY <3>2 DEF Untold
  <2>3. CASE ~WriteLine(i) /\ ~Written(i)
    <3>1. told' = told /\ (pc'[j] = pc[j] \/ pc'[j] # "written")
      BY <1>0, <1>2, <2>3 DEF InstanceStep, Open, Opened, EnsureIntact, Ask, Check, Refuse,
         WriteRaises, Anchor
    <3>2. prev'[j] = prev[j] \/ pc'[j] # "written"
      BY <1>0, <1>2, <2>3 DEF InstanceStep, Open, Opened, EnsureIntact, Ask, Check, Refuse,
         WriteRaises, Anchor, Resync
    <3> QED
      BY <1>1, <3>1, <3>2 DEF Untold
  <2> QED
    BY <2>1, <2>2, <2>3
<1>3. ASSUME NEW p \in Process, ProcessStep(p), NEW j \in Instance PROVE Untold(j)'
  <2>1. told' = told /\ prev' = prev /\ (pc'[j] = pc[j] \/ pc'[j] # "written")
    BY <1>0, <1>3 DEF ProcessStep, Hold, Unhold, RepairSide, RepairSwap, RepairRaises, Crash
  <2> QED
    BY <1>1, <2>1
<1>4. CASE UNCHANGED vars
  BY <1>1, <1>4 DEF vars
<1> QED
  BY <1>2, <1>3, <1>4 DEF Next

\* What a write that stops part-way adds for readers: nothing, or its entry.
LEMMA PartPromise ==
  ASSUME Calm, TypeOK', NEW i \in Instance, Fresh(i), PartWritten(i)
  PROVE  Bodies(Read)' = Bodies(Read) \/ Bodies(Read)' = Append(Bodies(Read), i)
<1>1. file' = file \/ Writes(i)
  BY PartWrites DEF Calm, Base
<1>2. Read = file /\ (Read' = file \/ Read' = Append(file, Entry(i)))
  BY <1>1, WritesRead DEF Writes, Calm, FileInv
<1>3. Bodies(Append(file, Entry(i))) = Append(Bodies(file), Entry(i).body)
  <2>1. file \in Seq(LineType)
    BY DEF Calm, Base, TypeOK
  <2> QED
    BY <2>1, EntryType, BodiesAppend DEF Calm, Base
<1>4. Entry(i).body = i
  BY DEF Entry, NewLine
<1>5. Bodies(Read)' = Bodies(file) \/ Bodies(Read)' = Bodies(Append(file, Entry(i)))
  BY <1>2 DEF Bodies
<1> QED
  BY <1>2, <1>3, <1>4, <1>5

\* The first state is a first state of the ledger.
LEMMA InitPromise == Init => Promise!Init
<1> SUFFICES ASSUME Init PROVE Promise!Init
  OBVIOUS
<1>1. file = <<>> /\ told = {} /\ pc = [i \in Instance |-> "down"]
  BY DEF Init
<1>2. Read = <<>>
  BY <1>1 DEF Read, Breaks
<1>3. Bodies(Read) = <<>>
  BY <1>2 DEF Bodies
<1>4. Owed = [i \in Instance |-> "nothing"]
  BY <1>1 DEF Owed
<1>5. Places = {}
  BY <1>1 DEF Places
<1> QED
  BY <1>3, <1>4, <1>5 DEF Promise!Init, Bodies, Owed, Places

\* A step of an instance is a step of the ledger, or one that it does not see.
LEMMA InstancePromise ==
  ASSUME Calm, TypeOK', \A j \in Instance : Untold(j), NEW i \in Instance, InstanceStep(i)
  PROVE  \/ Promise!Ask(i) \/ Promise!Write(i) \/ Promise!Tell(i) \/ Promise!Fail({i})
         \/ Bodies(Read)' = Bodies(Read) /\ Owed' = Owed /\ Places' = Places
<1> USE DEF disk, turns, cached, repair, counts
<1>0. /\ pc \in [Instance -> Inside \cup {"down", "idle"}] /\ prev \in [Instance -> Seq(Body)]
      /\ CacheInv(i) /\ TypeOK /\ i \in Body
  BY DEF Calm, Base, TypeOK, Body
<1>1. told' = told => Places' = Places
  BY DEF Places
<1>2. Read' = Read => Bodies(Read)' = Bodies(Read)
  BY DEF Bodies
<1>3. UNCHANGED disk => Read' = Read
  BY ReadStays
<1>4. CASE Open(i) \/ Opened(i) \/ EnsureIntact(i) \/ Check(i) \/ Anchor(i)
  <2>1. UNCHANGED disk /\ told' = told
    BY <1>4 DEF Open, Opened, EnsureIntact, Check, Anchor
  <2>2. Owed' = Owed
    BY <1>0, <1>4 DEF Open, Opened, EnsureIntact, Check, Anchor, Owed
  <2> QED
    BY <1>1, <1>2, <1>3, <2>1, <2>2
<1>5. CASE Ask(i)
  <2>1. UNCHANGED disk /\ told' = told
    BY <1>5 DEF Ask
  <2>2. Owed[i] = "nothing" /\ Owed' = [Owed EXCEPT ![i] = "asked"]
    BY <1>0, <1>5 DEF Ask, Owed
  <2>3. Bodies(Read)' = Bodies(Read) /\ Places' = Places
    BY <1>1, <1>2, <1>3, <2>1
  <2> QED
    BY <2>2, <2>3 DEF Promise!Ask, Bodies, Owed, Places
<1>6. CASE Refuse(i)
  <2>1. UNCHANGED disk /\ told' = told
    BY <1>6 DEF Refuse
  <2>2. Owed' = [a \in Instance |-> IF a \in {i} THEN "nothing" ELSE Owed[a]]
    BY <1>0, <1>6 DEF Refuse, Owed
  <2>3. Bodies(Read)' = Bodies(Read) /\ Places' = Places
    BY <1>1, <1>2, <1>3, <2>1
  <2> QED
    BY <2>2, <2>3 DEF Promise!Fail, Bodies, Owed, Places
<1>7. CASE WriteLine(i)
  <2>1. pc[i] = "write" /\ told' = told
    BY <1>7 DEF WriteLine
  <2>2. Fresh(i)
    BY <1>0, <2>1 DEF CacheInv
  <2>3. file' = Append(file, Entry(i))
    BY <1>0, <1>7, <2>2, EntryLinks, Zenon DEF WriteLine, Becomes
  <2>4. Read = file /\ Read' = Append(file, Entry(i))
    BY <2>2, <2>3, WritesRead
  <2>5. Bodies(Read)' = Append(Bodies(Read), i)
    <3>1. Bodies(Append(file, Entry(i))) = Append(Bodies(file), Entry(i).body)
      BY <1>0, EntryType, BodiesAppend DEF TypeOK
    <3>2. Entry(i).body = i
      BY DEF Entry, NewLine
    <3>3. Bodies(Read)' = Bodies(Append(file, Entry(i)))
      BY <2>4 DEF Bodies
    <3> QED
      BY <2>4, <3>1, <3>2, <3>3
  <2>6. Owed[i] = "asked" /\ Owed' = [Owed EXCEPT ![i] = "written"]
    BY <1>0, <1>7 DEF WriteLine, Owed
  <2> QED
    BY <1>1, <2>1, <2>5, <2>6 DEF Promise!Write, Bodies, Owed, Places
<1>8. CASE WriteRaises(i)
  <2>1. pc[i] = "write" /\ told' = told /\ PartWritten(i)
    BY <1>8 DEF WriteRaises
  <2>2. Fresh(i)
    BY <1>0, <2>1 DEF CacheInv
  <2>3. Bodies(Read)' = Bodies(Read) \/ Bodies(Read)' = Append(Bodies(Read), i)
    BY <2>1, <2>2, PartPromise
  <2>4. Owed[i] = "asked" /\ Owed' = [a \in Instance |-> IF a \in {i} THEN "nothing" ELSE Owed[a]]
    BY <1>0, <1>8 DEF WriteRaises, Owed
  <2> QED
    BY <1>1, <2>1, <2>3, <2>4 DEF Promise!Fail, Bodies, Owed, Places
<1>9. CASE Written(i)
  <2>1. UNCHANGED disk /\ pc[i] = "written" /\ told' = told \cup {Append(prev[i], i)}
    BY <1>0, <1>9 DEF Written
  <2>2. Landed(i) /\ Entry(i).hash \notin told
    BY <1>0, <2>1 DEF CacheInv, Untold
  <2>3. Read = file /\ Bodies(Read)' = Bodies(Read)
    BY <1>0, <1>2, <1>3, <2>1, <2>2, ReadIs DEF ReadRight, Landed
  <2> DEFINE n == Len(file)
  <2>4. /\ file \in Seq(LineType) /\ n \in 1 .. n /\ DOMAIN file = 1 .. n
        /\ file[n] = Entry(i) /\ Entry(i).hash = Append(prev[i], i) /\ Entry(i).body = i
    <3>1. file \in Seq(LineType) /\ file # <<>>
      BY <1>0, <2>2 DEF TypeOK, Landed
    <3> QED
      BY <2>2, <3>1 DEF Landed, Entry, NewLine
  <2>5. Len(Append(prev[i], i)) = n
    <3>1. \A k \in 1 .. n : Links(file, k)
      BY <2>2, <2>4 DEF Landed, Verifies, Breaks
    <3>2. Len(file[n].hash) = n
      <4> HIDE DEF n
      <4>1. n \in 1 .. Len(file)
        BY <2>4 DEF n
      <4> QED
        BY <2>4, <3>1, <4>1, HashIsBodies
    <3> HIDE DEF n
    <3>3. file[n].hash = Append(prev[i], i)
      BY <2>4
    <3> QED
      BY <3>2, <3>3
  <2>6. n \notin Places
    <3> SUFFICES ASSUME NEW h \in told, Len(h) = n PROVE FALSE
      BY DEF Places
    <3>1. file[Len(h)].hash = h
      BY <2>2, PlacesOnFile DEF Landed
    <3> QED
      BY <2>2, <2>4, <3>1
  <2>7. Places' = Places \cup {n}
    BY <2>1, <2>5 DEF Places
  <2>8. n \in DOMAIN Bodies(Read) \ Places /\ Bodies(Read)[n] = i
    BY <2>3, <2>4, <2>6 DEF Bodies
  <2>9. Owed[i] = "written" /\ Owed' = [Owed EXCEPT ![i] = "nothing"]
    BY <1>0, <1>9 DEF Written, Owed
  <2> HIDE DEF n
  <2> QED
    BY <2>3, <2>7, <2>8, <2>9 DEF Promise!Tell, Bodies, Owed, Places
<1> QED
  BY <1>4, <1>5, <1>6, <1>7, <1>8, <1>9 DEF InstanceStep

\* A process's step is a failure of its appends, a repair's record, or nothing to the ledger.
LEMMA ProcessPromise ==
  ASSUME Calm, TypeOK', NEW p \in Process, ProcessStep(p)
  PROVE  \/ Promise!Fail({i \in Instance : Home[i] = p}) \/ Promise!Amend
         \/ Bodies(Read)' = Bodies(Read) /\ Owed' = Owed /\ Places' = Places
<1> USE DEF cached, repair, counts
<1>0. /\ pc \in [Instance -> Inside \cup {"down", "idle"}] /\ TypeOK
      /\ p # "none"
  BY ActorsAssumption DEF Calm, Base, TypeOK
<1>1. told' = told => Places' = Places
  BY DEF Places
<1>2. UNCHANGED disk => Bodies(Read)' = Bodies(Read)
  BY ReadStays DEF Bodies, disk
<1>3. CASE Hold(p) \/ Unhold(p) \/ RepairSide(p) \/ RepairRaises(p)
  <2>1. UNCHANGED disk /\ told' = told /\ pc' = pc
    BY <1>3 DEF Hold, Unhold, RepairSide, RepairRaises
  <2> QED
    BY <1>1, <1>2, <2>1 DEF Owed
<1>4. CASE RepairSwap(p)
  <2> DEFINE kept == Front(file)
             line == NewLine("repair", Before(file, Len(file)))
  <2>1. mending = p /\ told' = told /\ pc' = pc /\ file' = Append(kept, line)
    BY <1>4, Zenon DEF RepairSwap, Becomes
  <2>2. Repairable
    BY <1>0, <2>1 DEF Calm, Base, Solo
  <2>3. Read = kept
    BY <1>0, <2>2, ReadIs DEF ReadRight
  <2>4. kept \in Seq(LineType) /\ line \in LineType /\ line.body = "repair"
    <3>1. file # <<>> /\ file \in Seq(LineType)
      BY <1>0, <2>2 DEF Repairable, TypeOK
    <3>2. line \in LineType
      BY <1>0, <3>1, BeforeType, LineFacts DEF Body
    <3> QED
      BY <3>1, <3>2, FrontOf DEF NewLine
  <2>5. Verifies(file)'
    <3>1. Sound'
      BY <1>4, RepairKeeps DEF Calm, FileInv
    <3>2. file'[Len(file')] = line /\ line.form = "entry"
      <4>1. line.form = "entry"
        BY DEF NewLine
      <4> HIDE DEF kept, line
      <4>2. Append(kept, line)[Len(Append(kept, line))] = line
        BY <2>4, Appended
      <4> QED
        BY <2>1, <4>1, <4>2
    <3> HIDE DEF line
    <3>3. ~Repairable'
      BY <3>2 DEF Repairable
    <3> QED
      BY <3>1, <3>3 DEF Sound
  <2>6. Read' = Append(kept, line)
    BY <2>1, <2>5, ReadWillBe DEF ReadRight
  <2> HIDE DEF kept, line
  <2>7. Bodies(Read)' = Append(Bodies(Read), "repair")
    <3>1. Bodies(Append(kept, line)) = Append(Bodies(kept), line.body)
      BY <2>4, BodiesAppend
    <3>2. Bodies(Read)' = Bodies(Append(kept, line))
      BY <2>6 DEF Bodies
    <3> QED
      BY <2>3, <2>4, <3>1, <3>2
  <2>8. Owed' = Owed
    BY <2>1 DEF Owed
  <2> QED
    BY <1>1, <2>1, <2>7, <2>8 DEF Promise!Amend, Bodies, Owed, Places
<1>5. CASE Crash(p)
  <2> DEFINE A == {i \in Instance : Home[i] = p}
  <2>1. told' = told /\ pc' = [i \in Instance |-> IF Home[i] = p THEN "down" ELSE pc[i]]
    BY <1>5 DEF Crash
  <2>2. Owed' = [a \in Instance |-> IF a \in A THEN "nothing" ELSE Owed[a]]
    BY <2>1 DEF Owed
  <2>3. \/ Bodies(Read)' = Bodies(Read)
        \/ \E a \in A : Owed[a] = "asked" /\ Bodies(Read)' = Append(Bodies(Read), a)
    <3>1. UNCHANGED disk \/ \E i \in Instance : Home[i] = p /\ pc[i] = "write" /\ PartWritten(i)
      BY <1>5, Zenon DEF Crash
    <3>2. ASSUME NEW i \in Instance, Home[i] = p, pc[i] = "write", PartWritten(i)
          PROVE  \/ Bodies(Read)' = Bodies(Read)
                 \/ \E a \in A : Owed[a] = "asked" /\ Bodies(Read)' = Append(Bodies(Read), a)
      <4>1. Fresh(i)
        BY <3>2 DEF Calm, CacheInv
      <4>2. Bodies(Read)' = Bodies(Read) \/ Bodies(Read)' = Append(Bodies(Read), i)
        BY <3>2, <4>1, PartPromise
      <4>3. i \in A /\ Owed[i] = "asked"
        BY <3>2 DEF Owed
      <4> QED
        BY <4>2, <4>3, Zenon
    <3> QED
      BY <1>2, <3>1, <3>2
  <2>4. Places' = Places
    BY <1>1, <2>1
  <2> HIDE DEF A
  <2>5. Promise!Fail(A)
    BY <2>2, <2>3, <2>4 DEF Promise!Fail, Bodies, Owed, Places
  <2> QED
    BY <2>5 DEF A
<1> QED
  BY <1>3, <1>4, <1>5 DEF ProcessStep

\* Every step but an edit is a step of the ledger, or nothing to it.
LEMMA NextPromise ==
  ASSUME Calm, TypeOK', \A i \in Instance : Untold(i), [Next]_vars, ~Edit
  PROVE  [Promise!Next]_(Promise!lvars)
<1>1. ASSUME Bodies(Read)' = Bodies(Read), Owed' = Owed, Places' = Places
      PROVE  UNCHANGED Promise!lvars
  BY <1>1 DEF Promise!lvars, Bodies, Owed, Places
<1>2. ASSUME NEW i \in Instance, InstanceStep(i) PROVE Promise!Next \/ UNCHANGED Promise!lvars
  <2>1. \/ Promise!Ask(i) \/ Promise!Write(i) \/ Promise!Tell(i) \/ Promise!Fail({i})
        \/ UNCHANGED Promise!lvars
    BY <1>1, <1>2, InstancePromise, Zenon
  <2>2. {i} \in SUBSET Instance
    OBVIOUS
  <2> QED
    BY <2>1, <2>2, Zenon DEF Promise!Next
<1>3. ASSUME NEW p \in Process, ProcessStep(p) PROVE Promise!Next \/ UNCHANGED Promise!lvars
  <2>1. PICK A \in SUBSET Instance : A = {i \in Instance : Home[i] = p}
    OBVIOUS
  <2>2. Promise!Fail(A) \/ Promise!Amend \/ UNCHANGED Promise!lvars
    BY <1>1, <1>3, <2>1, ProcessPromise, Zenon
  <2> QED
    BY <2>2, Zenon DEF Promise!Next
<1>4. CASE UNCHANGED vars
  <2>1. UNCHANGED disk /\ told' = told /\ pc' = pc
    BY <1>4 DEF vars
  <2>2. Read' = Read
    BY <2>1, ReadStays DEF disk
  <2> QED
    BY <1>1, <2>1, <2>2 DEF Bodies, Owed, Places
<1> QED
  BY <1>2, <1>3, <1>4, Zenon DEF Next

\* As long as only this class writes the file, the log keeps the promise of
\* Ledger: entries only accumulate, and every append that returned has a place
\* of its own that it keeps (core.py:578-587).
THEOREM PromiseCorrect == Edits = {} => (Spec => PromiseKept)
<1> SUFFICES ASSUME Edits = {} PROVE Spec => PromiseKept
  OBVIOUS
<1>1. ~Edit
  BY DEF Edit
<1>2. Init => PInv
  BY DEF Init, PInv, Untold
<1>3. Base /\ IInv /\ PInv => Calm /\ \A i \in Instance : Untold(i)
  BY DEF IInv, PInv, Calm
<1>4. Base /\ IInv /\ PInv /\ [Next]_vars => PInv'
  <2> SUFFICES ASSUME Base, IInv, PInv, [Next]_vars PROVE PInv'
    OBVIOUS
  <2>1. ~Edit
    BY DEF Edit
  <2>2. edits' = 0
    BY <2>1, EditsStay DEF PInv
  <2> QED
    BY <1>3, <2>1, <2>2, NextUntold DEF PInv
<1>5. Base /\ IInv /\ PInv /\ Base' /\ [Next]_vars => [Promise!Next]_(Promise!lvars)
  <2> SUFFICES ASSUME Base, IInv, PInv, Base', [Next]_vars PROVE [Promise!Next]_(Promise!lvars)
    OBVIOUS
  <2>1. ~Edit /\ TypeOK'
    BY DEF Edit, Base
  <2> QED
    BY <1>3, <2>1, NextPromise
<1> QED
  BY <1>2, <1>4, <1>5, InitPromise, SpecChain, PTL DEF Spec, PromiseKept, Promise!Spec
=============================================================================
