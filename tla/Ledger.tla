------------------------------- MODULE Ledger -------------------------------
(***************************************************************************)
(* What an audit log promises the callers of append and the readers of the *)
(* file: a list of entries that only grows, in which every append that     *)
(* returned stands for good, at a place no other append was told of.  An   *)
(* append that raises, or whose process dies, may or may not have left its *)
(* entry.  AuditLog implements this with a file, a lock and a hash chain.  *)
(***************************************************************************)
EXTENDS Naturals, Sequences

CONSTANTS
  Author,  \* who appends
  Mender   \* who records a repair

VARIABLES
  entries, \* the authors of the entries, oldest first
  owed,    \* where the append of each author stands
  told     \* the places that appends have returned

lvars == <<entries, owed, told>>

Init ==
  /\ entries = <<>>
  /\ owed = [a \in Author |-> "nothing"]
  /\ told = {}

Ask(a) ==
  /\ owed[a] = "nothing"
  /\ owed' = [owed EXCEPT ![a] = "asked"]
  /\ UNCHANGED <<entries, told>>

Write(a) ==
  /\ owed[a] = "asked"
  /\ entries' = Append(entries, a)
  /\ owed' = [owed EXCEPT ![a] = "written"]
  /\ UNCHANGED told

Tell(a) ==
  /\ owed[a] = "written"
  /\ \E n \in (DOMAIN entries) \ told : entries[n] = a /\ told' = told \cup {n}
  /\ owed' = [owed EXCEPT ![a] = "nothing"]
  /\ UNCHANGED entries

\* The appends of A end without an answer: one of them may have written.
Fail(A) ==
  /\ \/ UNCHANGED entries
     \/ \E a \in A : owed[a] = "asked" /\ entries' = Append(entries, a)
  /\ owed' = [a \in Author |-> IF a \in A THEN "nothing" ELSE owed[a]]
  /\ UNCHANGED told

Amend == entries' = Append(entries, Mender) /\ UNCHANGED <<owed, told>>

Next ==
  \/ \E a \in Author : Ask(a) \/ Write(a) \/ Tell(a)
  \/ \E A \in SUBSET Author : Fail(A)
  \/ Amend

Spec == Init /\ [][Next]_lvars
=============================================================================
