------------------------------- MODULE Track -------------------------------
(***************************************************************************)
(* The closed track: src/dispatcher/core.py, class Routes, and the         *)
(* authority classification of src/dispatcher/hub.py.                      *)
(*                                                                         *)
(* A route table is a sequence of rows in file order.  An intent is the    *)
(* sequence of its dotted parts: "pay.release" is <<"pay", "release">>;    *)
(* the pattern "pay.*" is the prefix <<"pay">> with wild = TRUE.  The      *)
(* operators take the table as a parameter, so that a specification can    *)
(* fix one table and a model can range over many.                          *)
(***************************************************************************)
LOCAL INSTANCE Naturals
LOCAL INSTANCE Sequences
LOCAL INSTANCE FiniteSetsExt

AUDIENCE         == {"principal", "counterparty", "public"}
AUDIENCE_GATED   == {"counterparty", "public"}
AUDIENCE_DEFAULT == "counterparty"

AUTHORITY_INTENTS == {<<"config", "update">>}

\* i == intent, or i ends with ".*" and intent starts with i up to the dot.
Carries(pattern, intent) ==
  IF pattern.wild
  THEN /\ Len(pattern.name) < Len(intent)
       /\ \A k \in 1 .. Len(pattern.name) : pattern.name[k] = intent[k]
  ELSE pattern.name = intent

\* Routes.matches: the rows that carry an intent.
Matching(rows, intent) == {i \in DOMAIN rows : Carries(rows[i].intent, intent)}

TupleLegal(rows, from, intent, to) ==
  \E i \in Matching(rows, intent) :
    /\ {from, "any"} \cap rows[i].senders # {}
    /\ {to, "any"} \cap rows[i].receivers # {}

\* Only rows whose receivers name `external` enter the audience map.
Leaving(rows) == {i \in DOMAIN rows : "external" \in rows[i].receivers}

\* A missing or unknown label reads as the guarded default.
Label(row) == IF row.audience \in AUDIENCE THEN row.audience ELSE AUDIENCE_DEFAULT

\* The map is a dict keyed by the pattern: a later row with the same pattern
\* overwrites the label and keeps the first row's place in the order.
Audience(rows, pattern) ==
  Label(rows[Max({i \in Leaving(rows) : rows[i].intent = pattern})])

\* Routes.audience_for: the first pattern of the map that carries the intent.
AudienceFor(rows, intent) ==
  LET carrying == Leaving(rows) \cap Matching(rows, intent)
  IN  IF carrying = {} THEN "none" ELSE Audience(rows, rows[Min(carrying)].intent)

\* The hub's reading of it: `audience_for(intent) or AUDIENCE_DEFAULT`.
IsGated(rows, intent) ==
  LET a == AudienceFor(rows, intent)
  IN  (IF a = "none" THEN AUDIENCE_DEFAULT ELSE a) \in AUDIENCE_GATED

\* is_authority: the suffix, the core's own set, or declared by the identity.
IsAuthority(intent, declared) ==
  \/ Len(intent) > 1 /\ intent[Len(intent)] = "authority"
  \/ intent \in AUTHORITY_INTENTS
  \/ intent \in declared

\* What Routes.__init__ accepts as signed_intents: names on the track.
SignedIntentsLoad(rows, declared) == \A i \in declared : Matching(rows, i) # {}
=============================================================================
