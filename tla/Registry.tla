------------------------------ MODULE Registry ------------------------------
(***************************************************************************)
(* The signer registry, src/dispatcher/signer_registry.py.  A file is      *)
(* [found, unratified, entries]; an entry says who may sign an intent,     *)
(* whether a second factor is demanded, whether it was revoked, and from   *)
(* which day it counts.  "" is a field that is missing or empty.           *)
(***************************************************************************)
EXTENDS Integers, Sequences
LOCAL INSTANCE FiniteSetsExt

\* The day is read only of an entry whose date can be parsed.
Effective == [given : {"missing", "garbled", "date"}, day : Int]

Entry == [intent : STRING, login : STRING, template : BOOLEAN, mfa_required : BOOLEAN,
          revoked : BOOLEAN, effective : Effective]

\* SignerRegistry.load leaves the template's rows out; the constructor refuses
\* what is left if one row of it is unfit.
Usable(file) == SelectSeq(file.entries, LAMBDA e : ~e.template)

Loads(file) ==
  /\ file.found /\ ~file.unratified
  /\ Usable(file) # <<>>
  /\ \A k \in DOMAIN Usable(file) :
       LET e == Usable(file)[k] IN e.mfa_required /\ e.login # "" /\ e.intent # ""

\* The rows of an intent that name a login, in file order.
RowsOf(rows, intent, login) ==
  {k \in DOMAIN rows : rows[k].intent = intent /\ rows[k].login = login}

Complete(stamp) == stamp.present /\ stamp.login # "" /\ stamp.mfa /\ stamp.session

Authorizes(row, today) ==
  /\ ~row.revoked
  /\ row.effective.given = "date" /\ row.effective.day <= today

\* check: the first row of the login decides, whatever it says.
Check(rows, stamp, intent, today) ==
  LET named == RowsOf(rows, intent, stamp.login)
  IN  /\ Complete(stamp)
      /\ named # {}
      /\ Authorizes(rows[Min(named)], today)
=============================================================================
