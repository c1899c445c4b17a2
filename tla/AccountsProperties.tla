------------------------- MODULE AccountsProperties -------------------------
(***************************************************************************)
(* What must hold of accounts, credentials and tokens however requests     *)
(* interleave.                                                             *)
(***************************************************************************)
EXTENDS Accounts

EntryType == [account : Accounts, status : Statuses, password : Passwords \cup {Null},
              version : Nat, since : Nat]
TokenType == [account : Accounts, version : Nat, since : Nat, by : Passwords \cup Subjects]

Stages == {"new", "admitted", "verifying", "checked", "existing", "unknown", "transaction",
           "inserting", "raced", "read", "updated", "locked", "planned", "users locked",
           "customers locked", "done"}
Outcomes == {"none", "token", "ok", "refused", "conflict", "phone required", "failed"}

DataTypes ==
  /\ row \in [Accounts -> Row]
  /\ identity \in [Subjects -> Customers \cup {Null}]
  /\ audit \in [Accounts -> Seq([from : Statuses, to : Statuses])]
  /\ tokens \subseteq TokenType

ControlTypes ==
  /\ gapLocks \in BOOLEAN
  /\ rowHolder \in [Accounts -> Requests \cup {Nobody}]
  /\ scanHolder \in [Tables -> Requests \cup {Nobody}]
  /\ stage \in [Requests -> Stages]
  /\ seen \in [Requests -> SUBSET EntryType]
  /\ outcome \in [Requests -> Outcomes]

\* The types of the state; audit records name the two statuses of a change.
TypeOK == DataTypes /\ ControlTypes

\* A token that the API still takes proves something true now: the password
\* it was obtained with is still the account's, or the Google subject is
\* still the account's, and the account has been neither locked nor unlocked
\* since its row was read.  Verifying a password takes time, in which the
\* password may change or the account be locked.
UsableTokensProveCredentials ==
  \A t \in tokens : Resolves(t) =>
    /\ IF t.by \in Subjects THEN identity[t.by] = t.account
                            ELSE row[t.account].password = t.by
    /\ t.since = Len(audit[t.account])

\* No two customers have one phone number, in whatever form it is stored:
\* an older release stored other forms, which no unique key compares, and a
\* script rewrites them while the API runs.
OnePersonPerPhone ==
  \A a, b \in Customers :
    /\ Visible(a) /\ Visible(b) /\ a # b
    => row[a].phone.number # row[b].phone.number

\* The status an account had before its i-th change: accounts are created ACTIVE.
StatusBefore(a, i) ==
  IF i > 1 THEN audit[a][i - 1].to
  ELSE IF Existing[a].exists THEN Existing[a].status ELSE "ACTIVE"

\* The audit log tells the whole story of an account's status: each record
\* starts from the status the one before it ended with, and the last one
\* ended with the status the account has.
AuditTellsStatus ==
  \A a \in Accounts : row[a].exists =>
    /\ \A i \in 1..Len(audit[a]) :
         audit[a][i].from = StatusBefore(a, i) /\ audit[a][i].to # StatusBefore(a, i)
    /\ row[a].status = StatusBefore(a, Len(audit[a]) + 1)

\* A Google identity belongs to the customer that was created with it: a
\* login never adopts an account that exists, whatever e-mail or phone it
\* shares with it, and an identity never moves.
GoogleNeverAdoptsAccount ==
  [][\A s \in Subjects : identity'[s] # identity[s] =>
       /\ identity[s] = Null
       /\ ~row[identity'[s]].exists /\ row'[identity'[s]].exists]_vars
=============================================================================
