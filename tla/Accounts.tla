------------------------------ MODULE Accounts ------------------------------
(***************************************************************************)
(* The accounts of customers and users: logging in with a password or with *)
(* Google, registering, changing profiles and passwords, locking and       *)
(* unlocking, the access tokens that all of this hands out and takes back, *)
(* and the script that rewrites old phone numbers.  A request runs once;   *)
(* it is a step per statement or transaction, and what it read before a    *)
(* password was hashed or verified may be stale afterwards.                *)
(*                                                                         *)
(* A transaction that locks one account holds its row until it ends.  The  *)
(* one that creates a Google customer scans all customers with a locking   *)
(* read, because LOWER(email) has no index: at REPEATABLE READ it holds    *)
(* every row and gap of the table until it ends, at READ COMMITTED none of *)
(* the rows that did not match.  E-mail addresses are compared in lower    *)
(* case; a phone number is stored in the +84 form, or in another form by   *)
(* an older release.                                                       *)
(***************************************************************************)
EXTENDS Integers, Sequences, FiniteSets

CONSTANTS
  Customers, Users,
  Requests,
  Ask,         \* what each request asks for
  Arrivals,    \* the sets of requests that may arrive together
  Existing,    \* the account rows of the initial state
  Identified,  \* the customer of each Google subject of the initial state
  Numbers,     \* phone numbers
  Emails,
  Passwords,
  Subjects,    \* Google subjects
  GapLocking,  \* whether locking reads lock gaps: TRUE at REPEATABLE READ
  Nobody,      \* no request
  Null         \* no value

Accounts == Customers \cup Users
Forms == {"+84", "0", "84"}
Phones == [number : Numbers \cup {Null}, form : Forms]
Statuses == {"ACTIVE", "LOCKED"}
Row == [exists : BOOLEAN, deleted : BOOLEAN, status : Statuses,
        password : Passwords \cup {Null}, version : Nat,
        email : Emails \cup {Null}, phone : Phones, role : {"ADMIN", "STAFF", "CUSTOMER"}]
Tables == {"customer", "user"}
RowsOf == [customer |-> Customers, user |-> Users]
Kinds == {"login", "register", "google", "me", "profile", "password",
          "initial", "status", "staff", "hire", "normalize"}
Question == [kind : Kinds, tables : SUBSET Tables,
             identifier : Emails \cup Numbers \cup {Null},
             actor : Accounts \cup {Null}, account : Accounts \cup {Null},
             email : Emails \cup {Null}, number : Numbers \cup {Null},
             password : Passwords \cup {Null}, newPassword : Passwords \cup {Null},
             status : Statuses, subject : Subjects \cup {Null}]

ASSUME AccountsAssumption ==
  /\ Customers \cap Users = {} /\ Nobody \notin Requests
  /\ Null \notin Accounts \cup Passwords \cup Emails \cup Numbers \cup Subjects
  /\ Passwords \cap Subjects = {} /\ Emails \cap Numbers = {}
  /\ Ask \in [Requests -> Question]
  /\ Arrivals \subseteq SUBSET Requests
  /\ Existing \in [Accounts -> Row]
  /\ Identified \in [Subjects -> Customers \cup {Null}]
  /\ GapLocking \subseteq BOOLEAN

\* The unique keys and foreign keys hold of the initial rows, and no phone
\* number is stored in two forms.
ASSUME ExistingAssumption ==
  /\ \A s \in Subjects : Identified[s] # Null => Existing[Identified[s]].exists
  /\ \A s, t \in Subjects : Identified[s] = Identified[t] /\ Identified[s] # Null => s = t
  /\ \A a, b \in Customers :
       /\ Existing[a].exists /\ Existing[b].exists /\ a # b
       => /\ Existing[a].phone.number # Existing[b].phone.number
          /\ Existing[a].email # Existing[b].email \/ Existing[a].email = Null
  /\ \A c \in Customers : Existing[c].exists => Existing[c].phone.number # Null

\* What a request needs to make sense, as the input checks of the handlers
\* enforce: a password to set, an account to change, a number to register.
ASSUME RequestAssumption ==
  \A r \in Requests : LET q == Ask[r] IN
    /\ q.kind \in {"register", "hire", "login"} => q.password # Null
    /\ q.kind = "register" => q.number # Null
    /\ q.kind = "hire" => q.email # Null
    /\ q.kind = "google" => q.subject # Null /\ q.email # Null
    /\ q.kind \in {"password", "initial"} => q.newPassword # Null
    /\ q.kind = "initial" => q.account \in Customers
    /\ q.kind = "staff" => q.account \in Users
    /\ q.kind = "status" => q.account \in Accounts
    /\ q.kind \in {"profile", "password"} => q.actor \in Customers
    /\ q.kind = "me" => q.actor \in Accounts
    /\ q.kind \in {"initial", "status", "staff", "hire"} => q.actor \in Users

VARIABLES
  row,         \* the committed account rows
  identity,    \* the customer of each Google subject, Null without one
  audit,       \* the audit records of each account's status changes
  tokens,      \* the access tokens handed out
  gapLocks,    \* whether this database locks gaps
  rowHolder,   \* the request whose transaction holds each account's row
  scanHolder,  \* the request whose transaction holds each table with its gaps
  stage,       \* how far the handling of each request has come
  seen,        \* the account rows each request has read
  outcome      \* what each request came to

data == <<row, identity, audit, tokens>>
locks == <<gapLocks, rowHolder, scanHolder>>
vars == <<data, locks, stage, seen, outcome>>

\* What a request knows of an account it has read.  "since" tells which
\* status changes came before.
Entry(a) == [account |-> a, status |-> row[a].status, password |-> row[a].password,
             version |-> row[a].version, since |-> Len(audit[a])]

Token(e, by) == [account |-> e.account, version |-> e.version, since |-> e.since, by |-> by]

Init ==
  /\ row = Existing
  /\ identity = Identified
  /\ audit = [a \in Accounts |-> <<>>]
  /\ tokens = {Token(Entry(a), row[a].password) :
                 a \in {b \in Accounts : row[b].exists /\ row[b].password # Null}}
  /\ gapLocks \in GapLocking
  /\ rowHolder = [a \in Accounts |-> Nobody]
  /\ scanHolder = [t \in Tables |-> Nobody]
  /\ \E arriving \in Arrivals :
       stage = [r \in Requests |-> IF r \in arriving THEN "new" ELSE "done"]
  /\ seen = [r \in Requests |-> {}]
  /\ outcome = [r \in Requests |-> "none"]

-----------------------------------------------------------------------------
(* Rows, lookups and locks *)

Visible(a) == row[a].exists /\ ~row[a].deleted

HasEmail(a, email) == email # Null /\ row[a].email = email

\* Mutant of HasPhone: only the form in which numbers are stored today.
HasStoredPhone(a, number) ==
  number # Null /\ row[a].phone = [number |-> number, form |-> "+84"]

\* The lookup by phone takes every form a number may be stored in.
HasPhone(a, number) == number # Null /\ row[a].phone.number = number

HasIdentifier(a, i) == Visible(a) /\ (HasEmail(a, i) \/ HasPhone(a, i))

Taken(table, self, email, number) ==
  \E a \in table \ {self} : Visible(a) /\ (HasEmail(a, email) \/ HasPhone(a, number))

\* The unique keys compare what is stored, deleted rows included.
EmailIsDuplicate(table, self, email) ==
  \E a \in table \ {self} : row[a].exists /\ HasEmail(a, email)
PhoneIsDuplicate(table, self, number) ==
  \E a \in table \ {self} : /\ row[a].exists
                            /\ number # Null
                            /\ row[a].phone = [number |-> number, form |-> "+84"]
IsDuplicate(table, self, email, number) ==
  EmailIsDuplicate(table, self, email) \/ PhoneIsDuplicate(table, self, number)

TableIsFree(table, r) == scanHolder[table] \in {Nobody, r}

\* Mutant of RowIsFree: the account is read without a lock.
RowIsAlwaysFree(a, r) == a \in Accounts /\ r \in Requests

RowIsFree(a, r) ==
  /\ rowHolder[a] \in {Nobody, r}
  /\ \A table \in Tables : a \in RowsOf[table] => TableIsFree(table, r)

Release(r) ==
  /\ rowHolder' = [a \in Accounts |-> IF rowHolder[a] = r THEN Nobody ELSE rowHolder[a]]
  /\ scanHolder' = [t \in Tables |-> IF scanHolder[t] = r THEN Nobody ELSE scanHolder[t]]
  /\ UNCHANGED gapLocks

\* The request is answered, and its transaction, if any, is over.
Answer(r, what) ==
  /\ stage' = [stage EXCEPT ![r] = "done"]
  /\ outcome' = [outcome EXCEPT ![r] = what]
  /\ seen' = [seen EXCEPT ![r] = {}]
  /\ Release(r)

Continue(r, next, entries) ==
  /\ stage' = [stage EXCEPT ![r] = next]
  /\ seen' = [seen EXCEPT ![r] = entries]
  /\ UNCHANGED outcome

At(r, kind, where) == Ask[r].kind = kind /\ stage[r] = where

NewRow(q, password, role) ==
  [exists |-> TRUE, deleted |-> FALSE, status |-> "ACTIVE", password |-> password,
   version |-> 0, email |-> q.email,
   phone |-> [number |-> q.number, form |-> "+84"], role |-> role]

-----------------------------------------------------------------------------
(* Tokens and the requests that carry one *)

\* The version of the token must be that of the account, which must not be
\* locked; the role is that of the account, not that of the token.
Resolves(t) ==
  /\ Visible(t.account)
  /\ row[t.account].version = t.version
  /\ row[t.account].status # "LOCKED"

\* The kind of account an endpoint is for, and the roles of its users.
Actors(kind) ==
  CASE kind \in {"profile", "password"} -> Customers
    [] kind = "me" -> Accounts
    [] OTHER -> Users
Roles(kind) == IF kind = "initial" THEN {"ADMIN", "STAFF"} ELSE {"ADMIN"}

NeedsToken(r) == Ask[r].kind \notin {"login", "register", "google", "normalize"}

\* A token that is of age, or was not signed here, is refused as well.
Authenticate(r) ==
  /\ NeedsToken(r) /\ stage[r] = "new"
  /\ LET kind == Ask[r].kind
         admitted(t) == /\ Resolves(t) /\ t.account \in Actors(kind)
                        /\ t.account \in Users /\ kind # "me" => row[t.account].role \in Roles(kind)
     IN \/ \E t \in tokens : /\ t.account = Ask[r].actor /\ admitted(t)
                            /\ Continue(r, "admitted", {}) /\ UNCHANGED locks
        \/ Answer(r, "refused")
  /\ UNCHANGED data

\* Who am I: the account is read once more.
GetMe(r) ==
  /\ At(r, "me", "admitted")
  /\ LET a == Ask[r].actor
     IN Answer(r, IF Visible(a) /\ row[a].status # "LOCKED" THEN "ok" ELSE "refused")
  /\ UNCHANGED data

-----------------------------------------------------------------------------
(* Logging in with a password *)

\* The rows are read, and the password is verified while anything may change.
FindAccounts(r) ==
  /\ At(r, "login", "new")
  /\ LET q == Ask[r]
         found(table) == {a \in table : HasIdentifier(a, q.identifier)}
     IN \E c \in SUBSET found(Customers), u \in SUBSET found(Users) :
          /\ Cardinality(c) = IF "customer" \in q.tables /\ found(Customers) # {} THEN 1 ELSE 0
          /\ Cardinality(u) = IF "user" \in q.tables /\ found(Users) # {} THEN 1 ELSE 0
          /\ Continue(r, "verifying", {Entry(a) : a \in c \cup u})
  /\ UNCHANGED <<data, locks>>

\* An account without a password is verified against a dummy, and fails.
Verified(password, e) == e.password # Null /\ e.password = password

LoggedIn(r, table) ==
  {e \in seen[r] : e.account \in table /\ e.status = "ACTIVE" /\ Verified(Ask[r].password, e)}

\* The token is signed with the version that was read with the password; a
\* user takes precedence over a customer.
AnswerLogin(r) ==
  /\ At(r, "login", "verifying")
  /\ LET as == IF LoggedIn(r, Users) # {} THEN LoggedIn(r, Users) ELSE LoggedIn(r, Customers)
     IN IF as = {}
        THEN Answer(r, "refused") /\ UNCHANGED tokens
        ELSE \E e \in as : /\ tokens' = tokens \cup {Token(e, Ask[r].password)}
                           /\ Answer(r, "token")
  /\ UNCHANGED <<row, identity, audit>>

-----------------------------------------------------------------------------
(* Registering, and users that an administrator creates *)

RegisterLookUp(r) ==
  /\ At(r, "register", "new")
  /\ IF Taken(Customers, Null, Ask[r].email, Ask[r].number)
     THEN Answer(r, "conflict")
     ELSE Continue(r, "checked", {}) /\ UNCHANGED locks
  /\ UNCHANGED data

CreateUserLookUp(r) ==
  /\ At(r, "hire", "admitted")
  /\ IF Taken(Users, Null, Ask[r].email, Ask[r].number)
     THEN Answer(r, "conflict")
     ELSE Continue(r, "checked", {}) /\ UNCHANGED locks
  /\ UNCHANGED data

\* The password has been hashed; the row is inserted.
InsertAccount(r, table, role) ==
  /\ TableIsFree(table, r)
  /\ IF IsDuplicate(RowsOf[table], Null, Ask[r].email, Ask[r].number)
     THEN Answer(r, "conflict") /\ UNCHANGED row
     ELSE \E a \in RowsOf[table] :
            /\ ~row[a].exists
            /\ row' = [row EXCEPT ![a] = NewRow(Ask[r], Ask[r].password, role)]
            /\ Answer(r, "ok")
  /\ UNCHANGED <<identity, audit, tokens>>

RegisterCustomer(r) ==
  At(r, "register", "checked") /\ InsertAccount(r, "customer", "CUSTOMER")

CreateUser(r) == At(r, "hire", "checked") /\ InsertAccount(r, "user", "STAFF")

-----------------------------------------------------------------------------
(* Logging in with Google *)

FindIdentity(r) ==
  /\ Ask[r].kind = "google" /\ stage[r] \in {"new", "raced"}
  /\ LET c == identity[Ask[r].subject]
     IN IF c # Null
        THEN Continue(r, "existing", {Entry(c)}) /\ UNCHANGED locks
        ELSE IF stage[r] = "new"
        THEN Continue(r, "unknown", {}) /\ UNCHANGED locks
        ELSE Answer(r, "failed")
  /\ UNCHANGED data

\* The customer of the identity is read again, and the token signed at once.
GoogleToken(r, c) ==
  IF Visible(c) /\ row[c].status = "ACTIVE"
  THEN /\ tokens' = tokens \cup {Token(Entry(c), Ask[r].subject)}
       /\ Answer(r, "token")
  ELSE Answer(r, "refused") /\ UNCHANGED tokens

LoginExistingGoogleCustomer(r) ==
  /\ At(r, "google", "existing")
  /\ \E e \in seen[r] : GoogleToken(r, e.account)
  /\ UNCHANGED <<row, identity, audit>>

\* Mutant of GoogleLookUp: the identity is linked to the customer that has
\* the e-mail.
GoogleLookUpLinks(r) ==
  /\ At(r, "google", "unknown")
  /\ \E c \in Customers :
       /\ row[c].exists /\ HasEmail(c, Ask[r].email)
       /\ identity' = [identity EXCEPT ![Ask[r].subject] = c]
  /\ Answer(r, "conflict")
  /\ UNCHANGED <<row, audit, tokens>>

GoogleLookUp(r) ==
  /\ At(r, "google", "unknown")
  /\ IF \E c \in Customers : row[c].exists /\ HasEmail(c, Ask[r].email)
     THEN Answer(r, "conflict")
     ELSE IF Ask[r].number = Null
     THEN Answer(r, "phone required")
     ELSE Continue(r, "transaction", {}) /\ UNCHANGED locks
  /\ UNCHANGED data

\* The transaction finds that the identity has been created meanwhile.
GoogleFindsIdentity(r) ==
  /\ At(r, "google", "transaction")
  /\ identity[Ask[r].subject] # Null
  /\ GoogleToken(r, identity[Ask[r].subject])
  /\ UNCHANGED <<row, identity, audit>>

\* It has not: locking reads of all customers by e-mail, and of the phone in
\* any of its forms.
GoogleTransaction(r) ==
  /\ At(r, "google", "transaction")
  /\ \A c \in Customers : RowIsFree(c, r)
  /\ LET q == Ask[r]
     IN /\ identity[q.subject] = Null
        /\ IF \E c \in Customers : row[c].exists /\ (HasEmail(c, q.email) \/ HasPhone(c, q.number))
           THEN Answer(r, "conflict")
           ELSE /\ Continue(r, "inserting", {})
                /\ scanHolder' = [scanHolder EXCEPT !.customer = IF gapLocks THEN r ELSE @]
                /\ UNCHANGED <<gapLocks, rowHolder>>
  /\ UNCHANGED data

\* The customer and then the identity are inserted.  The duplicate key that
\* an insert meets decides how the request goes on.
GoogleCreate(r) ==
  /\ At(r, "google", "inserting")
  /\ TableIsFree("customer", r)
  /\ LET q == Ask[r]
     IN IF IsDuplicate(Customers, Null, q.email, q.number)
        THEN Answer(r, "conflict") /\ UNCHANGED <<row, identity, tokens>>
        ELSE IF identity[q.subject] # Null
        THEN /\ Continue(r, "raced", {}) /\ Release(r)
             /\ UNCHANGED <<row, identity, tokens>>
        ELSE \E c \in Customers :
               /\ ~row[c].exists
               /\ row' = [row EXCEPT ![c] = NewRow(q, Null, "CUSTOMER")]
               /\ identity' = [identity EXCEPT ![q.subject] = c]
               /\ tokens' = tokens \cup {[account |-> c, version |-> 0,
                                          since |-> Len(audit[c]), by |-> q.subject]}
               /\ Answer(r, "token")
  /\ UNCHANGED audit

\* Both transactions hold the gap that the identity belongs in: InnoDB
\* rolls one of them back, and its request fails.
GoogleDeadlock(r) ==
  /\ gapLocks
  /\ Ask[r].kind = "google" /\ stage[r] \in {"transaction", "inserting"}
  /\ \E s \in Requests \ {r} :
       /\ Ask[s].kind = "google" /\ stage[s] \in {"transaction", "inserting"}
       /\ scanHolder.customer \in {r, s}
  /\ Answer(r, "failed")
  /\ UNCHANGED data

-----------------------------------------------------------------------------
(* A customer changes the profile *)

\* Without a transaction: the account is read, the new e-mail and phone are
\* looked up, and the update applies to the account as it was read.
ReadProfile(r) ==
  /\ At(r, "profile", "admitted")
  /\ LET a == Ask[r].actor
     IN IF ~Visible(a) \/ row[a].status = "LOCKED"
        THEN Answer(r, "refused")
        ELSE Continue(r, "read", {Entry(a)}) /\ UNCHANGED locks
  /\ UNCHANGED data

AssertContactAvailable(r) ==
  /\ At(r, "profile", "read")
  /\ IF Taken(Customers, Ask[r].actor, Ask[r].email, Ask[r].number)
     THEN Answer(r, "conflict")
     ELSE Continue(r, "checked", seen[r]) /\ UNCHANGED locks
  /\ UNCHANGED data

WithContact(old, q) ==
  [old EXCEPT !.email = IF q.email = Null THEN @ ELSE q.email,
              !.phone = IF q.number = Null THEN @ ELSE [number |-> q.number, form |-> "+84"]]

UpdateMe(r) ==
  /\ At(r, "profile", "checked")
  /\ LET q == Ask[r]
         a == q.actor
         unchanged == \E e \in seen[r] : /\ row[a].status = "ACTIVE" /\ ~row[a].deleted
                                         /\ row[a].version = e.version
     IN /\ RowIsFree(a, r)
        /\ IF ~unchanged \/ IsDuplicate(Customers, a, q.email, q.number)
           THEN Answer(r, "conflict") /\ UNCHANGED row
           ELSE /\ row' = [row EXCEPT ![a] = WithContact(@, q)]
                /\ Continue(r, "updated", {}) /\ UNCHANGED locks
  /\ UNCHANGED <<identity, audit, tokens>>

\* The answer is read from the account once more, which may be locked by now.
AnswerProfile(r) ==
  /\ At(r, "profile", "updated")
  /\ LET a == Ask[r].actor
     IN Answer(r, IF Visible(a) /\ row[a].status # "LOCKED" THEN "ok" ELSE "refused")
  /\ UNCHANGED data

-----------------------------------------------------------------------------
(* Transactions on one locked account *)

Target(r) == IF Ask[r].kind = "password" THEN Ask[r].actor ELSE Ask[r].account

LockAccount(r) ==
  /\ Ask[r].kind \in {"password", "initial", "status", "staff"} /\ stage[r] = "admitted"
  /\ LET a == Target(r)
     IN IF ~Visible(a)
        THEN Answer(r, "refused")
        ELSE /\ RowIsFree(a, r)
             /\ rowHolder' = [rowHolder EXCEPT ![a] = r]
             /\ Continue(r, "locked", {Entry(a)})
             /\ UNCHANGED <<gapLocks, scanHolder>>
  /\ UNCHANGED data

\* Mutant of WithPassword: the token version is left alone.
WithPasswordAlone(old, e, password) ==
  [old EXCEPT !.password = password, !.version = e.version]

\* A new password takes back every token that was signed for the old one.
WithPassword(old, e, password) ==
  [old EXCEPT !.password = password, !.version = e.version + 1]

ChangeOwnPassword(r) ==
  /\ At(r, "password", "locked")
  /\ LET q == Ask[r]
     IN \E e \in seen[r] :
          IF /\ e.status # "LOCKED"
             /\ Verified(q.password, e)
             /\ q.newPassword # e.password
          THEN /\ row' = [row EXCEPT ![e.account] = WithPassword(@, e, q.newPassword)]
               /\ Answer(r, "ok")
          ELSE Answer(r, "refused") /\ UNCHANGED row
  /\ UNCHANGED <<identity, audit, tokens>>

CanSetInitialPassword(e) == e.password = Null

SetInitialPassword(r) ==
  /\ At(r, "initial", "locked")
  /\ \E e \in seen[r] :
       IF CanSetInitialPassword(e)
       THEN /\ row' = [row EXCEPT ![e.account] = WithPassword(@, e, Ask[r].newPassword)]
            /\ Answer(r, "ok")
       ELSE Answer(r, "conflict") /\ UNCHANGED row
  /\ UNCHANGED <<identity, audit, tokens>>

\* A change of status takes the tokens back too, and is recorded in the same
\* transaction; asking for the status the account has changes nothing.
SaveStatus(r) ==
  /\ At(r, "status", "locked")
  /\ \E e \in seen[r] :
       LET a == e.account
           to == Ask[r].status
       IN IF a = Ask[r].actor /\ to = "LOCKED"
          THEN Answer(r, "refused") /\ UNCHANGED <<row, audit>>
          ELSE /\ IF e.status # to
                  THEN /\ row' = [row EXCEPT ![a].status = to, ![a].version = e.version + 1]
                       /\ audit' = [audit EXCEPT ![a] = Append(@, [from |-> e.status, to |-> to])]
                  ELSE UNCHANGED <<row, audit>>
               /\ Answer(r, "ok")
  /\ UNCHANGED <<identity, tokens>>

\* An administrator changes contact data or password of a user, or makes
\* another user STAFF.
UpdateUser(r) ==
  /\ At(r, "staff", "locked")
  /\ LET q == Ask[r]
     IN \E e \in seen[r], demote \in BOOLEAN :
          LET a == e.account
              contact == WithContact(row[a], q)
              ranked == IF demote THEN [contact EXCEPT !.role = "STAFF"] ELSE contact
          IN IF \/ Taken(Users, a, q.email, q.number) \/ IsDuplicate(Users, a, q.email, q.number)
                \/ demote /\ a = q.actor
             THEN Answer(r, "refused") /\ UNCHANGED row
             ELSE /\ row' = [row EXCEPT ![a] = IF q.newPassword = Null THEN ranked
                                               ELSE WithPassword(ranked, e, q.newPassword)]
                  /\ Answer(r, "ok")
  /\ UNCHANGED <<identity, audit, tokens>>

-----------------------------------------------------------------------------
(* The script that rewrites phone numbers of older releases *)

\* Records in another form are to be changed; two records of one table with
\* one number cannot be.
Changing(as) == {a \in as : row[a].phone.number # Null /\ row[a].phone.form # "+84"}
Colliding(as) ==
  \E table \in Tables : \E a, b \in as \cap RowsOf[table] :
    a # b /\ row[a].phone.number # Null /\ HasPhone(b, row[a].phone.number)
Stored(as) == {a \in as : row[a].exists}
Read(r) == {e.account : e \in seen[r]}

\* First without a lock and without a transaction.
Preflight(r) ==
  /\ At(r, "normalize", "new")
  /\ LET as == Stored(Accounts)
     IN IF Colliding(as) THEN Answer(r, "refused")
        ELSE IF Changing(as) = {} THEN Answer(r, "ok")
        ELSE Continue(r, "planned", {}) /\ UNCHANGED locks
  /\ UNCHANGED data

\* All users and then all customers are read with locks.
LockTable(r, table, where, next) ==
  /\ At(r, "normalize", where)
  /\ \A a \in RowsOf[table] : RowIsFree(a, r)
  /\ LET as == Stored(RowsOf[table])
     IN /\ rowHolder' = [a \in Accounts |-> IF a \in as THEN r ELSE rowHolder[a]]
        /\ scanHolder' = [scanHolder EXCEPT ![table] = IF gapLocks THEN r ELSE @]
        /\ Continue(r, next, seen[r] \cup {Entry(a) : a \in as})
  /\ UNCHANGED <<data, gapLocks>>

\* What was read decides; a key that is duplicate by now undoes everything.
ApplyPlan(r) ==
  /\ At(r, "normalize", "customers locked")
  /\ LET as == Changing(Read(r))
         duplicate(a) == \E table \in Tables :
           a \in RowsOf[table] /\ PhoneIsDuplicate(RowsOf[table], a, row[a].phone.number)
     IN IF Colliding(Read(r)) \/ \E a \in as : duplicate(a)
        THEN Answer(r, "refused") /\ UNCHANGED row
        ELSE /\ row' = [a \in Accounts |-> IF a \in as THEN [row[a] EXCEPT !.phone.form = "+84"]
                                          ELSE row[a]]
             /\ Answer(r, "ok")
  /\ UNCHANGED <<identity, audit, tokens>>

NormalizePhones(r) ==
  \/ Preflight(r) \/ LockTable(r, "user", "planned", "users locked")
  \/ LockTable(r, "customer", "users locked", "customers locked") \/ ApplyPlan(r)

-----------------------------------------------------------------------------
Login(r) == FindAccounts(r) \/ AnswerLogin(r)
Create(r) == RegisterLookUp(r) \/ CreateUserLookUp(r) \/ RegisterCustomer(r) \/ CreateUser(r)
LoginWithGoogle(r) ==
  \/ FindIdentity(r) \/ LoginExistingGoogleCustomer(r) \/ GoogleLookUp(r)
  \/ GoogleFindsIdentity(r) \/ GoogleTransaction(r) \/ GoogleCreate(r) \/ GoogleDeadlock(r)
ChangeProfile(r) ==
  ReadProfile(r) \/ AssertContactAvailable(r) \/ UpdateMe(r) \/ AnswerProfile(r)
ChangeAccount(r) ==
  \/ LockAccount(r) \/ ChangeOwnPassword(r) \/ SetInitialPassword(r)
  \/ SaveStatus(r) \/ UpdateUser(r)

Next == \E r \in Requests :
  \/ Authenticate(r) \/ GetMe(r) \/ Login(r) \/ Create(r) \/ LoginWithGoogle(r)
  \/ ChangeProfile(r) \/ ChangeAccount(r) \/ NormalizePhones(r)

Spec == Init /\ [][Next]_vars
=============================================================================
