---------------------------- MODULE AccountsProofs ----------------------------
(***************************************************************************)
(* What holds of accounts, credentials and tokens for any number of        *)
(* accounts and requests, at either isolation level.                       *)
(*                                                                         *)
(* Passwords and statuses are changed only under the lock of the account's *)
(* row, and with each change the version goes up; so what a token or a     *)
(* request knows of an account is still true as long as it has the         *)
(* account's version.  Phone numbers are never written in an old form, so  *)
(* a number that was looked up once is guarded by the unique key alone.    *)
(***************************************************************************)
EXTENDS AccountsProperties, TLAPS

\* What was read of an account and has its version is true of it.
EntryIsTrue(e) ==
  /\ row[e.account].exists /\ e.version <= row[e.account].version
  /\ e.version = row[e.account].version =>
       /\ e.password = row[e.account].password /\ e.status = row[e.account].status
       /\ e.since = Len(audit[e.account])

TokenIsTrue(t) ==
  /\ row[t.account].exists /\ t.version <= row[t.account].version
  /\ t.version = row[t.account].version =>
       /\ t.by \notin Subjects => row[t.account].password = t.by
       /\ t.since = Len(audit[t.account])
  /\ t.by \in Subjects => identity[t.by] = t.account

\* A transaction on one account holds its row, and knows it as it is.
RowIsKnown(r) ==
  stage[r] = "locked" =>
    /\ Target(r) \in Accounts /\ rowHolder[Target(r)] = r /\ row[Target(r)].exists
    /\ seen[r] = {Entry(Target(r))}

IdentityIsKnown(r) ==
  stage[r] = "existing" =>
    Ask[r].kind = "google" /\ \A e \in seen[r] : identity[Ask[r].subject] = e.account

CredentialInv ==
  /\ \A t \in tokens : TokenIsTrue(t)
  /\ \A r \in Requests : \A e \in seen[r] : EntryIsTrue(e)
  /\ \A r \in Requests : RowIsKnown(r) /\ IdentityIsKnown(r)
  /\ \A s \in Subjects : identity[s] # Null => row[identity[s]].exists

\* An account that does not exist has no history.
AuditInv ==
  /\ AuditTellsStatus
  /\ \A a \in Accounts : ~row[a].exists => audit[a] = <<>> /\ ~Existing[a].exists

\* The account has the number, in a form that no unique key compares.
HasOldForm(a, number) ==
  Visible(a) /\ row[a].phone.number = number /\ row[a].phone.form # "+84"

\* A request that has looked up a number for an account knows that no other
\* account has it in an old form.
NumberIsKnown(r) ==
  /\ \/ Ask[r].kind = "register" /\ stage[r] = "checked"
     \/ Ask[r].kind = "google" /\ stage[r] = "inserting"
     => \A c \in Customers : ~HasOldForm(c, Ask[r].number)
  /\ Ask[r].kind = "profile" /\ stage[r] = "checked" /\ Ask[r].number # Null
     => \A c \in Customers \ {Ask[r].actor} : ~HasOldForm(c, Ask[r].number)
  /\ Ask[r].kind = "google" /\ stage[r] \in {"transaction", "inserting"}
     => Ask[r].number # Null

PhoneInv ==
  /\ OnePersonPerPhone
  /\ \A c \in Customers : row[c].exists => row[c].phone.number # Null
  /\ \A r \in Requests : NumberIsKnown(r)

\* What the request r may do.
Step(r) ==
  \/ Authenticate(r) \/ GetMe(r) \/ Login(r) \/ Create(r) \/ LoginWithGoogle(r)
  \/ ChangeProfile(r) \/ ChangeAccount(r) \/ NormalizePhones(r)

-----------------------------------------------------------------------------
(* Type correctness *)

LEMMA EntryTypes ==
  ASSUME DataTypes, NEW a \in Accounts
  PROVE  /\ Entry(a) \in EntryType
         /\ row[a].password # Null => Token(Entry(a), row[a].password) \in TokenType
         /\ \A s \in Subjects : Token(Entry(a), s) \in TokenType
         /\ Len(audit[a]) \in Nat
  <1>1. Len(audit[a]) \in Nat /\ row[a] \in Row
    BY DEF DataTypes
  <1> QED BY <1>1 DEF Entry, Token, EntryType, TokenType, Row

LEMMA AnswerTypes ==
  ASSUME ControlTypes, NEW r \in Requests, NEW what \in Outcomes, Answer(r, what)
  PROVE  ControlTypes'
  BY DEF ControlTypes, Answer, Release, Stages

LEMMA ContinueTypes ==
  ASSUME ControlTypes, NEW r \in Requests, NEW next \in Stages,
         NEW entries \in SUBSET EntryType, Continue(r, next, entries),
         \/ UNCHANGED locks
         \/ Release(r)
         \/ /\ gapLocks' = gapLocks
            /\ rowHolder' \in [Accounts -> Requests \cup {Nobody}]
            /\ scanHolder' \in [Tables -> Requests \cup {Nobody}]
  PROVE  ControlTypes'
  BY DEF ControlTypes, Continue, locks, Release

LEMMA NewRowTypes ==
  ASSUME NEW r \in Requests, NEW password \in Passwords \cup {Null},
         NEW role \in {"ADMIN", "STAFF", "CUSTOMER"}
  PROVE  NewRow(Ask[r], password, role) \in Row
  <1>1. Ask[r].email \in Emails \cup {Null} /\ Ask[r].number \in Numbers \cup {Null}
    BY AccountsAssumption DEF Question
  <1> QED BY <1>1 DEF NewRow, Row, Statuses, Phones, Forms

LEMMA ContactTypes ==
  ASSUME NEW old \in Row, NEW r \in Requests
  PROVE  /\ WithContact(old, Ask[r]) \in Row
         /\ WithContact(old, Ask[r]) =
              [old EXCEPT !.email = WithContact(old, Ask[r]).email,
                          !.phone = WithContact(old, Ask[r]).phone]
  <1>1. Ask[r].email \in Emails \cup {Null} /\ Ask[r].number \in Numbers \cup {Null}
    BY AccountsAssumption DEF Question
  <1> QED BY <1>1 DEF WithContact, Row, Phones, Forms

\* The statements that change no row.
LEMMA ReadTypes ==
  ASSUME TypeOK, NEW r \in Requests,
         \/ Authenticate(r) \/ GetMe(r) \/ FindAccounts(r) \/ RegisterLookUp(r)
         \/ CreateUserLookUp(r) \/ FindIdentity(r) \/ GoogleLookUp(r) \/ GoogleTransaction(r)
         \/ GoogleDeadlock(r) \/ ReadProfile(r) \/ AssertContactAvailable(r)
         \/ AnswerProfile(r) \/ LockAccount(r) \/ Preflight(r)
         \/ LockTable(r, "user", "planned", "users locked")
         \/ LockTable(r, "customer", "users locked", "customers locked")
  PROVE  TypeOK'
  <1> USE DEF TypeOK
  <1>0. DataTypes'
    BY DEF DataTypes, data, Authenticate, GetMe, FindAccounts, RegisterLookUp, CreateUserLookUp,
           FindIdentity, GoogleLookUp, GoogleTransaction, GoogleDeadlock, ReadProfile,
           AssertContactAvailable, AnswerProfile, LockAccount, Preflight, LockTable
  <1>1. \A S \in SUBSET Accounts : {Entry(a) : a \in S} \in SUBSET EntryType
    BY EntryTypes
  <1>2. /\ Ask[r].actor \in Accounts \cup {Null} /\ Ask[r].account \in Accounts \cup {Null}
        /\ NeedsToken(r) => Ask[r].actor \in Accounts
        /\ Ask[r].kind = "google" => Ask[r].subject \in Subjects
        /\ Ask[r].kind \in {"password", "initial", "status", "staff"} => Target(r) \in Accounts
    BY AccountsAssumption, RequestAssumption
       DEF Question, NeedsToken, Kinds, Target, Accounts
  <1>3. {} \in SUBSET EntryType /\ seen[r] \in SUBSET EntryType
    BY DEF ControlTypes
  <1>4. CASE Authenticate(r) \/ GetMe(r) \/ RegisterLookUp(r) \/ CreateUserLookUp(r)
    <2>1. \/ \E what \in Outcomes : Answer(r, what)
          \/ UNCHANGED locks /\ \E next \in Stages : Continue(r, next, {})
      BY <1>4 DEF Authenticate, GetMe, RegisterLookUp, CreateUserLookUp, Outcomes, Stages
    <2> QED BY <1>0, <1>3, <2>1, AnswerTypes, ContinueTypes
  <1>5. CASE FindAccounts(r)
    <2>1. PICK c \in SUBSET Customers, u \in SUBSET Users :
            Continue(r, "verifying", {Entry(a) : a \in c \cup u})
      BY <1>5 DEF FindAccounts
    <2>2. {Entry(a) : a \in c \cup u} \in SUBSET EntryType
      BY <1>1 DEF Accounts
    <2>3. UNCHANGED locks
      BY <1>5 DEF FindAccounts
    <2> QED BY <1>0, <2>1, <2>2, <2>3, ContinueTypes DEF Stages
  <1>6. CASE FindIdentity(r)
    <2>1. identity[Ask[r].subject] # Null => {Entry(identity[Ask[r].subject])} \in SUBSET EntryType
      BY <1>2, <1>6, EntryTypes DEF FindIdentity, DataTypes, Accounts
    <2>2. \/ Answer(r, "failed")
          \/ UNCHANGED locks /\ \E next \in Stages, S \in SUBSET EntryType : Continue(r, next, S)
      BY <1>3, <1>6, <2>1 DEF FindIdentity, Stages
    <2> QED BY <1>0, <2>2, AnswerTypes, ContinueTypes DEF Outcomes
  <1>7. CASE GoogleLookUp(r) \/ GoogleDeadlock(r) \/ AnswerProfile(r) \/ Preflight(r)
    <2>1. \/ \E what \in Outcomes : Answer(r, what)
          \/ UNCHANGED locks /\ \E next \in Stages : Continue(r, next, {})
      BY <1>7 DEF GoogleLookUp, GoogleDeadlock, AnswerProfile, Preflight, Outcomes, Stages
    <2> QED BY <1>0, <1>3, <2>1, AnswerTypes, ContinueTypes
  <1>8. CASE GoogleTransaction(r)
    <2>1. CASE Answer(r, "conflict")
      BY <1>0, <2>1, AnswerTypes DEF Outcomes
    <2>2. CASE Continue(r, "inserting", {}) /\ UNCHANGED <<gapLocks, rowHolder>>
               /\ scanHolder' = [scanHolder EXCEPT !.customer = IF gapLocks THEN r ELSE @]
      <3>1. scanHolder' \in [Tables -> Requests \cup {Nobody}]
        BY <2>2 DEF ControlTypes, Tables
      <3> QED BY <1>0, <1>3, <2>2, <3>1, ContinueTypes DEF Stages, ControlTypes
    <2> QED BY <1>8, <2>1, <2>2 DEF GoogleTransaction
  <1>9. CASE ReadProfile(r) \/ AssertContactAvailable(r)
    <2>1. Entry(Ask[r].actor) \in EntryType
      BY <1>2, <1>9, EntryTypes DEF ReadProfile, AssertContactAvailable, At, NeedsToken
    <2>2. \/ \E what \in Outcomes : Answer(r, what)
          \/ UNCHANGED locks /\ \E next \in Stages, S \in SUBSET EntryType : Continue(r, next, S)
      BY <1>3, <1>9, <2>1 DEF ReadProfile, AssertContactAvailable, Stages, Outcomes
    <2> QED BY <1>0, <2>2, AnswerTypes, ContinueTypes
  <1>10. CASE LockAccount(r)
    <2>1. CASE Answer(r, "refused")
      BY <1>0, <2>1, AnswerTypes DEF Outcomes
    <2>2. CASE /\ rowHolder' = [rowHolder EXCEPT ![Target(r)] = r]
               /\ Continue(r, "locked", {Entry(Target(r))})
               /\ UNCHANGED <<gapLocks, scanHolder>>
      <3>1. {Entry(Target(r))} \in SUBSET EntryType
        BY <1>2, <1>10, EntryTypes DEF LockAccount
      <3>2. rowHolder' \in [Accounts -> Requests \cup {Nobody}]
        BY <2>2 DEF ControlTypes
      <3>3. "locked" \in Stages /\ ControlTypes /\ scanHolder' \in [Tables -> Requests \cup {Nobody}]
        BY <2>2 DEF Stages, ControlTypes
      <3> QED BY <1>0, <2>2, <3>1, <3>2, <3>3, ContinueTypes
    <2> QED BY <1>10, <2>1, <2>2 DEF LockAccount
  <1>11. ASSUME NEW table \in Tables, NEW where \in Stages, NEW next \in Stages,
                LockTable(r, table, where, next)
         PROVE  TypeOK'
    <2> DEFINE as == Stored(RowsOf[table])
               entries == seen[r] \cup {Entry(a) : a \in as}
    <2>1. RowsOf[table] \subseteq Accounts /\ as \subseteq Accounts
      <3>1. RowsOf[table] = Customers \/ RowsOf[table] = Users
        <4>1. RowsOf["customer"] = Customers /\ RowsOf["user"] = Users
          BY DEF RowsOf
        <4> QED BY <4>1 DEF Tables
      <3> QED BY <3>1 DEF Accounts, Stored
    <2>2. entries \in SUBSET EntryType
      BY <1>1, <1>3, <2>1
    <2>3. rowHolder' \in [Accounts -> Requests \cup {Nobody}]
      BY <1>11 DEF LockTable, ControlTypes
    <2>4. scanHolder' \in [Tables -> Requests \cup {Nobody}]
      BY <1>11 DEF LockTable, ControlTypes
    <2>5. Continue(r, next, entries) /\ gapLocks' = gapLocks
      BY <1>11 DEF LockTable
    <2> HIDE DEF entries
    <2> QED BY <1>0, <2>2, <2>3, <2>4, <2>5, ContinueTypes
  <1> QED BY <1>4, <1>5, <1>6, <1>7, <1>8, <1>9, <1>10, <1>11 DEF Stages, Tables

\* Those that hand out a token, and those that write a row.
LEMMA TokenTypes ==
  ASSUME TypeOK, NEW r \in Requests,
         AnswerLogin(r) \/ LoginExistingGoogleCustomer(r) \/ GoogleFindsIdentity(r)
  PROVE  TypeOK'
  <1> USE DEF TypeOK
  <1>1. CASE AnswerLogin(r)
    <2>1. \A e \in seen[r] : e \in EntryType
      BY DEF ControlTypes
    <2>2. Ask[r].password \in Passwords
      BY <1>1, AccountsAssumption, RequestAssumption DEF AnswerLogin, At, Question
    <2>3. \A e \in seen[r] : Token(e, Ask[r].password) \in TokenType
      BY <2>1, <2>2 DEF Token, EntryType, TokenType
    <2>4. tokens' \subseteq TokenType
      BY <1>1, <2>3 DEF AnswerLogin, LoggedIn, DataTypes
    <2>5. \E what \in Outcomes : Answer(r, what)
      BY <1>1 DEF AnswerLogin, Outcomes
    <2> QED BY <1>1, <2>4, <2>5, AnswerTypes DEF AnswerLogin, DataTypes
  <1>2. ASSUME NEW c \in Accounts, GoogleToken(r, c), UNCHANGED <<row, identity, audit>>,
               Ask[r].kind = "google"
        PROVE  TypeOK'
    <2>1. Token(Entry(c), Ask[r].subject) \in TokenType
      BY <1>2, EntryTypes, AccountsAssumption, RequestAssumption DEF Question, Accounts
    <2>2. tokens' \subseteq TokenType
      BY <1>2, <2>1 DEF GoogleToken, DataTypes
    <2>3. \E what \in Outcomes : Answer(r, what)
      BY <1>2 DEF GoogleToken, Outcomes
    <2> QED BY <1>2, <2>2, <2>3, AnswerTypes DEF DataTypes
  <1>3. CASE LoginExistingGoogleCustomer(r)
    <2>1. PICK e \in seen[r] : GoogleToken(r, e.account)
      BY <1>3 DEF LoginExistingGoogleCustomer
    <2>2. e.account \in Accounts
      BY DEF ControlTypes, EntryType
    <2> QED BY <1>2, <1>3, <2>1, <2>2 DEF LoginExistingGoogleCustomer, At
  <1>4. CASE GoogleFindsIdentity(r)
    <2>1. identity[Ask[r].subject] \in Accounts
      BY <1>4, AccountsAssumption, RequestAssumption
         DEF GoogleFindsIdentity, DataTypes, Accounts, At, Question
    <2> QED BY <1>2, <1>4, <2>1 DEF GoogleFindsIdentity, At
  <1> QED BY <1>1, <1>3, <1>4

LEMMA CreationTypes ==
  ASSUME TypeOK, NEW r \in Requests, RegisterCustomer(r) \/ CreateUser(r) \/ GoogleCreate(r)
  PROVE  TypeOK'
  <1> USE DEF TypeOK
  <1>1. /\ Ask[r].kind \in {"register", "hire"} => Ask[r].password \in Passwords
        /\ Ask[r].kind = "google" => Ask[r].subject \in Subjects
    BY AccountsAssumption, RequestAssumption DEF Question
  <1>2. ASSUME NEW table \in Tables, NEW role \in {"STAFF", "CUSTOMER"},
               Ask[r].password \in Passwords, InsertAccount(r, table, role)
        PROVE  TypeOK'
    <2>1. NewRow(Ask[r], Ask[r].password, role) \in Row
      BY <1>2, NewRowTypes
    <2>2. row' \in [Accounts -> Row]
      BY <1>2, <2>1 DEF InsertAccount, DataTypes
    <2>3. \E what \in Outcomes : Answer(r, what)
      BY <1>2 DEF InsertAccount, Outcomes
    <2> QED BY <1>2, <2>2, <2>3, AnswerTypes DEF InsertAccount, DataTypes
  <1>3. CASE RegisterCustomer(r) \/ CreateUser(r)
    BY <1>1, <1>2, <1>3 DEF RegisterCustomer, CreateUser, At, Tables
  <1>4. CASE GoogleCreate(r)
    <2>1. CASE Answer(r, "conflict") /\ UNCHANGED <<row, identity, tokens>>
      BY <1>4, <2>1, AnswerTypes DEF GoogleCreate, DataTypes, Outcomes
    <2>2. CASE Continue(r, "raced", {}) /\ Release(r) /\ UNCHANGED <<row, identity, tokens>>
      <3>1. DataTypes'
        BY <1>4, <2>2 DEF GoogleCreate, DataTypes
      <3>2. "raced" \in Stages /\ ControlTypes /\ {} \in SUBSET EntryType
        BY DEF Stages
      <3> QED BY <2>2, <3>1, <3>2, ContinueTypes
    <2>3. ASSUME NEW c \in Customers,
                 /\ row' = [row EXCEPT ![c] = NewRow(Ask[r], Null, "CUSTOMER")]
                 /\ identity' = [identity EXCEPT ![Ask[r].subject] = c]
                 /\ tokens' = tokens \cup {[account |-> c, version |-> 0,
                                            since |-> Len(audit[c]), by |-> Ask[r].subject]}
                 /\ Answer(r, "token")
          PROVE  TypeOK'
      <3>1. NewRow(Ask[r], Null, "CUSTOMER") \in Row
        BY NewRowTypes
      <3>2. c \in Accounts /\ Len(audit[c]) \in Nat
        BY EntryTypes DEF Accounts
      <3>3. [account |-> c, version |-> 0, since |-> Len(audit[c]), by |-> Ask[r].subject]
              \in TokenType
        BY <1>1, <1>4, <3>2 DEF TokenType, GoogleCreate, At
      <3>4. DataTypes'
        BY <1>4, <2>3, <3>1, <3>3 DEF DataTypes, GoogleCreate
      <3> QED BY <2>3, <3>4, AnswerTypes DEF Outcomes
    <2> QED BY <1>4, <2>1, <2>2, <2>3 DEF GoogleCreate
  <1> QED BY <1>3, <1>4

LEMMA ChangeTypes ==
  ASSUME TypeOK, NEW r \in Requests,
         \/ UpdateMe(r) \/ ChangeOwnPassword(r) \/ SetInitialPassword(r) \/ SaveStatus(r)
         \/ UpdateUser(r) \/ ApplyPlan(r)
  PROVE  TypeOK'
  <1> USE DEF TypeOK
  <1>0. /\ \A e \in seen[r] : e \in EntryType
        /\ \A a \in Accounts : row[a] \in Row
    BY DEF ControlTypes, DataTypes
  <1>1. Ask[r] \in Question
    BY AccountsAssumption
  <1>2. ASSUME NEW a \in Accounts, NEW new \in Row, row' = [row EXCEPT ![a] = new]
        PROVE  row' \in [Accounts -> Row]
    BY <1>2 DEF DataTypes
  <1>3. ASSUME NEW old \in Row, NEW e \in seen[r], NEW password \in Passwords \cup {Null}
        PROVE  WithPassword(old, e, password) \in Row
    <2>1. e.version + 1 \in Nat
      BY <1>0 DEF EntryType
    <2> QED BY <2>1 DEF WithPassword, Row
  <1>4. CASE UpdateMe(r)
    <2>1. Ask[r].actor \in Accounts
      BY <1>4, RequestAssumption DEF UpdateMe, At, Accounts
    <2>2. row' \in [Accounts -> Row]
      <3>1. \/ row' = row
            \/ row' = [row EXCEPT ![Ask[r].actor] = WithContact(row[Ask[r].actor], Ask[r])]
        BY <1>4 DEF UpdateMe
      <3>2. WithContact(row[Ask[r].actor], Ask[r]) \in Row
        BY <1>0, <2>1, ContactTypes
      <3> QED BY <1>2, <2>1, <3>1, <3>2 DEF DataTypes
    <2>3. \/ Answer(r, "conflict")
          \/ Continue(r, "updated", {}) /\ UNCHANGED locks
      BY <1>4 DEF UpdateMe
    <2>4. DataTypes'
      BY <1>4, <2>2 DEF UpdateMe, DataTypes
    <2>5. "updated" \in Stages /\ "conflict" \in Outcomes /\ {} \in SUBSET EntryType
      BY DEF Stages, Outcomes
    <2> QED BY <2>3, <2>4, <2>5, AnswerTypes, ContinueTypes
  <1>5. CASE ChangeOwnPassword(r) \/ SetInitialPassword(r)
    <2>1. PICK e \in seen[r] :
            row' = row \/ row' = [row EXCEPT ![e.account] = WithPassword(@, e, Ask[r].newPassword)]
      BY <1>5 DEF ChangeOwnPassword, SetInitialPassword
    <2>2. e.account \in Accounts /\ Ask[r].newPassword \in Passwords \cup {Null}
      BY <1>0, <1>1 DEF EntryType, Question
    <2>3. WithPassword(row[e.account], e, Ask[r].newPassword) \in Row
      BY <1>0, <1>3, <2>2
    <2>4. DataTypes'
      BY <1>5, <2>1, <2>2, <2>3 DEF DataTypes, ChangeOwnPassword, SetInitialPassword
    <2>5. \E what \in Outcomes : Answer(r, what)
      BY <1>5 DEF ChangeOwnPassword, SetInitialPassword, Outcomes
    <2> QED BY <2>4, <2>5, AnswerTypes
  <1>6. CASE SaveStatus(r)
    <2>1. PICK e \in seen[r] :
            \/ UNCHANGED <<row, audit>>
            \/ /\ row' = [row EXCEPT ![e.account].status = Ask[r].status,
                                    ![e.account].version = e.version + 1]
               /\ audit' = [audit EXCEPT ![e.account] =
                              Append(@, [from |-> e.status, to |-> Ask[r].status])]
      BY <1>6 DEF SaveStatus
    <2>2. /\ e.account \in Accounts /\ e.version + 1 \in Nat
          /\ e.status \in Statuses /\ Ask[r].status \in Statuses
      BY <1>0, <1>1 DEF EntryType, Question
    <2>3. row' \in [Accounts -> Row]
      <3>1. CASE row' = row
        BY <3>1 DEF DataTypes
      <3>2. CASE row' = [row EXCEPT ![e.account].status = Ask[r].status,
                                    ![e.account].version = e.version + 1]
        <4> DEFINE new == [row[e.account] EXCEPT !.status = Ask[r].status, !.version = e.version + 1]
        <4>1. new \in Row
          BY ZenonT(40), <1>0, <2>2 DEF Row
        <4>2. row' = [row EXCEPT ![e.account] = new]
          BY <2>2, <3>2 DEF DataTypes
        <4> QED BY <1>2, <2>2, <4>1, <4>2
      <3> QED BY <2>1, <3>1, <3>2
    <2>4. audit' \in [Accounts -> Seq([from : Statuses, to : Statuses])]
      <3> DEFINE record == [from |-> e.status, to |-> Ask[r].status]
      <3>1. record \in [from : Statuses, to : Statuses]
        BY <2>2
      <3>2. audit[e.account] \in Seq([from : Statuses, to : Statuses])
        BY <2>2 DEF DataTypes
      <3>3. Append(audit[e.account], record) \in Seq([from : Statuses, to : Statuses])
        BY <3>1, <3>2
      <3> HIDE DEF record
      <3>4. audit' = audit \/ audit' = [audit EXCEPT ![e.account] = Append(audit[e.account], record)]
        BY <2>1 DEF record
      <3> QED BY <3>3, <3>4 DEF DataTypes
    <2>5. \E what \in Outcomes : Answer(r, what)
      BY <1>6 DEF SaveStatus, Outcomes
    <2> QED BY <1>6, <2>3, <2>4, <2>5, AnswerTypes DEF SaveStatus, DataTypes
  <1>7. CASE UpdateUser(r)
    <2>1. PICK e \in seen[r], demote \in BOOLEAN :
            LET a == e.account
                contact == WithContact(row[a], Ask[r])
                ranked == IF demote THEN [contact EXCEPT !.role = "STAFF"] ELSE contact
            IN \/ row' = row
               \/ row' = [row EXCEPT ![a] = IF Ask[r].newPassword = Null THEN ranked
                                           ELSE WithPassword(ranked, e, Ask[r].newPassword)]
      BY <1>7 DEF UpdateUser
    <2> DEFINE contact == WithContact(row[e.account], Ask[r])
               ranked == IF demote THEN [contact EXCEPT !.role = "STAFF"] ELSE contact
    <2>2. e.account \in Accounts /\ Ask[r].newPassword \in Passwords \cup {Null}
      BY <1>0, <1>1 DEF EntryType, Question
    <2>3. contact \in Row
      BY <1>0, <2>2, ContactTypes
    <2>4. ranked \in Row
      BY <2>3 DEF Row
    <2>5. WithPassword(ranked, e, Ask[r].newPassword) \in Row
      BY <1>3, <2>2, <2>4
    <2>6. row' \in [Accounts -> Row]
      <3> HIDE DEF ranked
      <3>1. \/ row' = row
            \/ row' = [row EXCEPT ![e.account] = ranked]
            \/ row' = [row EXCEPT ![e.account] = WithPassword(ranked, e, Ask[r].newPassword)]
        BY <2>1 DEF ranked
      <3> QED BY <1>2, <2>2, <2>4, <2>5, <3>1 DEF DataTypes
    <2>7. \E what \in Outcomes : Answer(r, what)
      BY <1>7 DEF UpdateUser, Outcomes
    <2> QED BY <1>7, <2>6, <2>7, AnswerTypes DEF UpdateUser, DataTypes
  <1>8. CASE ApplyPlan(r)
    <2>1. \A a \in Accounts : [row[a] EXCEPT !.phone.form = "+84"] \in Row
      BY <1>0 DEF Row, Phones, Forms
    <2>2. row' \in [Accounts -> Row]
      <3>1. \/ row' = row
            \/ \E as : row' = [a \in Accounts |->
                         IF a \in as THEN [row[a] EXCEPT !.phone.form = "+84"] ELSE row[a]]
        BY <1>8 DEF ApplyPlan
      <3> QED BY <1>0, <2>1, <3>1 DEF DataTypes
    <2>3. \E what \in Outcomes : Answer(r, what)
      BY <1>8 DEF ApplyPlan, Outcomes
    <2> QED BY <1>8, <2>2, <2>3, AnswerTypes DEF ApplyPlan, DataTypes
  <1> QED BY <1>4, <1>5, <1>6, <1>7, <1>8

LEMMA InitTypes == Init => TypeOK
  <1> SUFFICES ASSUME Init PROVE TypeOK
    OBVIOUS
  <1>1. /\ row \in [Accounts -> Row] /\ identity \in [Subjects -> Customers \cup {Null}]
        /\ audit \in [Accounts -> Seq([from : Statuses, to : Statuses])]
    BY AccountsAssumption DEF Init
  <1>2. ASSUME NEW a \in Accounts, row[a].password # Null
        PROVE  Token(Entry(a), row[a].password) \in TokenType
    <2>1. Len(audit[a]) = 0 /\ row[a] \in Row
      BY <1>1 DEF Init
    <2> QED BY <1>2, <2>1 DEF Token, Entry, TokenType, Row
  <1>3. tokens \subseteq TokenType
    BY <1>2 DEF Init
  <1>4. ControlTypes
    BY AccountsAssumption DEF Init, ControlTypes, Stages, Outcomes
  <1> QED BY <1>1, <1>3, <1>4 DEF TypeOK, DataTypes

LEMMA StepTypes == TypeOK /\ [Next]_vars => TypeOK'
  <1>1. ASSUME TypeOK, NEW r \in Requests, Step(r) PROVE TypeOK'
    BY <1>1, ReadTypes, TokenTypes, CreationTypes, ChangeTypes
       DEF Step, Login, Create, LoginWithGoogle, ChangeProfile, ChangeAccount, NormalizePhones
  <1>2. ASSUME TypeOK, UNCHANGED vars PROVE TypeOK'
    BY <1>2 DEF vars, data, locks, TypeOK, DataTypes, ControlTypes
  <1> QED BY <1>1, <1>2 DEF Next, Step

LEMMA TypesAlways == Spec => []TypeOK
  BY InitTypes, StepTypes, PTL DEF Spec
-----------------------------------------------------------------------------
(* What a step does to an account *)

Kept(a) ==
  /\ row'[a].exists = row[a].exists /\ row'[a].version = row[a].version
  /\ row'[a].password = row[a].password /\ row'[a].status = row[a].status
  /\ audit'[a] = audit[a]

PasswordChanged(r, a) ==
  /\ stage[r] = "locked" /\ a = Target(r) /\ row[a].exists /\ row'[a].exists
  /\ row'[a].version = row[a].version + 1
  /\ row'[a].status = row[a].status /\ audit'[a] = audit[a]

StatusChanged(r, a) ==
  /\ stage[r] = "locked" /\ a = Target(r) /\ row[a].exists /\ row'[a].exists
  /\ row'[a].version = row[a].version + 1
  /\ row'[a].status # row[a].status
  /\ audit'[a] = Append(audit[a], [from |-> row[a].status, to |-> row'[a].status])

Created(a) ==
  /\ ~row[a].exists /\ row'[a].exists
  /\ row'[a].version = 0 /\ row'[a].status = "ACTIVE" /\ audit'[a] = audit[a]

Changes(r) == \A a \in Accounts :
  Kept(a) \/ PasswordChanged(r, a) \/ StatusChanged(r, a) \/ Created(a)

LEMMA InsertChanges ==
  ASSUME TypeOK, NEW r \in Requests, NEW a \in Accounts, ~row[a].exists, UNCHANGED audit,
         NEW password, NEW role, row' = [row EXCEPT ![a] = NewRow(Ask[r], password, role)]
  PROVE  Changes(r)
  <1> SUFFICES ASSUME NEW b \in Accounts PROVE Kept(b) \/ Created(b)
    BY DEF Changes
  <1>1. CASE b = a
    BY <1>1 DEF TypeOK, DataTypes, Created, NewRow
  <1>2. CASE b # a
    BY <1>2 DEF TypeOK, DataTypes, Kept
  <1> QED BY <1>1, <1>2

LEMMA WithPasswordChanges ==
  ASSUME NEW old \in Row, NEW a \in Accounts, row[a] \in Row, NEW r \in Requests
  PROVE  LET new == WithPassword(old, Entry(a), Ask[r].newPassword)
         IN /\ new \in Row /\ new.exists = old.exists /\ new.status = old.status
            /\ new.version = row[a].version + 1
  <1>1. Ask[r].newPassword \in Passwords \cup {Null}
    BY AccountsAssumption DEF Question
  <1>2. Entry(a).version = row[a].version /\ row[a].version + 1 \in Nat
    BY DEF Entry, Row
  <1>3. WithPassword(old, Entry(a), Ask[r].newPassword) =
          [old EXCEPT !.password = Ask[r].newPassword, !.version = row[a].version + 1]
    BY <1>2 DEF WithPassword
  <1> QED BY <1>1, <1>2, <1>3 DEF Row

LEMMA LockedChanges ==
  ASSUME TypeOK, NEW r \in Requests, RowIsKnown(r),
         ChangeOwnPassword(r) \/ SetInitialPassword(r) \/ SaveStatus(r) \/ UpdateUser(r)
  PROVE  Changes(r)
  <1> DEFINE a == Target(r)
  <1>1. stage[r] = "locked" /\ a \in Accounts /\ row[a].exists /\ seen[r] = {Entry(a)}
    BY DEF RowIsKnown, ChangeOwnPassword, SetInitialPassword, SaveStatus, UpdateUser, At
  <1>2. row \in [Accounts -> Row] /\ audit \in [Accounts -> Seq([from : Statuses, to : Statuses])]
    BY DEF TypeOK, DataTypes
  <1>3. /\ Entry(a).account = a /\ Entry(a).version = row[a].version
        /\ Entry(a).status = row[a].status
    BY DEF Entry
  <1>4. row[a] \in Row
    BY <1>1, <1>2
  <1> HIDE DEF a
  <1>5. ASSUME NEW new \in Row, row' = [row EXCEPT ![a] = new], UNCHANGED audit, new.exists,
               new.status = row[a].status,
               \/ new.version = row[a].version /\ new.password = row[a].password
               \/ new.version = row[a].version + 1
        PROVE  Changes(r)
    <2> SUFFICES ASSUME NEW b \in Accounts PROVE Kept(b) \/ PasswordChanged(r, b)
      BY DEF Changes
    <2>1. CASE b = a
      BY <1>1, <1>2, <1>5, <2>1 DEF Kept, PasswordChanged, a
    <2>2. CASE b # a
      BY <1>2, <1>5, <2>2 DEF Kept
    <2> QED BY <2>1, <2>2
  <1>6. CASE row' = row /\ audit' = audit
    BY <1>6 DEF Changes, Kept
  <1>7. CASE ChangeOwnPassword(r) \/ SetInitialPassword(r)
    <2>1. /\ UNCHANGED audit
          /\ \/ row' = row
             \/ row' = [row EXCEPT ![a] = WithPassword(@, Entry(a), Ask[r].newPassword)]
      BY <1>1, <1>3, <1>7 DEF ChangeOwnPassword, SetInitialPassword
    <2> DEFINE new == WithPassword(row[a], Entry(a), Ask[r].newPassword)
    <2>2. new \in Row /\ new.exists /\ new.status = row[a].status /\ new.version = row[a].version + 1
      BY <1>1, <1>4, WithPasswordChanges
    <2> QED BY <1>5, <1>6, <2>1, <2>2
  <1>8. CASE SaveStatus(r)
    <2> DEFINE to == Ask[r].status
    <2>0. to \in Statuses
      BY AccountsAssumption DEF Question
    <2>1. \/ row' = row /\ audit' = audit
          \/ /\ row[a].status # to
             /\ row' = [row EXCEPT ![a].status = to, ![a].version = row[a].version + 1]
             /\ audit' = [audit EXCEPT ![a] = Append(@, [from |-> row[a].status, to |-> to])]
      BY <1>1, <1>3, <1>8 DEF SaveStatus
    <2>2. ASSUME row[a].status # to,
                 row' = [row EXCEPT ![a].status = to, ![a].version = row[a].version + 1],
                 audit' = [audit EXCEPT ![a] = Append(@, [from |-> row[a].status, to |-> to])]
          PROVE  Changes(r)
      <3> SUFFICES ASSUME NEW b \in Accounts PROVE Kept(b) \/ StatusChanged(r, b)
        BY DEF Changes
      <3>1. CASE b = a
        <4>1. /\ row'[a].exists = row[a].exists /\ row'[a].version = row[a].version + 1
              /\ row'[a].status = to
          BY <1>1, <1>2, <1>4, <2>2 DEF Row
        <4>2. audit'[a] = Append(audit[a], [from |-> row[a].status, to |-> to])
          BY <1>1, <1>2, <2>2
        <4> QED BY <1>1, <2>2, <3>1, <4>1, <4>2 DEF StatusChanged, a
      <3>2. CASE b # a
        BY <1>2, <2>2, <3>2 DEF Kept
      <3> QED BY <3>1, <3>2
    <2> QED BY <1>6, <2>1, <2>2
  <1>9. CASE UpdateUser(r)
    <2>1. PICK demote \in BOOLEAN :
            LET contact == WithContact(row[a], Ask[r])
                ranked == IF demote THEN [contact EXCEPT !.role = "STAFF"] ELSE contact
            IN \/ row' = row
               \/ row' = [row EXCEPT ![a] = IF Ask[r].newPassword = Null THEN ranked
                                           ELSE WithPassword(ranked, Entry(a), Ask[r].newPassword)]
      BY <1>1, <1>3, <1>9 DEF UpdateUser
    <2> DEFINE contact == WithContact(row[a], Ask[r])
               ranked == IF demote THEN [contact EXCEPT !.role = "STAFF"] ELSE contact
               changed == WithPassword(ranked, Entry(a), Ask[r].newPassword)
    <2>3. /\ contact \in Row /\ contact.exists /\ contact.status = row[a].status
          /\ contact.version = row[a].version /\ contact.password = row[a].password
      <3>1. contact \in Row
        BY <1>4, ContactTypes
      <3> QED BY <1>1, <1>4, <3>1 DEF WithContact, Row
    <2> HIDE DEF contact
    <2>4. /\ ranked \in Row /\ ranked.exists /\ ranked.status = row[a].status
          /\ ranked.version = row[a].version /\ ranked.password = row[a].password
      BY <2>3 DEF Row
    <2> HIDE DEF ranked
    <2>5. /\ changed \in Row /\ changed.exists /\ changed.status = row[a].status
          /\ changed.version = row[a].version + 1
      BY <1>1, <1>4, <2>4, WithPasswordChanges
    <2> HIDE DEF changed
    <2>6. /\ UNCHANGED audit
          /\ \/ row' = row \/ row' = [row EXCEPT ![a] = ranked] \/ row' = [row EXCEPT ![a] = changed]
      BY <1>9, <2>1 DEF UpdateUser, contact, ranked, changed
    <2> QED BY <1>5, <1>6, <2>4, <2>5, <2>6
  <1> QED BY <1>7, <1>8, <1>9

\* The statements that change nothing that tokens are about.
Quiet(r) ==
  \/ Authenticate(r) \/ GetMe(r) \/ FindAccounts(r) \/ RegisterLookUp(r)
  \/ CreateUserLookUp(r) \/ FindIdentity(r) \/ GoogleLookUp(r) \/ GoogleTransaction(r)
  \/ GoogleDeadlock(r) \/ ReadProfile(r) \/ AssertContactAvailable(r)
  \/ AnswerProfile(r) \/ LockAccount(r) \/ Preflight(r)
  \/ LockTable(r, "user", "planned", "users locked")
  \/ LockTable(r, "customer", "users locked", "customers locked")

LEMMA QuietKeepsData ==
  ASSUME NEW r \in Requests, Quiet(r)
  PROVE  UNCHANGED data
  BY DEF Quiet, Authenticate, GetMe, FindAccounts, RegisterLookUp, CreateUserLookUp,
         FindIdentity, GoogleLookUp, GoogleTransaction, GoogleDeadlock, ReadProfile,
         AssertContactAvailable, AnswerProfile, LockAccount, Preflight, LockTable

LEMMA StepChanges ==
  ASSUME TypeOK, NEW r \in Requests, RowIsKnown(r), Step(r)
  PROVE  Changes(r)
  <1>1. CASE UNCHANGED <<row, audit>>
    BY <1>1 DEF Changes, Kept
  <1>2. CASE Quiet(r)
    BY <1>1, <1>2, QuietKeepsData DEF data
  <1>3. CASE AnswerLogin(r) \/ LoginExistingGoogleCustomer(r) \/ GoogleFindsIdentity(r)
    BY <1>1, <1>3 DEF AnswerLogin, LoginExistingGoogleCustomer, GoogleFindsIdentity
  <1>4. CASE RegisterCustomer(r) \/ CreateUser(r)
    <2>1. PICK table \in Tables, role \in {"STAFF", "CUSTOMER"} : InsertAccount(r, table, role)
      BY <1>4 DEF RegisterCustomer, CreateUser, Tables
    <2>2. RowsOf[table] \subseteq Accounts
      <3>1. RowsOf["customer"] = Customers /\ RowsOf["user"] = Users
        BY DEF RowsOf
      <3> QED BY <3>1 DEF Tables, Accounts
    <2> QED BY <1>1, <2>1, <2>2, InsertChanges DEF InsertAccount
  <1>5. CASE GoogleCreate(r)
    BY <1>1, <1>5, InsertChanges DEF GoogleCreate, Accounts
  <1>6. CASE UpdateMe(r)
    <2> DEFINE a == Ask[r].actor
    <2>1. a \in Accounts
      BY <1>6, RequestAssumption DEF UpdateMe, At, Accounts
    <2>2. /\ UNCHANGED audit
          /\ row' = row \/ row' = [row EXCEPT ![a] = WithContact(@, Ask[r])]
      BY <1>6 DEF UpdateMe
    <2>3. row \in [Accounts -> Row]
      BY DEF TypeOK, DataTypes
    <2>4. ASSUME NEW b \in Accounts, row' = [row EXCEPT ![a] = WithContact(@, Ask[r])]
          PROVE  Kept(b)
      <3>1. CASE b = a
        <4>1. row'[a] = WithContact(row[a], Ask[r]) /\ row[a] \in Row
          BY <2>1, <2>3, <2>4
        <4> QED BY <2>2, <3>1, <4>1 DEF WithContact, Row, Kept
      <3>2. CASE b # a
        BY <2>2, <2>3, <2>4, <3>2 DEF Kept
      <3> QED BY <3>1, <3>2
    <2> QED BY <1>1, <2>2, <2>4 DEF Changes
  <1>7. CASE ApplyPlan(r)
    <2>1. PICK as : /\ UNCHANGED audit
                    /\ \/ row' = row
                       \/ row' = [b \in Accounts |->
                            IF b \in as THEN [row[b] EXCEPT !.phone.form = "+84"] ELSE row[b]]
      BY <1>7 DEF ApplyPlan
    <2>2. ASSUME NEW a \in Accounts PROVE Kept(a)
      <3>1. row[a] \in Row
        BY DEF TypeOK, DataTypes
      <3>2. row'[a] = row[a] \/ row'[a] = [row[a] EXCEPT !.phone.form = "+84"]
        BY <2>1
      <3> QED BY <2>1, <3>1, <3>2 DEF Kept, Row
    <2> QED BY <2>2 DEF Changes
  <1>8. CASE ChangeOwnPassword(r) \/ SetInitialPassword(r) \/ SaveStatus(r) \/ UpdateUser(r)
    BY <1>8, LockedChanges
  <1> QED BY <1>2, <1>3, <1>4, <1>5, <1>6, <1>7, <1>8
          DEF Step, Quiet, Login, Create, LoginWithGoogle, ChangeProfile, ChangeAccount,
              NormalizePhones
-----------------------------------------------------------------------------
(* What is known of an account stays true *)

\* Identities never move, and their customers exist.
IdentitiesGrow == \A s \in Subjects :
  identity'[s] # identity[s] =>
    /\ identity[s] = Null
    /\ identity'[s] \in Customers /\ ~row[identity'[s]].exists /\ row'[identity'[s]].exists

LEMMA IdentitiesOnlyGrow ==
  ASSUME TypeOK, NEW r \in Requests, Step(r)
  PROVE  IdentitiesGrow
  <1>1. CASE UNCHANGED identity
    BY <1>1 DEF IdentitiesGrow
  <1>2. CASE GoogleCreate(r)
    <2>1. ASSUME NEW c \in Customers, ~row[c].exists, identity[Ask[r].subject] = Null,
                 row' = [row EXCEPT ![c] = NewRow(Ask[r], Null, "CUSTOMER")],
                 identity' = [identity EXCEPT ![Ask[r].subject] = c]
          PROVE  IdentitiesGrow
      <3>1. row'[c].exists
        BY <2>1 DEF TypeOK, DataTypes, NewRow, Accounts
      <3> QED BY <2>1, <3>1 DEF IdentitiesGrow, TypeOK, DataTypes
    <2> QED BY <1>1, <1>2, <2>1 DEF GoogleCreate
  <1>3. CASE Quiet(r)
    BY <1>1, <1>3, QuietKeepsData DEF data
  <1>4. CASE ~Quiet(r) /\ ~GoogleCreate(r)
    <2>1. UNCHANGED identity
      BY <1>4 DEF Step, Quiet, Login, Create, LoginWithGoogle, ChangeProfile, ChangeAccount,
         NormalizePhones, AnswerLogin, RegisterCustomer, CreateUser, InsertAccount,
         LoginExistingGoogleCustomer, GoogleFindsIdentity, UpdateMe, ChangeOwnPassword,
         SetInitialPassword, SaveStatus, UpdateUser, ApplyPlan
    <2> QED BY <1>1, <2>1
  <1> QED BY <1>2, <1>3, <1>4

LEMMA TruthIsKept ==
  ASSUME TypeOK, NEW r \in Requests, Changes(r), IdentitiesGrow
  PROVE  /\ \A e \in EntryType : EntryIsTrue(e) => EntryIsTrue(e)'
         /\ \A t \in TokenType : TokenIsTrue(t) => TokenIsTrue(t)'
  <1>1. ASSUME NEW a \in Accounts, row[a].exists
        PROVE  /\ row'[a].exists
               /\ row'[a].version \in Nat /\ row[a].version \in Nat
               /\ row'[a].version >= row[a].version
               /\ row'[a].version = row[a].version =>
                    /\ row'[a].password = row[a].password /\ row'[a].status = row[a].status
                    /\ audit'[a] = audit[a]
    <2>1. row[a].version \in Nat
      BY DEF TypeOK, DataTypes, Row
    <2>2. CASE Kept(a)
      BY <1>1, <2>1, <2>2 DEF Kept
    <2>3. CASE PasswordChanged(r, a) \/ StatusChanged(r, a)
      BY <1>1, <2>1, <2>3 DEF PasswordChanged, StatusChanged
    <2> QED BY <1>1, <2>2, <2>3 DEF Changes, Created
  <1>2. ASSUME NEW s \in Subjects, NEW a \in Accounts, identity[s] = a
        PROVE  identity'[s] = a
    BY <1>2, AccountsAssumption DEF IdentitiesGrow
  <1>3. ASSUME NEW e \in EntryType, EntryIsTrue(e) PROVE EntryIsTrue(e)'
    <2>1. e.account \in Accounts /\ e.version \in Nat
      BY DEF EntryType
    <2> QED BY <1>1, <1>3, <2>1 DEF EntryIsTrue
  <1>4. ASSUME NEW t \in TokenType, TokenIsTrue(t) PROVE TokenIsTrue(t)'
    <2>1. t.account \in Accounts /\ t.version \in Nat
      BY DEF TokenType
    <2> QED BY <1>1, <1>2, <1>4, <2>1 DEF TokenIsTrue
  <1> QED BY <1>3, <1>4

\* A request only moves itself, and takes no row that another one holds.
LEMMA OthersGoOn ==
  ASSUME TypeOK, NEW r \in Requests, Step(r), NEW q \in Requests, q # r
  PROVE  /\ stage'[q] = stage[q] /\ seen'[q] = seen[q]
         /\ \A a \in Accounts : rowHolder[a] = q => rowHolder'[a] = q
  <1>0. q # Nobody
    BY AccountsAssumption
  <1> USE DEF TypeOK, ControlTypes
  <1>1. ASSUME NEW what, Answer(r, what)
        PROVE  /\ stage'[q] = stage[q] /\ seen'[q] = seen[q]
               /\ \A a \in Accounts : rowHolder[a] = q => rowHolder'[a] = q
    BY <1>1 DEF Answer, Release
  <1>2. ASSUME NEW next, NEW entries, Continue(r, next, entries)
        PROVE  stage'[q] = stage[q] /\ seen'[q] = seen[q]
    BY <1>2 DEF Continue
  <1>3. CASE Authenticate(r) \/ GetMe(r) \/ Login(r) \/ Create(r)
    BY <1>1, <1>2, <1>3
       DEF Authenticate, GetMe, Login, FindAccounts, AnswerLogin, Create, RegisterLookUp,
           CreateUserLookUp, RegisterCustomer, CreateUser, InsertAccount, locks
  <1>4. CASE FindIdentity(r) \/ LoginExistingGoogleCustomer(r) \/ GoogleLookUp(r)
             \/ GoogleFindsIdentity(r) \/ GoogleTransaction(r) \/ GoogleDeadlock(r)
    BY <1>1, <1>2, <1>4
       DEF FindIdentity, LoginExistingGoogleCustomer, GoogleToken, GoogleLookUp,
           GoogleFindsIdentity, GoogleTransaction, GoogleDeadlock, locks
  <1>5. CASE GoogleCreate(r)
    <2>1. CASE Continue(r, "raced", {}) /\ Release(r)
      BY <1>2, <2>1 DEF Release
    <2> QED BY <1>1, <1>5, <2>1 DEF GoogleCreate
  <1>6. CASE ChangeProfile(r)
    BY <1>1, <1>2, <1>6
       DEF ChangeProfile, ReadProfile, AssertContactAvailable, UpdateMe, AnswerProfile, locks
  <1>7. CASE LockAccount(r)
    <2>1. CASE /\ RowIsFree(Target(r), r)
               /\ rowHolder' = [rowHolder EXCEPT ![Target(r)] = r]
               /\ Continue(r, "locked", {Entry(Target(r))})
      BY <1>0, <1>2, <2>1 DEF RowIsFree
    <2> QED BY <1>1, <1>7, <2>1 DEF LockAccount
  <1>8. CASE ChangeOwnPassword(r) \/ SetInitialPassword(r) \/ SaveStatus(r) \/ UpdateUser(r)
    BY <1>1, <1>8 DEF ChangeOwnPassword, SetInitialPassword, SaveStatus, UpdateUser
  <1>9. CASE Preflight(r) \/ ApplyPlan(r)
    BY <1>1, <1>2, <1>9 DEF Preflight, ApplyPlan, locks
  <1>10. ASSUME NEW table, NEW where, NEW next, LockTable(r, table, where, next)
         PROVE  /\ stage'[q] = stage[q] /\ seen'[q] = seen[q]
                /\ \A a \in Accounts : rowHolder[a] = q => rowHolder'[a] = q
    <2>1. \A a \in Stored(RowsOf[table]) : rowHolder[a] \in {Nobody, r}
      BY <1>10 DEF LockTable, Stored, RowIsFree
    <2>2. \A a \in Accounts :
            rowHolder'[a] = IF a \in Stored(RowsOf[table]) THEN r ELSE rowHolder[a]
      BY <1>10 DEF LockTable
    <2>3. stage'[q] = stage[q] /\ seen'[q] = seen[q]
      BY <1>2, <1>10 DEF LockTable
    <2> QED BY <1>0, <2>1, <2>2, <2>3
  <1> QED BY <1>3, <1>4, <1>5, <1>6, <1>7, <1>8, <1>9, <1>10
          DEF Step, LoginWithGoogle, ChangeAccount, NormalizePhones
-----------------------------------------------------------------------------
(* Credentials *)

LEMMA FreshEntryIsTrue ==
  ASSUME TypeOK, NEW a \in Accounts, row[a].exists
  PROVE  EntryIsTrue(Entry(a))
  <1>1. row[a].version \in Nat
    BY DEF TypeOK, DataTypes, Row
  <1> QED BY <1>1 DEF EntryIsTrue, Entry

\* What a request comes to know is true.
LEMMA NewEntriesAreTrue ==
  ASSUME TypeOK, CredentialInv, NEW r \in Requests, Step(r)
  PROVE  /\ \A e \in seen'[r] : \/ e \in seen[r]
                                \/ EntryIsTrue(e) /\ UNCHANGED data
         /\ RowIsKnown(r)' /\ IdentityIsKnown(r)'
  <1> DEFINE Good(S) == \A e \in S : e \in seen[r] \/ EntryIsTrue(e)
  <1>0. /\ seen[r] \subseteq EntryType /\ stage[r] \in Stages
        /\ seen \in [Requests -> SUBSET EntryType] /\ stage \in [Requests -> Stages]
    BY DEF TypeOK, ControlTypes
  <1>1. ASSUME NEW what, Answer(r, what)
        PROVE  seen'[r] = {} /\ RowIsKnown(r)' /\ IdentityIsKnown(r)'
    BY <1>0, <1>1 DEF Answer, RowIsKnown, IdentityIsKnown
  <1>2. ASSUME NEW next, next \notin {"locked", "existing"}, NEW entries, Continue(r, next, entries)
        PROVE  seen'[r] = entries /\ RowIsKnown(r)' /\ IdentityIsKnown(r)'
    BY <1>0, <1>2 DEF Continue, RowIsKnown, IdentityIsKnown
  <1>3. ASSUME NEW a \in Accounts, Visible(a) PROVE EntryIsTrue(Entry(a))
    BY <1>3, FreshEntryIsTrue DEF Visible
  <1>4. CASE Authenticate(r) \/ GetMe(r) \/ AnswerLogin(r) \/ Create(r) \/ GoogleLookUp(r)
             \/ LoginExistingGoogleCustomer(r) \/ GoogleFindsIdentity(r)
             \/ GoogleTransaction(r) \/ GoogleCreate(r) \/ GoogleDeadlock(r) \/ UpdateMe(r)
             \/ AnswerProfile(r) \/ ChangeOwnPassword(r) \/ SetInitialPassword(r)
             \/ SaveStatus(r) \/ UpdateUser(r) \/ Preflight(r) \/ ApplyPlan(r)
    <2>1. \/ \E what : Answer(r, what)
          \/ \E next : next \notin {"locked", "existing"} /\ Continue(r, next, {})
      <3>1. CASE Authenticate(r) \/ GetMe(r) \/ AnswerLogin(r) \/ Create(r) \/ GoogleLookUp(r)
        BY <3>1 DEF Authenticate, GetMe, AnswerLogin, Create, RegisterLookUp, CreateUserLookUp,
                    RegisterCustomer, CreateUser, InsertAccount, GoogleLookUp
      <3>2. CASE \/ LoginExistingGoogleCustomer(r) \/ GoogleFindsIdentity(r)
                 \/ GoogleTransaction(r) \/ GoogleCreate(r) \/ GoogleDeadlock(r) \/ UpdateMe(r)
        BY <3>2 DEF LoginExistingGoogleCustomer, GoogleToken, GoogleFindsIdentity,
                    GoogleTransaction, GoogleCreate, GoogleDeadlock, UpdateMe
      <3>3. CASE \/ AnswerProfile(r) \/ ChangeOwnPassword(r) \/ SetInitialPassword(r)
                 \/ SaveStatus(r) \/ UpdateUser(r) \/ Preflight(r) \/ ApplyPlan(r)
        BY <3>3 DEF AnswerProfile, ChangeOwnPassword, SetInitialPassword, SaveStatus,
                    UpdateUser, Preflight, ApplyPlan
      <3> QED BY <1>4, <3>1, <3>2, <3>3
    <2> QED BY <1>1, <1>2, <2>1
  <1>5. CASE FindAccounts(r)
    <2>1. PICK c \in SUBSET {a \in Customers : HasIdentifier(a, Ask[r].identifier)},
               u \in SUBSET {a \in Users : HasIdentifier(a, Ask[r].identifier)} :
            Continue(r, "verifying", {Entry(a) : a \in c \cup u})
      BY <1>5 DEF FindAccounts
    <2>2. \A a \in c \cup u : a \in Accounts /\ Visible(a)
      BY DEF HasIdentifier, Accounts
    <2>3. \A e \in {Entry(a) : a \in c \cup u} : EntryIsTrue(e)
      BY <1>3, <2>2
    <2> QED BY <1>2, <1>5, <2>1, <2>3 DEF FindAccounts
  <1>6. CASE FindIdentity(r)
    <2> DEFINE c == identity[Ask[r].subject]
    <2>0. Ask[r].kind = "google" /\ Ask[r].subject \in Subjects
      BY <1>6, AccountsAssumption, RequestAssumption DEF FindIdentity, Question
    <2>1. CASE c # Null
      <3>1. c \in Accounts /\ row[c].exists
        BY <2>0, <2>1 DEF TypeOK, DataTypes, CredentialInv, Accounts
      <3>2. Continue(r, "existing", {Entry(c)}) /\ UNCHANGED data
        BY <1>6, <2>1 DEF FindIdentity
      <3>3. stage'[r] = "existing" /\ seen'[r] = {Entry(c)} /\ UNCHANGED identity
        BY <1>0, <3>2 DEF Continue, data
      <3>4. RowIsKnown(r)' /\ IdentityIsKnown(r)'
        BY <2>0, <3>3 DEF RowIsKnown, IdentityIsKnown, Entry
      <3> QED BY <3>1, <3>2, <3>3, <3>4, FreshEntryIsTrue
    <2>2. CASE c = Null
      BY <1>1, <1>2, <1>6, <2>2 DEF FindIdentity
    <2> QED BY <2>1, <2>2
  <1>7. CASE ReadProfile(r)
    <2>1. Ask[r].actor \in Accounts
      BY <1>7, RequestAssumption DEF ReadProfile, At, Accounts
    <2> QED BY <1>1, <1>2, <1>3, <1>7, <2>1 DEF ReadProfile
  <1>8. CASE AssertContactAvailable(r)
    BY <1>1, <1>2, <1>8 DEF AssertContactAvailable
  <1>9. CASE LockAccount(r)
    <2> DEFINE a == Target(r)
    <2>1. a \in Accounts
      BY <1>9, RequestAssumption DEF LockAccount, Target, Accounts
    <2>2. CASE Visible(a)
      <3>1. /\ Continue(r, "locked", {Entry(a)}) /\ UNCHANGED data
            /\ rowHolder' = [rowHolder EXCEPT ![a] = r]
        BY <1>9, <2>2 DEF LockAccount
      <3>2. stage'[r] = "locked" /\ seen'[r] = {Entry(a)} /\ Entry(a)' = Entry(a)
        BY <1>0, <3>1 DEF Continue, data, Entry
      <3>3. rowHolder'[a] = r /\ row'[a].exists
        BY <2>1, <2>2, <3>1 DEF TypeOK, ControlTypes, data, Visible
      <3>4. RowIsKnown(r)'
        <4>1. Target(r)' = a
          BY DEF Target
        <4> QED BY <2>1, <3>2, <3>3, <4>1 DEF RowIsKnown
      <3>5. IdentityIsKnown(r)'
        BY <3>2 DEF IdentityIsKnown
      <3> QED BY <1>3, <2>1, <2>2, <3>1, <3>2, <3>4, <3>5
    <2>3. CASE ~Visible(a)
      BY <1>1, <1>9, <2>3 DEF LockAccount
    <2> QED BY <2>2, <2>3
  <1>10. ASSUME NEW table \in Tables, NEW where \in Stages,
                NEW next \in {"users locked", "customers locked"},
                LockTable(r, table, where, next)
         PROVE  /\ \A e \in seen'[r] : e \in seen[r] \/ (EntryIsTrue(e) /\ UNCHANGED data)
                /\ RowIsKnown(r)' /\ IdentityIsKnown(r)'
    <2>1. \A a \in Stored(RowsOf[table]) : a \in Accounts /\ row[a].exists
      <3>1. RowsOf["customer"] = Customers /\ RowsOf["user"] = Users
        BY DEF RowsOf
      <3> QED BY <3>1 DEF Tables, Accounts, Stored
    <2>2. \A e \in {Entry(a) : a \in Stored(RowsOf[table])} : EntryIsTrue(e)
      BY <2>1, FreshEntryIsTrue
    <2>3. UNCHANGED data /\ Continue(r, next, seen[r] \cup {Entry(a) : a \in Stored(RowsOf[table])})
      BY <1>10 DEF LockTable
    <2>4. /\ seen'[r] = seen[r] \cup {Entry(a) : a \in Stored(RowsOf[table])}
          /\ RowIsKnown(r)' /\ IdentityIsKnown(r)'
      BY <1>2, <1>10, <2>3
    <2> QED BY <2>2, <2>3, <2>4
  <1>11. CASE NormalizePhones(r)
    <2>1. /\ "user" \in Tables /\ "customer" \in Tables
          /\ "planned" \in Stages /\ "users locked" \in Stages
      BY DEF Tables, Stages
    <2>2. CASE LockTable(r, "user", "planned", "users locked")
      BY <1>10, <2>1, <2>2
    <2>3. CASE LockTable(r, "customer", "users locked", "customers locked")
      BY <1>10, <2>1, <2>3
    <2> QED BY <1>4, <1>11, <2>2, <2>3 DEF NormalizePhones
  <1> QED BY <1>4, <1>5, <1>6, <1>7, <1>8, <1>9, <1>11
          DEF Step, Login, LoginWithGoogle, ChangeProfile, ChangeAccount

\* What a token is signed with is true.
LEMMA NewTokensAreTrue ==
  ASSUME TypeOK, CredentialInv, NEW r \in Requests, Step(r), NEW t \in tokens'
  PROVE  t \in tokens \/ TokenIsTrue(t)'
  <1>1. CASE tokens' = tokens
    BY <1>1
  <1>2. CASE AnswerLogin(r)
    <2> SUFFICES ASSUME tokens' # tokens PROVE t \in tokens \/ TokenIsTrue(t)'
      BY <1>1
    <2>1. PICK e \in LoggedIn(r, Users) \cup LoggedIn(r, Customers) :
            tokens' = tokens \cup {Token(e, Ask[r].password)}
      BY <1>2 DEF AnswerLogin
    <2>2. e \in seen[r] /\ Verified(Ask[r].password, e)
      BY <2>1 DEF LoggedIn
    <2>3. UNCHANGED <<row, identity, audit>> /\ EntryIsTrue(e)
      BY <1>2, <2>2 DEF AnswerLogin, CredentialInv
    <2>4. e.password = Ask[r].password /\ Ask[r].password \in Passwords
      BY <1>2, <2>2, AccountsAssumption, RequestAssumption DEF AnswerLogin, At, Verified, Question
    <2>5. Ask[r].password \notin Subjects
      BY <2>4, AccountsAssumption
    <2>6. TokenIsTrue(Token(e, Ask[r].password))'
      BY <2>3, <2>4, <2>5 DEF TokenIsTrue, EntryIsTrue, Token
    <2> QED BY <2>1, <2>6
  <1>3. ASSUME NEW c \in Customers, GoogleToken(r, c), Ask[r].subject \in Subjects,
               identity[Ask[r].subject] = c, UNCHANGED <<row, identity, audit>>
        PROVE  t \in tokens \/ TokenIsTrue(t)'
    <2>1. \/ tokens' = tokens
          \/ tokens' = tokens \cup {Token(Entry(c), Ask[r].subject)} /\ Visible(c)
      BY <1>3 DEF GoogleToken
    <2>2. ASSUME Visible(c), NEW new, new = Token(Entry(c), Ask[r].subject)
          PROVE  TokenIsTrue(new)'
      <3>1. row[c].version \in Nat /\ row[c].exists
        BY <2>2 DEF TypeOK, DataTypes, Accounts, Row, Visible
      <3>2. /\ new.account = c /\ new.version = row[c].version /\ new.by = Ask[r].subject
            /\ new.since = Len(audit[c])
        BY <2>2 DEF Token, Entry
      <3> QED BY <1>3, <3>1, <3>2 DEF TokenIsTrue
    <2> QED BY <2>1, <2>2
  <1>4. CASE LoginExistingGoogleCustomer(r) \/ GoogleFindsIdentity(r)
    <2>1. Ask[r].kind = "google" /\ Ask[r].subject \in Subjects
      BY <1>4, AccountsAssumption, RequestAssumption
         DEF LoginExistingGoogleCustomer, GoogleFindsIdentity, At, Question
    <2>2. identity[Ask[r].subject] \in Customers \cup {Null}
      BY <2>1 DEF TypeOK, DataTypes
    <2>3. CASE LoginExistingGoogleCustomer(r)
      <3>1. PICK e \in seen[r] : GoogleToken(r, e.account)
        BY <2>3 DEF LoginExistingGoogleCustomer
      <3>2. identity[Ask[r].subject] = e.account /\ e.account \in Accounts
        BY <2>3 DEF LoginExistingGoogleCustomer, At, CredentialInv, IdentityIsKnown, TypeOK,
                    ControlTypes, EntryType
      <3>3. e.account # Null
        BY <3>2, AccountsAssumption
      <3> QED BY <1>3, <2>1, <2>2, <2>3, <3>1, <3>2, <3>3 DEF LoginExistingGoogleCustomer
    <2>4. CASE GoogleFindsIdentity(r)
      BY <1>3, <2>1, <2>2, <2>4 DEF GoogleFindsIdentity
    <2> QED BY <1>4, <2>3, <2>4
  <1>5. CASE GoogleCreate(r)
    <2>1. Ask[r].kind = "google" /\ Ask[r].subject \in Subjects
      BY <1>5, AccountsAssumption, RequestAssumption DEF GoogleCreate, At, Question
    <2>2. ASSUME NEW c \in Customers,
                 row' = [row EXCEPT ![c] = NewRow(Ask[r], Null, "CUSTOMER")],
                 identity' = [identity EXCEPT ![Ask[r].subject] = c]
          PROVE  TokenIsTrue([account |-> c, version |-> 0,
                              since |-> Len(audit[c]), by |-> Ask[r].subject])'
      <3>1. row'[c] = NewRow(Ask[r], Null, "CUSTOMER") /\ identity'[Ask[r].subject] = c
        BY <2>1, <2>2 DEF TypeOK, DataTypes, Accounts
      <3>2. row'[c].exists /\ row'[c].version = 0
        BY <3>1 DEF NewRow
      <3>3. UNCHANGED audit
        BY <1>5 DEF GoogleCreate
      <3> QED BY <2>1, <3>1, <3>2, <3>3 DEF TokenIsTrue
    <2> QED BY <1>1, <1>5, <2>2 DEF GoogleCreate
  <1>6. CASE Quiet(r)
    BY <1>1, <1>6, QuietKeepsData DEF data
  <1>7. CASE \/ RegisterCustomer(r) \/ CreateUser(r) \/ UpdateMe(r) \/ ChangeOwnPassword(r)
             \/ SetInitialPassword(r) \/ SaveStatus(r) \/ UpdateUser(r) \/ ApplyPlan(r)
    BY <1>1, <1>7 DEF RegisterCustomer, CreateUser, InsertAccount, UpdateMe, ChangeOwnPassword,
                      SetInitialPassword, SaveStatus, UpdateUser, ApplyPlan
  <1> QED BY <1>2, <1>4, <1>5, <1>6, <1>7
          DEF Step, Quiet, Login, Create, LoginWithGoogle, ChangeProfile, ChangeAccount,
              NormalizePhones

LEMMA StepKeepsCredentials ==
  ASSUME TypeOK, CredentialInv, NEW r \in Requests, Step(r)
  PROVE  CredentialInv'
  <1>0. /\ tokens \subseteq TokenType /\ \A q \in Requests : seen[q] \subseteq EntryType
        /\ identity \in [Subjects -> Customers \cup {Null}]
    BY DEF TypeOK, DataTypes, ControlTypes
  <1>1. Changes(r) /\ IdentitiesGrow
    BY StepChanges, IdentitiesOnlyGrow DEF CredentialInv
  <1>2. /\ \A e \in EntryType : EntryIsTrue(e) => EntryIsTrue(e)'
        /\ \A t \in TokenType : TokenIsTrue(t) => TokenIsTrue(t)'
    BY <1>1, TruthIsKept
  <1>3. \A t \in tokens' : TokenIsTrue(t)'
    BY <1>0, <1>2, NewTokensAreTrue DEF CredentialInv
  <1>4. \A e \in seen'[r] : EntryIsTrue(e)'
    <2> SUFFICES ASSUME NEW e \in seen'[r] PROVE EntryIsTrue(e)'
      OBVIOUS
    <2>1. CASE e \in seen[r]
      BY <1>0, <1>2, <2>1 DEF CredentialInv
    <2>2. CASE EntryIsTrue(e) /\ UNCHANGED data
      BY <2>2 DEF EntryIsTrue, data
    <2> QED BY <2>1, <2>2, NewEntriesAreTrue
  <1>5. ASSUME NEW q \in Requests, q # r PROVE \A e \in seen'[q] : EntryIsTrue(e)'
    <2>1. seen'[q] = seen[q]
      BY <1>5, OthersGoOn
    <2> QED BY <1>0, <1>2, <2>1 DEF CredentialInv
  <1>6. ASSUME NEW q \in Requests, q # r PROVE RowIsKnown(q)'
    <2> SUFFICES ASSUME stage'[q] = "locked" PROVE RowIsKnown(q)'
      BY DEF RowIsKnown
    <2> DEFINE a == Target(q)
    <2>1. stage[q] = "locked" /\ seen'[q] = seen[q] /\ \A b \in Accounts : rowHolder[b] = q => rowHolder'[b] = q
      BY <1>6, OthersGoOn
    <2>2. a \in Accounts /\ rowHolder[a] = q /\ row[a].exists /\ seen[q] = {Entry(a)}
      BY <2>1 DEF CredentialInv, RowIsKnown
    <2>3. stage[r] = "locked" => a # Target(r)
      BY <1>6, <2>2 DEF CredentialInv, RowIsKnown
    <2>4. Kept(a)
      BY <1>1, <2>2, <2>3 DEF Changes, PasswordChanged, StatusChanged, Created
    <2>5. Entry(a)' = Entry(a)
      BY <2>4 DEF Kept, Entry
    <2>6. Target(q)' = a
      BY DEF Target
    <2> QED BY <2>1, <2>2, <2>4, <2>5, <2>6 DEF RowIsKnown, Kept
  <1>7. ASSUME NEW q \in Requests, q # r PROVE IdentityIsKnown(q)'
    <2> SUFFICES ASSUME stage'[q] = "existing" PROVE IdentityIsKnown(q)'
      BY DEF IdentityIsKnown
    <2>1. stage[q] = "existing" /\ seen'[q] = seen[q]
      BY <1>7, OthersGoOn
    <2>2. Ask[q].kind = "google" /\ Ask[q].subject \in Subjects
      BY <2>1, AccountsAssumption, RequestAssumption DEF CredentialInv, IdentityIsKnown, Question
    <2>3. \A e \in seen[q] : identity[Ask[q].subject] = e.account /\ e.account # Null
      BY <1>0, <2>1, AccountsAssumption DEF CredentialInv, IdentityIsKnown, EntryType
    <2>4. \A e \in seen[q] : identity'[Ask[q].subject] = e.account
      BY <1>1, <2>2, <2>3 DEF IdentitiesGrow
    <2> QED BY <2>1, <2>2, <2>4 DEF IdentityIsKnown
  <1>8. ASSUME NEW s \in Subjects, identity'[s] # Null PROVE row'[identity'[s]].exists
    <2>1. CASE identity'[s] = identity[s]
      <3>1. identity[s] \in Accounts /\ row[identity[s]].exists
        BY <1>0, <1>8, <2>1 DEF CredentialInv, Accounts
      <3>2. row'[identity[s]].exists
        BY <1>1, <3>1 DEF Changes, Kept, PasswordChanged, StatusChanged, Created
      <3> QED BY <2>1, <3>2
    <2>2. CASE identity'[s] # identity[s]
      BY <1>1, <2>2 DEF IdentitiesGrow
    <2> QED BY <2>1, <2>2
  <1>9. RowIsKnown(r)' /\ IdentityIsKnown(r)'
    BY NewEntriesAreTrue
  <1> QED BY <1>3, <1>4, <1>5, <1>6, <1>7, <1>8, <1>9 DEF CredentialInv

LEMMA InitCredentials == Init => CredentialInv
  <1> SUFFICES ASSUME Init PROVE CredentialInv
    OBVIOUS
  <1>1. ASSUME NEW a \in Accounts, row[a].exists, row[a].password # Null
        PROVE  TokenIsTrue(Token(Entry(a), row[a].password))
    <2>1. row[a] \in Row
      BY AccountsAssumption DEF Init
    <2>2. row[a].password \notin Subjects /\ row[a].version \in Nat
      BY <1>1, <2>1, AccountsAssumption DEF Row
    <2> QED BY <1>1, <2>2 DEF TokenIsTrue, Token, Entry
  <1>2. \A t \in tokens : TokenIsTrue(t)
    BY <1>1 DEF Init
  <1>3. \A r \in Requests : seen[r] = {} /\ stage[r] \in {"new", "done"}
    BY DEF Init
  <1>4. \A s \in Subjects : identity[s] # Null => row[identity[s]].exists
    BY ExistingAssumption DEF Init
  <1> QED BY <1>2, <1>3, <1>4 DEF CredentialInv, RowIsKnown, IdentityIsKnown

LEMMA CredentialsAlways == Spec => []CredentialInv
  <1>1. TypeOK /\ CredentialInv /\ [Next]_vars => CredentialInv'
    <2> SUFFICES ASSUME TypeOK, CredentialInv, [Next]_vars PROVE CredentialInv'
      OBVIOUS
    <2>1. CASE UNCHANGED vars
      BY <2>1 DEF vars, data, locks, CredentialInv, TokenIsTrue, EntryIsTrue, RowIsKnown, Entry,
                  IdentityIsKnown
    <2>2. CASE Next
      BY <2>2, StepKeepsCredentials DEF Next, Step
    <2> QED BY <2>1, <2>2
  <1> QED BY <1>1, InitCredentials, TypesAlways, PTL DEF Spec
-----------------------------------------------------------------------------
(* The audit log *)

LEMMA StepKeepsAudit ==
  ASSUME TypeOK, AuditInv, NEW r \in Requests, Changes(r)
  PROVE  AuditInv'
  <1> DEFINE Told(a) ==
        row[a].exists =>
          /\ \A i \in 1..Len(audit[a]) :
               audit[a][i].from = StatusBefore(a, i) /\ audit[a][i].to # StatusBefore(a, i)
          /\ row[a].status = StatusBefore(a, Len(audit[a]) + 1)
             NoHistory(a) == ~row[a].exists => audit[a] = <<>> /\ ~Existing[a].exists
  <1> SUFFICES ASSUME NEW a \in Accounts PROVE Told(a)' /\ NoHistory(a)'
    BY DEF AuditInv, AuditTellsStatus
  <1>1. Told(a) /\ NoHistory(a)
    BY DEF AuditInv, AuditTellsStatus
  <1>2. /\ audit[a] \in Seq([from : Statuses, to : Statuses]) /\ Len(audit[a]) \in Nat
        /\ row[a].status \in Statuses
    BY EntryTypes DEF TypeOK, DataTypes, Row
  <1>3. CASE Kept(a) \/ PasswordChanged(r, a)
    BY <1>1, <1>3 DEF Kept, PasswordChanged, StatusBefore
  <1>4. CASE Created(a)
    <2>1. audit'[a] = <<>> /\ ~Existing[a].exists /\ row'[a].exists /\ row'[a].status = "ACTIVE"
      BY <1>1, <1>4 DEF Created
    <2> QED BY <2>1 DEF StatusBefore
  <1>5. CASE StatusChanged(r, a)
    <2> DEFINE n == Len(audit[a])
               record == [from |-> row[a].status, to |-> row'[a].status]
    <2>1. /\ row[a].exists /\ row'[a].exists /\ row'[a].status # row[a].status
          /\ audit'[a] = Append(audit[a], record)
      BY <1>5 DEF StatusChanged
    <2>2. /\ Len(audit'[a]) = n + 1 /\ audit'[a][n + 1] = record
          /\ \A i \in 1..n : audit'[a][i] = audit[a][i]
      BY <1>2, <2>1
    <2>3. \A i \in 1..(n + 1) : StatusBefore(a, i)' = StatusBefore(a, i)
      BY <1>2, <2>2 DEF StatusBefore
    <2>4. /\ StatusBefore(a, n + 1) = row[a].status
          /\ row'[a].status = StatusBefore(a, Len(audit[a]) + 1)'
      <3>1. StatusBefore(a, n + 1) = row[a].status
        BY <1>1, <2>1
      <3>2. audit'[a][(n + 1) + 1 - 1].to = row'[a].status /\ (n + 1) + 1 > 1
        BY <1>2, <2>2
      <3> QED BY <2>2, <3>1, <3>2 DEF StatusBefore
    <2>5. ASSUME NEW i \in 1..(n + 1)
          PROVE  /\ audit'[a][i].from = StatusBefore(a, i)
                 /\ audit'[a][i].to # StatusBefore(a, i)
      <3>1. CASE i = n + 1
        BY <2>1, <2>2, <2>4, <3>1
      <3>2. CASE i \in 1..n
        BY <1>1, <2>1, <2>2, <3>2
      <3> QED BY <1>2, <3>1, <3>2
    <2>6. \A i \in 1..Len(audit'[a]) :
            audit'[a][i].from = StatusBefore(a, i)' /\ audit'[a][i].to # StatusBefore(a, i)'
      BY <2>2, <2>3, <2>5
    <2> QED BY <2>1, <2>4, <2>6
  <1> QED BY <1>3, <1>4, <1>5 DEF Changes

LEMMA InitAudit == Init => AuditInv
  <1> SUFFICES ASSUME Init PROVE AuditInv
    OBVIOUS
  <1>1. \A a \in Accounts : audit[a] = <<>> /\ row[a] = Existing[a]
    BY DEF Init
  <1> QED BY <1>1 DEF AuditInv, AuditTellsStatus, StatusBefore

-----------------------------------------------------------------------------
(* Phone numbers *)

PhoneKept(c) == row'[c].exists = row[c].exists /\ row'[c].deleted = row[c].deleted
                /\ row'[c].phone = row[c].phone

Normalized(c) ==
  /\ row'[c].exists = row[c].exists /\ row'[c].deleted = row[c].deleted
  /\ row'[c].phone.number = row[c].phone.number /\ row'[c].phone.form = "+84"

\* The customer c gets the number n, which no other customer has.
Numbered(c, n) ==
  /\ n # Null /\ row'[c].phone = [number |-> n, form |-> "+84"]
  /\ \A d \in Customers \ {c} :
       Visible(d) => row[d].phone.number # n

NumbersStayApart ==
  \/ \A c \in Customers : PhoneKept(c) \/ Normalized(c)
  \/ \E c \in Customers, n \in Numbers :
       /\ Numbered(c, n)
       /\ \A d \in Customers \ {c} : PhoneKept(d)

\* The unique key and what was looked up together guard a number.
LEMMA FreeNumber ==
  ASSUME TypeOK, NEW c \in Customers \cup {Null}, NEW email, NEW n, n # Null,
         ~IsDuplicate(Customers, c, email, n),
         \A d \in Customers \ {c} : ~HasOldForm(d, n)
  PROVE  \A d \in Customers \ {c} : Visible(d) => row[d].phone.number # n
  <1> SUFFICES ASSUME NEW d \in Customers \ {c}, Visible(d), row[d].phone.number = n
               PROVE  FALSE
    OBVIOUS
  <1>1. row[d].phone \in Phones
    BY DEF TypeOK, DataTypes, Accounts, Row
  <1>2. row[d].phone = [number |-> n, form |-> "+84"]
    BY <1>1 DEF HasOldForm, Phones
  <1> QED BY <1>2 DEF IsDuplicate, PhoneIsDuplicate, Visible

LEMMA InsertNumbers ==
  ASSUME TypeOK, NEW r \in Requests, NEW c \in Customers, ~row[c].exists,
         NEW password, NEW role, row' = [row EXCEPT ![c] = NewRow(Ask[r], password, role)],
         Ask[r].number # Null, NEW email, ~IsDuplicate(Customers, Null, email, Ask[r].number),
         \A d \in Customers : ~HasOldForm(d, Ask[r].number)
  PROVE  NumbersStayApart
  <1> DEFINE n == Ask[r].number
  <1>1. n \in Numbers
    BY AccountsAssumption DEF Question
  <1>2. row'[c] = NewRow(Ask[r], password, role) /\ \A d \in Customers \ {c} : row'[d] = row[d]
    BY DEF TypeOK, DataTypes, Accounts
  <1>3. row'[c].phone = [number |-> n, form |-> "+84"]
    BY <1>2 DEF NewRow
  <1>4. \A d \in Customers \ {Null} : Visible(d) => row[d].phone.number # n
    BY FreeNumber
  <1>5. Null \notin Customers
    BY AccountsAssumption DEF Accounts
  <1>6. Numbered(c, n)
    BY <1>3, <1>4, <1>5 DEF Numbered
  <1>7. \A d \in Customers \ {c} : PhoneKept(d)
    BY <1>2 DEF PhoneKept
  <1> QED BY <1>1, <1>6, <1>7 DEF NumbersStayApart

LEMMA StepNumbers ==
  ASSUME TypeOK, PhoneInv, NEW r \in Requests, RowIsKnown(r), Step(r)
  PROVE  NumbersStayApart
  <1>0. NumberIsKnown(r) /\ row \in [Accounts -> Row]
    BY DEF PhoneInv, TypeOK, DataTypes
  <1>1. CASE UNCHANGED row
    BY <1>1 DEF NumbersStayApart, PhoneKept
  <1>2. CASE Quiet(r)
    BY <1>1, <1>2, QuietKeepsData DEF data
  <1>3. CASE AnswerLogin(r) \/ LoginExistingGoogleCustomer(r) \/ GoogleFindsIdentity(r)
    BY <1>1, <1>3 DEF AnswerLogin, LoginExistingGoogleCustomer, GoogleFindsIdentity
  <1>4. CASE RegisterCustomer(r)
    <2>1. RowsOf["customer"] = Customers
      BY DEF RowsOf
    <2>2. Ask[r].number # Null /\ \A c \in Customers : ~HasOldForm(c, Ask[r].number)
      BY <1>0, <1>4, RequestAssumption DEF RegisterCustomer, At, NumberIsKnown
    <2> QED BY <1>1, <1>4, <2>1, <2>2, InsertNumbers DEF RegisterCustomer, InsertAccount
  <1>5. CASE CreateUser(r)
    <2>1. RowsOf["user"] = Users
      BY DEF RowsOf
    <2>2. \/ UNCHANGED row
          \/ \E a \in Users : \E new : row' = [row EXCEPT ![a] = new]
      BY <1>5, <2>1 DEF CreateUser, InsertAccount
    <2>3. \A c \in Customers : row'[c] = row[c]
      BY <1>0, <2>2, AccountsAssumption DEF Accounts
    <2> QED BY <2>3 DEF NumbersStayApart, PhoneKept
  <1>6. CASE GoogleCreate(r)
    <2>1. Ask[r].number # Null /\ \A c \in Customers : ~HasOldForm(c, Ask[r].number)
      BY <1>0, <1>6 DEF GoogleCreate, At, NumberIsKnown
    <2> QED BY <1>1, <1>6, <2>1, InsertNumbers DEF GoogleCreate
  <1>7. CASE UpdateMe(r)
    <2> DEFINE c == Ask[r].actor
               n == Ask[r].number
    <2>1. c \in Customers /\ n \in Numbers \cup {Null}
      BY <1>7, RequestAssumption, AccountsAssumption DEF UpdateMe, At, Question
    <2>2. ASSUME row' = [row EXCEPT ![c] = WithContact(@, Ask[r])],
                 ~IsDuplicate(Customers, c, Ask[r].email, n)
          PROVE  NumbersStayApart
      <3>1. row'[c] = WithContact(row[c], Ask[r]) /\ row[c] \in Row
        BY <1>0, <2>1, <2>2 DEF Accounts
      <3>2. /\ row'[c].exists = row[c].exists /\ row'[c].deleted = row[c].deleted
            /\ row'[c].phone = IF n = Null THEN row[c].phone ELSE [number |-> n, form |-> "+84"]
        BY <3>1 DEF WithContact, Row
      <3>3. \A d \in Customers \ {c} : row'[d] = row[d]
        BY <1>0, <2>2 DEF Accounts
      <3>4. \A d \in Customers \ {c} : PhoneKept(d)
        BY <3>3 DEF PhoneKept
      <3>5. CASE n = Null
        BY <3>2, <3>4, <3>5 DEF NumbersStayApart, PhoneKept
      <3>6. CASE n # Null
        <4>1. \A d \in Customers \ {c} : ~HasOldForm(d, n)
          BY <1>0, <1>7, <3>6 DEF UpdateMe, At, NumberIsKnown
        <4>2. \A d \in Customers \ {c} : Visible(d) => row[d].phone.number # n
          BY <2>1, <2>2, <3>6, <4>1, FreeNumber
        <4> QED BY <2>1, <3>2, <3>4, <3>6, <4>2 DEF NumbersStayApart, Numbered
      <3> QED BY <3>5, <3>6
    <2> QED BY <1>1, <1>7, <2>2 DEF UpdateMe
  <1>8. CASE ChangeOwnPassword(r) \/ SetInitialPassword(r) \/ SaveStatus(r)
    <2> DEFINE a == Target(r)
    <2>1. a \in Accounts /\ seen[r] = {Entry(a)} /\ Entry(a).account = a /\ row[a] \in Row
      BY <1>0, <1>8 DEF RowIsKnown, ChangeOwnPassword, SetInitialPassword, SaveStatus, At, Entry
    <2>2. \/ row' = row
          \/ row' = [row EXCEPT ![a] = WithPassword(@, Entry(a), Ask[r].newPassword)]
          \/ row' = [row EXCEPT ![a].status = Ask[r].status, ![a].version = Entry(a).version + 1]
      BY <1>8, <2>1 DEF ChangeOwnPassword, SetInitialPassword, SaveStatus
    <2>3. /\ row'[a].exists = row[a].exists /\ row'[a].deleted = row[a].deleted
          /\ row'[a].phone = row[a].phone
      <3>1. DOMAIN row = Accounts /\ row[a] \in Row
        BY <1>0, <2>1
      <3>2. CASE row' = [row EXCEPT ![a] = WithPassword(@, Entry(a), Ask[r].newPassword)]
        <4>1. row'[a] = WithPassword(row[a], Entry(a), Ask[r].newPassword)
          BY <2>1, <3>1, <3>2
        <4> QED BY <3>1, <4>1 DEF WithPassword, Row
      <3>3. CASE row' = [row EXCEPT ![a].status = Ask[r].status, ![a].version = Entry(a).version + 1]
        BY <2>1, <3>1, <3>3 DEF Row
      <3> QED BY <2>2, <3>2, <3>3
    <2>4. \A d \in Accounts \ {a} : row'[d] = row[d]
      BY <1>0, <2>2
    <2> QED BY <2>1, <2>3, <2>4 DEF NumbersStayApart, PhoneKept, Accounts
  <1>9. CASE UpdateUser(r)
    <2>1. Target(r) \in Users /\ seen[r] = {Entry(Target(r))} /\ Entry(Target(r)).account = Target(r)
      BY <1>9, RequestAssumption DEF UpdateUser, At, RowIsKnown, Target, Entry
    <2>2. \/ row' = row
          \/ \E new : row' = [row EXCEPT ![Target(r)] = new]
      BY <1>9, <2>1 DEF UpdateUser
    <2>3. \A c \in Customers : row'[c] = row[c]
      BY <1>0, <2>1, <2>2, AccountsAssumption DEF Accounts
    <2> QED BY <2>3 DEF NumbersStayApart, PhoneKept
  <1>10. CASE ApplyPlan(r)
    <2>1. PICK as : \/ row' = row
                    \/ row' = [b \in Accounts |->
                         IF b \in as THEN [row[b] EXCEPT !.phone.form = "+84"] ELSE row[b]]
      BY <1>10 DEF ApplyPlan
    <2>2. ASSUME NEW c \in Customers PROVE PhoneKept(c) \/ Normalized(c)
      <3>1. row[c] \in Row /\ c \in Accounts
        BY <1>0 DEF Accounts
      <3>2. row'[c] = row[c] \/ row'[c] = [row[c] EXCEPT !.phone.form = "+84"]
        BY <2>1, <3>1
      <3> QED BY <3>1, <3>2 DEF PhoneKept, Normalized, Row, Phones
    <2> QED BY <2>2 DEF NumbersStayApart
  <1> QED BY <1>2, <1>3, <1>4, <1>5, <1>6, <1>7, <1>8, <1>9, <1>10
          DEF Step, Quiet, Login, Create, LoginWithGoogle, ChangeProfile, ChangeAccount,
              NormalizePhones

\* What a request has looked up.
LEMMA LookUpsKnowNumbers ==
  ASSUME TypeOK, PhoneInv, NEW r \in Requests, Step(r)
  PROVE  \/ NumberIsKnown(r)' /\ UNCHANGED row
         \/ stage'[r] \notin {"checked", "transaction", "inserting"}
  <1>0. stage \in [Requests -> Stages] /\ NumberIsKnown(r)
    BY DEF TypeOK, ControlTypes, PhoneInv
  <1>1. ASSUME NEW what, Answer(r, what)
        PROVE  stage'[r] \notin {"checked", "transaction", "inserting"}
    BY <1>0, <1>1 DEF Answer
  <1>2. ASSUME NEW next, NEW entries, Continue(r, next, entries)
        PROVE  stage'[r] = next
    BY <1>0, <1>2 DEF Continue
  <1>3. ASSUME UNCHANGED row, NEW c \in Customers, HasOldForm(c, Ask[r].number)'
        PROVE  HasOldForm(c, Ask[r].number)
    BY <1>3 DEF HasOldForm, Visible
  <1>4. Null \notin Customers
    BY AccountsAssumption DEF Accounts
  <1>5. CASE RegisterLookUp(r)
    <2>1. CASE Taken(Customers, Null, Ask[r].email, Ask[r].number)
      BY <1>1, <1>5, <2>1 DEF RegisterLookUp
    <2>2. CASE ~Taken(Customers, Null, Ask[r].email, Ask[r].number)
      <3>1. Ask[r].kind = "register" /\ stage'[r] = "checked" /\ UNCHANGED row
        BY <1>2, <1>5, <2>2 DEF RegisterLookUp, At, data
      <3>2. Ask[r].number # Null
        BY <3>1, RequestAssumption
      <3>3. \A c \in Customers : ~HasOldForm(c, Ask[r].number)
        BY <1>4, <2>2, <3>2 DEF Taken, HasPhone, HasOldForm
      <3> QED BY <1>3, <3>1, <3>3 DEF NumberIsKnown
    <2> QED BY <2>1, <2>2
  <1>6. CASE CreateUserLookUp(r)
    <2>1. Ask[r].kind = "hire" /\ UNCHANGED row
      BY <1>6 DEF CreateUserLookUp, At, data
    <2> QED BY <2>1 DEF NumberIsKnown
  <1>7. CASE GoogleLookUp(r)
    <2>1. CASE Answer(r, "conflict") \/ Answer(r, "phone required")
      BY <1>1, <2>1
    <2>2. CASE Ask[r].number # Null /\ Continue(r, "transaction", {})
      <3>1. Ask[r].kind = "google" /\ stage'[r] = "transaction" /\ UNCHANGED row
        BY <1>2, <1>7, <2>2 DEF GoogleLookUp, At, data
      <3> QED BY <2>2, <3>1 DEF NumberIsKnown
    <2> QED BY <1>7, <2>1, <2>2 DEF GoogleLookUp
  <1>8. CASE GoogleTransaction(r)
    <2>1. CASE Answer(r, "conflict")
      BY <1>1, <2>1
    <2>2. CASE ~Answer(r, "conflict")
      <3>1. /\ Ask[r].kind = "google" /\ stage[r] = "transaction" /\ UNCHANGED row
            /\ ~\E c \in Customers : row[c].exists /\ HasPhone(c, Ask[r].number)
            /\ Continue(r, "inserting", {})
        BY <1>8, <2>2 DEF GoogleTransaction, At, data
      <3>2. Ask[r].number # Null
        BY <1>0, <3>1 DEF NumberIsKnown
      <3>3. \A c \in Customers : ~HasOldForm(c, Ask[r].number)
        BY <3>1, <3>2 DEF HasPhone, HasOldForm, Visible
      <3>4. stage'[r] = "inserting"
        BY <1>2, <3>1
      <3> QED BY <1>3, <3>1, <3>2, <3>3, <3>4 DEF NumberIsKnown
    <2> QED BY <2>1, <2>2
  <1>9. CASE AssertContactAvailable(r)
    <2> DEFINE a == Ask[r].actor
    <2>1. CASE Answer(r, "conflict")
      BY <1>1, <2>1
    <2>2. CASE ~Answer(r, "conflict")
      <3>1. /\ Ask[r].kind = "profile" /\ UNCHANGED row
            /\ ~Taken(Customers, a, Ask[r].email, Ask[r].number)
            /\ Continue(r, "checked", seen[r])
        BY <1>9, <2>2 DEF AssertContactAvailable, At, data
      <3>2. Ask[r].number # Null => \A c \in Customers \ {a} : ~HasOldForm(c, Ask[r].number)
        BY <3>1 DEF Taken, HasPhone, HasOldForm
      <3>3. stage'[r] = "checked"
        BY <1>2, <3>1
      <3> QED BY <1>3, <3>1, <3>2, <3>3 DEF NumberIsKnown
    <2> QED BY <2>1, <2>2
  <1>10. CASE \/ Authenticate(r) \/ GetMe(r) \/ Login(r) \/ RegisterCustomer(r) \/ CreateUser(r)
              \/ FindIdentity(r) \/ LoginExistingGoogleCustomer(r) \/ GoogleFindsIdentity(r)
              \/ GoogleCreate(r) \/ GoogleDeadlock(r) \/ ReadProfile(r) \/ UpdateMe(r)
              \/ AnswerProfile(r) \/ ChangeAccount(r) \/ NormalizePhones(r)
    <2>1. \/ \E what : Answer(r, what)
          \/ \E next, entries : /\ next \notin {"checked", "transaction", "inserting"}
                                /\ Continue(r, next, entries)
      <3>1. CASE Authenticate(r) \/ GetMe(r) \/ Login(r) \/ RegisterCustomer(r) \/ CreateUser(r)
        BY <3>1 DEF Authenticate, GetMe, Login, FindAccounts, AnswerLogin, RegisterCustomer,
                    CreateUser, InsertAccount
      <3>2. CASE FindIdentity(r) \/ LoginExistingGoogleCustomer(r) \/ GoogleFindsIdentity(r)
        BY <3>2 DEF FindIdentity, LoginExistingGoogleCustomer, GoogleToken, GoogleFindsIdentity
      <3>3. CASE GoogleCreate(r) \/ GoogleDeadlock(r) \/ ReadProfile(r) \/ UpdateMe(r)
        BY <3>3 DEF GoogleCreate, GoogleDeadlock, ReadProfile, UpdateMe
      <3>4. CASE AnswerProfile(r) \/ ChangeAccount(r)
        BY <3>4 DEF AnswerProfile, ChangeAccount, LockAccount, ChangeOwnPassword,
                    SetInitialPassword, SaveStatus, UpdateUser
      <3>5. CASE NormalizePhones(r)
        BY <3>5 DEF NormalizePhones, Preflight, LockTable, ApplyPlan
      <3> QED BY <1>10, <3>1, <3>2, <3>3, <3>4, <3>5
    <2> QED BY <1>1, <1>2, <2>1
  <1> QED BY <1>5, <1>6, <1>7, <1>8, <1>9, <1>10
          DEF Step, Create, LoginWithGoogle, ChangeProfile

LEMMA StepKeepsNumbers ==
  ASSUME TypeOK, PhoneInv, NEW r \in Requests, RowIsKnown(r), Step(r)
  PROVE  PhoneInv'
  <1>1. NumbersStayApart /\ Changes(r)
    BY StepNumbers, StepChanges
  <1>2. ASSUME NEW c \in Customers, row[c].exists
        PROVE  row'[c].exists
    BY <1>1, <1>2 DEF Changes, Kept, PasswordChanged, StatusChanged, Created, Accounts
  <1>3. ASSUME NEW c \in Customers, NEW n, HasOldForm(c, n)' PROVE HasOldForm(c, n)
    <2>1. PhoneKept(c) \/ row'[c].phone.form = "+84"
      <3>1. CASE PhoneKept(c) \/ Normalized(c)
        BY <3>1 DEF Normalized
      <3>2. CASE \E m \in Numbers : Numbered(c, m)
        BY <3>2 DEF Numbered
      <3> QED BY <1>1, <3>1, <3>2 DEF NumbersStayApart
    <2> QED BY <1>3, <2>1 DEF PhoneKept, HasOldForm, Visible
  <1>4. ASSUME NEW c \in Customers, row'[c].exists PROVE row'[c].phone.number # Null
    <2>1. CASE PhoneKept(c) \/ Normalized(c)
      BY <1>4, <2>1 DEF PhoneInv, PhoneKept, Normalized
    <2>2. CASE \E n \in Numbers : Numbered(c, n)
      BY <2>2 DEF Numbered
    <2> QED BY <1>1, <2>1, <2>2 DEF NumbersStayApart
  <1>5. OnePersonPerPhone'
    <2> SUFFICES ASSUME NEW a \in Customers, NEW b \in Customers, a # b,
                        Visible(a)', Visible(b)', row'[a].phone.number = row'[b].phone.number
                 PROVE  FALSE
      BY DEF OnePersonPerPhone
    <2>1. CASE \A c \in Customers : PhoneKept(c) \/ Normalized(c)
      <3>1. Visible(a) /\ Visible(b) /\ row[a].phone.number = row[b].phone.number
        BY <2>1 DEF PhoneKept, Normalized, Visible
      <3> QED BY <3>1 DEF PhoneInv, OnePersonPerPhone
    <2>2. ASSUME NEW c \in Customers, NEW n \in Numbers, Numbered(c, n),
                 \A d \in Customers \ {c} : PhoneKept(d)
          PROVE  FALSE
      <3>1. row'[c].phone.number = n
        BY <2>2 DEF Numbered
      <3>2. \A d \in Customers \ {c} : Visible(d)' => row'[d].phone.number # n
        BY <2>2 DEF Numbered, PhoneKept, Visible
      <3>3. CASE a # c /\ b # c
        <4>1. Visible(a) /\ Visible(b) /\ row[a].phone.number = row[b].phone.number
          BY <2>2, <3>3 DEF PhoneKept, Visible
        <4> QED BY <4>1 DEF PhoneInv, OnePersonPerPhone
      <3> QED BY <3>1, <3>2, <3>3
    <2> QED BY <1>1, <2>1, <2>2 DEF NumbersStayApart
  <1>6. ASSUME NEW q \in Requests, stage'[q] = stage[q] PROVE NumberIsKnown(q)'
    BY <1>3, <1>6 DEF PhoneInv, NumberIsKnown
  <1>7. NumberIsKnown(r)'
    BY LookUpsKnowNumbers DEF NumberIsKnown
  <1>8. \A q \in Requests : NumberIsKnown(q)'
    BY <1>6, <1>7, OthersGoOn
  <1> QED BY <1>4, <1>5, <1>8 DEF PhoneInv

LEMMA InitNumbers == Init => PhoneInv
  BY ExistingAssumption DEF Init, PhoneInv, OnePersonPerPhone, Visible, NumberIsKnown

-----------------------------------------------------------------------------
(* The theorems *)

LEMMA HistoryAlways == Spec => [](AuditInv /\ PhoneInv)
  <1>1. TypeOK /\ CredentialInv /\ AuditInv /\ PhoneInv /\ [Next]_vars => AuditInv' /\ PhoneInv'
    <2> SUFFICES ASSUME TypeOK, CredentialInv, AuditInv, PhoneInv, [Next]_vars
                 PROVE  AuditInv' /\ PhoneInv'
      OBVIOUS
    <2>1. CASE UNCHANGED vars
      BY <2>1 DEF vars, data, AuditInv, AuditTellsStatus, StatusBefore, PhoneInv,
                  OnePersonPerPhone, Visible, NumberIsKnown, HasOldForm
    <2>2. ASSUME NEW r \in Requests, Step(r) PROVE AuditInv' /\ PhoneInv'
      <3>1. RowIsKnown(r)
        BY DEF CredentialInv
      <3> QED BY <2>2, <3>1, StepChanges, StepKeepsAudit, StepKeepsNumbers
    <2> QED BY <2>1, <2>2 DEF Next, Step
  <1> QED BY <1>1, InitAudit, InitNumbers, TypesAlways, CredentialsAlways, PTL DEF Spec

\* Every account row, token, audit record and request has its type.
THEOREM AccountsTypeCorrect == Spec => []TypeOK
  BY TypesAlways

\* However long a password is verified, no token that the API takes was
\* obtained with a password or an identity that is no longer the account's, or
\* before the account was locked or unlocked.
THEOREM UsableTokensAlwaysProveCredentials == Spec => []UsableTokensProveCredentials
  <1>1. TypeOK /\ CredentialInv => UsableTokensProveCredentials
    BY DEF TypeOK, DataTypes, CredentialInv, TokenIsTrue, UsableTokensProveCredentials, Resolves
  <1> QED BY <1>1, TypesAlways, CredentialsAlways, PTL

\* Every change of an account's status is in the audit log, in order.
THEOREM AuditAlwaysTellsStatus == Spec => []AuditTellsStatus
  <1>1. AuditInv => AuditTellsStatus
    BY DEF AuditInv
  <1> QED BY <1>1, HistoryAlways, PTL

\* Two customers never share a phone number, whatever forms older releases have
\* stored and however registrations, profile changes and the script interleave.
THEOREM OnePersonPerPhoneAlways == Spec => []OnePersonPerPhone
  <1>1. PhoneInv => OnePersonPerPhone
    BY DEF PhoneInv
  <1> QED BY <1>1, HistoryAlways, PTL

\* A Google identity only ever comes into being together with its customer.
THEOREM GoogleAdoptsNoAccount == Spec => GoogleNeverAdoptsAccount
  <1>1. TypeOK /\ [Next]_vars =>
          [\A s \in Subjects : identity'[s] # identity[s] =>
             /\ identity[s] = Null
             /\ ~row[identity'[s]].exists /\ row'[identity'[s]].exists]_vars
    <2>1. ASSUME TypeOK, NEW r \in Requests, Step(r) PROVE IdentitiesGrow
      BY <2>1, IdentitiesOnlyGrow
    <2> QED BY <2>1 DEF Next, Step, IdentitiesGrow
  <1> QED BY <1>1, TypesAlways, PTL DEF Spec, GoogleNeverAdoptsAccount
=============================================================================
