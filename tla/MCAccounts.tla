----------------------------- MODULE MCAccounts -----------------------------
(***************************************************************************)
(* Small instances of Accounts for TLC: a registered customer, a customer  *)
(* of the counter without a password whose phone has an old form, a        *)
(* deleted customer, an administrator, and room for one more customer and  *)
(* one more user.  Any AtOnce of the requests arrive together; the one     *)
(* that only reads comes with two that change what it reads.               *)
(***************************************************************************)
EXTENDS AccountsProperties, TLC

CONSTANTS
  c1, c2, c3, c4, admin, staff, AtOnce

MCNobody == [number |-> Null, form |-> "+84"]
MCNoRow == [exists |-> FALSE, deleted |-> FALSE, status |-> "ACTIVE", password |-> Null,
            version |-> 0, email |-> Null, phone |-> MCNobody, role |-> "CUSTOMER"]
MCAccountRows ==
  c1 :> [MCNoRow EXCEPT !.exists = TRUE, !.password = "p1", !.email = "e1",
                                 !.phone = [number |-> "n1", form |-> "+84"]]
  @@ c2 :> [MCNoRow EXCEPT !.exists = TRUE, !.phone = [number |-> "n2", form |-> "0"]]
  @@ c4 :> [MCNoRow EXCEPT !.exists = TRUE, !.deleted = TRUE,
                                 !.phone = [number |-> "n4", form |-> "84"]]
  @@ admin :> [MCNoRow EXCEPT !.exists = TRUE, !.password = "p1", !.email = "e1",
                                    !.role = "ADMIN"]
  @@ [a \in Accounts |-> MCNoRow]
MCExisting == MCAccountRows
MCIdentified == [s \in Subjects |-> Null]

MCAnything ==
  [kind |-> "login", tables |-> {}, identifier |-> Null, actor |-> Null, account |-> Null,
   email |-> Null, number |-> Null, password |-> Null, newPassword |-> Null,
   status |-> "ACTIVE", subject |-> Null]
MCQuestions ==
  "login" :> [MCAnything EXCEPT !.tables = {"customer"}, !.identifier = "n1", !.password = "p1"]
  @@ "loginAny" :> [MCAnything EXCEPT !.tables = {"customer", "user"}, !.identifier = "e1", !.password = "p1"]
  @@ "loginUser" :> [MCAnything EXCEPT !.tables = {"user"}, !.identifier = "e1", !.password = "p2"]
  @@ "register" :> [MCAnything EXCEPT !.kind = "register", !.email = "e2", !.number = "n2", !.password = "p1"]
  @@ "register3" :> [MCAnything EXCEPT !.kind = "register", !.email = "e2", !.number = "n3", !.password = "p1"]
  @@ "register4" :> [MCAnything EXCEPT !.kind = "register", !.email = "e3", !.number = "n4", !.password = "p1"]
  @@ "google" :> [MCAnything EXCEPT !.kind = "google", !.subject = "s1", !.email = "e2", !.number = "n3"]
  @@ "google2" :> [MCAnything EXCEPT !.kind = "google", !.subject = "s1", !.email = "e3", !.number = "n5"]
  @@ "googleFirst" :> [MCAnything EXCEPT !.kind = "google", !.subject = "s1", !.email = "e3"]
  @@ "profile" :> [MCAnything EXCEPT !.kind = "profile", !.actor = c1, !.email = "e2", !.number = "n3"]
  @@ "profile2" :> [MCAnything EXCEPT !.kind = "profile", !.actor = c1, !.number = "n2"]
  @@ "password" :> [MCAnything EXCEPT !.kind = "password", !.actor = c1, !.password = "p1", !.newPassword = "p2"]
  @@ "password2" :> [MCAnything EXCEPT !.kind = "password", !.actor = c1, !.password = "p2", !.newPassword = "p1"]
  @@ "initial" :> [MCAnything EXCEPT !.kind = "initial", !.actor = admin, !.account = c2, !.newPassword = "p2"]
  @@ "initial2" :> [MCAnything EXCEPT !.kind = "initial", !.actor = admin, !.account = c2, !.newPassword = "p2"]
  @@ "lock" :> [MCAnything EXCEPT !.kind = "status", !.actor = admin, !.account = c1, !.status = "LOCKED"]
  @@ "lock2" :> [MCAnything EXCEPT !.kind = "status", !.actor = admin, !.account = c1, !.status = "LOCKED"]
  @@ "lockNew" :> [MCAnything EXCEPT !.kind = "status", !.actor = admin, !.account = c3, !.status = "LOCKED"]
  @@ "unlock" :> [MCAnything EXCEPT !.kind = "status", !.actor = admin, !.account = c1]
  @@ "lockSelf" :> [MCAnything EXCEPT !.kind = "status", !.actor = admin, !.account = admin, !.status = "LOCKED"]
  @@ "reset" :> [MCAnything EXCEPT !.kind = "staff", !.actor = admin, !.account = admin, !.newPassword = "p2"]
  @@ "hire" :> [MCAnything EXCEPT !.kind = "hire", !.actor = admin, !.email = "e2", !.number = "n1", !.password = "p1"]
  @@ "hire2" :> [MCAnything EXCEPT !.kind = "hire", !.actor = admin, !.email = "e3", !.number = "n1", !.password = "p1"]
  @@ "me" :> [MCAnything EXCEPT !.kind = "me", !.actor = c1]
  @@ "normalize" :> [MCAnything EXCEPT !.kind = "normalize"]

MCAsk == MCQuestions

MCArrivals ==
  {s \in SUBSET (Requests \ {"me"}) : Cardinality(s) = AtOnce} \cup {{"me", "lock", "unlock"}}
=============================================================================
