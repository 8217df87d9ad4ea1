--------------------------------- MODULE Login ---------------------------------
(***************************************************************************)
(* POST /v1/auth/google: requests that log in with a Google authorization  *)
(* code, concurrently, over the table users.  google_login                 *)
(* (app/services/auth_service.py) exchanges and verifies the code, looks   *)
(* the user up, inserts or updates it, commits and makes the tokens; each  *)
(* await between them lets another request run.                            *)
(***************************************************************************)
EXTENDS Naturals

CONSTANTS
    Requests,     \* login requests
    Codes,        \* authorization codes handed out by Google
    Accounts,     \* Google accounts: (provider, provider_user_id)
    OwnerOf,      \* the account a code was issued to
    ProfileOf,    \* email and name in its id_token, NoProfile if absent
    Profiles,
    NoProfile, NoCode, NoWrite

ASSUME LoginOK ==
    /\ OwnerOf \in [Codes -> Accounts]
    /\ ProfileOf \in [Codes -> Profiles \union {NoProfile}]
    /\ NoProfile \notin Profiles
    /\ NoCode \notin Codes

User == [id : Nat \ {0}, account : Accounts, profile : Profiles \union {NoProfile}]

ASSUME WriteOK == NoWrite \notin User

VARIABLES
    users,      \* table users: its committed rows
    serial,     \* last value of the id sequence
    spent,      \* codes Google has exchanged; it exchanges a code once
    pc,         \* where each request stands in google_login
    code,       \* the code it carries
    user,       \* id of the user its session has loaded or stored, 0 if none
    profile,    \* the profile its UPDATE will set
    write,      \* the row its transaction has written and not committed
    answer      \* its HTTP answer

loginVars == <<users, serial, spent, pc, code, user, profile, write, answer>>

(* Answers as clients tell them apart: tokens for a user, or none (a 400, a  *)
(* 500 or a broken connection).                                             *)
NoAnswer == [status |-> "none", sub |-> 0, code |-> NoCode]
Failed == [NoAnswer EXCEPT !.status = "failed"]
Tokens(r) == [status |-> "ok", sub |-> user[r], code |-> code[r]]

LoginInit ==
    /\ users = {} /\ serial = 0 /\ spent = {}
    /\ pc = [r \in Requests |-> "idle"]
    /\ code = [r \in Requests |-> NoCode]
    /\ user = [r \in Requests |-> 0]
    /\ profile = [r \in Requests |-> NoProfile]
    /\ write = [r \in Requests |-> NoWrite]
    /\ answer = [r \in Requests |-> NoAnswer]

Account(r) == OwnerOf[code[r]]
Goto(r, next) == pc' = [pc EXCEPT ![r] = next]

(* Faulty variant: the session of a request that failed is not closed. *)
ReplyUnclosed(r, a) ==
    /\ Goto(r, "answered")
    /\ answer' = [answer EXCEPT ![r] = a]
    /\ code' = [code EXCEPT ![r] = NoCode]
    /\ user' = [user EXCEPT ![r] = 0]
    /\ profile' = [profile EXCEPT ![r] = NoProfile]
    /\ UNCHANGED write

(* The request is over; get_db rolls back what its session has not committed. *)
Reply(r, a) ==
    /\ Goto(r, "answered")
    /\ answer' = [answer EXCEPT ![r] = a]
    /\ code' = [code EXCEPT ![r] = NoCode]
    /\ user' = [user EXCEPT ![r] = 0]
    /\ profile' = [profile EXCEPT ![r] = NoProfile]
    /\ write' = [write EXCEPT ![r] = NoWrite]
-------------------------------------------------------------------------------
BeginLogin(r, c) ==
    /\ pc[r] = "idle"
    /\ code' = [code EXCEPT ![r] = c]
    /\ Goto(r, "exchange")
    /\ UNCHANGED <<users, serial, spent, user, profile, write, answer>>

(* get_db raises RuntimeError: the process has no session maker. *)
NoSession(r) ==
    /\ pc[r] = "idle"
    /\ Reply(r, Failed)
    /\ UNCHANGED <<users, serial, spent>>

(* Google exchanges the code and the id_token's signature is valid. *)
Identify(r) ==
    /\ pc[r] = "exchange"
    /\ code[r] \notin spent
    /\ spent' = spent \union {code[r]}
    /\ Goto(r, "lookup")
    /\ UNCHANGED <<users, serial, code, user, profile, write, answer>>

(* AuthError (code refused, no id_token, bad signature), answered 400, or an *)
(* httpx or transport exception, which is no AuthError and becomes a 500.   *)
(* Either way Google may have spent the code.                               *)
IdentifyFails(r) ==
    /\ pc[r] = "exchange"
    /\ spent' \in {spent, spent \union {code[r]}}
    /\ Reply(r, Failed)
    /\ UNCHANGED <<users, serial>>

(* Faulty variant: an empty claim is taken for the profile. *)
LookupErases(r) ==
    /\ pc[r] = "lookup"
    /\ \/ /\ \A u \in users : u.account # Account(r)
          /\ Goto(r, "insert")
          /\ UNCHANGED <<user, profile>>
       \/ \E u \in users :
             LET claim == ProfileOf[code[r]] IN
             /\ u.account = Account(r)
             /\ user' = [user EXCEPT ![r] = u.id]
             /\ IF claim = u.profile
                THEN Goto(r, "commit") /\ UNCHANGED profile
                ELSE Goto(r, "update") /\ profile' = [profile EXCEPT ![r] = claim]
    /\ UNCHANGED <<users, serial, spent, code, write, answer>>

(* get_by_provider_uid reads committed rows.  For a user that exists,       *)
(* `data.email or user.email` keeps what is stored when the claim is empty, *)
(* and SQLAlchemy sends an UPDATE only for a value that differs.            *)
Lookup(r) ==
    /\ pc[r] = "lookup"
    /\ \/ /\ \A u \in users : u.account # Account(r)
          /\ Goto(r, "insert")
          /\ UNCHANGED <<user, profile>>
       \/ \E u \in users :
             LET claim == ProfileOf[code[r]] IN
             /\ u.account = Account(r)
             /\ user' = [user EXCEPT ![r] = u.id]
             /\ IF claim \in {NoProfile, u.profile}
                THEN Goto(r, "commit") /\ UNCHANGED profile
                ELSE Goto(r, "update") /\ profile' = [profile EXCEPT ![r] = claim]
    /\ UNCHANGED <<users, serial, spent, code, write, answer>>

(* PostgreSQL lets a statement wait while another transaction has an        *)
(* uncommitted row with the same unique key, or has updated the row.        *)
Unlocked(r) ==
    \A q \in Requests : write[q] # NoWrite => write[q].account # Account(r)

NewUser(r) == [id |-> serial + 1, account |-> Account(r), profile |-> ProfileOf[code[r]]]

(* Faulty variant: without uq_user_provider_uid nothing stops the INSERT. *)
InsertUnchecked(r) ==
    /\ pc[r] = "insert"
    /\ write' = [write EXCEPT ![r] = NewUser(r)]
    /\ user' = [user EXCEPT ![r] = serial + 1]
    /\ serial' = serial + 1
    /\ Goto(r, "commit")
    /\ UNCHANGED <<users, spent, code, profile, answer>>

(* session.add and flush: the INSERT. *)
Insert(r) ==
    /\ pc[r] = "insert"
    /\ Unlocked(r)
    /\ \A u \in users : u.account # Account(r)
    /\ write' = [write EXCEPT ![r] = NewUser(r)]
    /\ user' = [user EXCEPT ![r] = serial + 1]
    /\ serial' = serial + 1
    /\ Goto(r, "commit")
    /\ UNCHANGED <<users, spent, code, profile, answer>>

(* Faulty variant: the IntegrityError is caught and the INSERT sent again. *)
InsertConflictRetried(r) ==
    /\ pc[r] = "insert"
    /\ Unlocked(r)
    /\ \E u \in users : u.account = Account(r)
    /\ UNCHANGED loginVars

(* uq_user_provider_uid: another login has registered the account since the *)
(* lookup.  Nothing catches the IntegrityError.                             *)
InsertConflict(r) ==
    /\ pc[r] = "insert"
    /\ Unlocked(r)
    /\ \E u \in users : u.account = Account(r)
    /\ Reply(r, Failed)
    /\ UNCHANGED <<users, serial, spent>>

(* flush: the UPDATE by primary key, of the changed columns only. *)
Update(r) ==
    /\ pc[r] = "update"
    /\ Unlocked(r)
    /\ \E u \in users :
          /\ u.id = user[r]
          /\ write' = [write EXCEPT ![r] = [u EXCEPT !.profile = profile[r]]]
    /\ Goto(r, "commit")
    /\ UNCHANGED <<users, serial, spent, code, user, profile, answer>>

(* The table after the transaction of r has committed. *)
Stored(r) ==
    IF write[r] = NoWrite THEN users
    ELSE {u \in users : u.id # write[r].id} \union {write[r]}

(* session.refresh reads back the row of this transaction, then COMMIT. *)
Commit(r) ==
    /\ pc[r] = "commit"
    /\ users' = Stored(r)
    /\ write' = [write EXCEPT ![r] = NoWrite]
    /\ Goto(r, "tokens")
    /\ UNCHANGED <<serial, spent, code, user, profile, answer>>

(* A statement or the connection fails; a failed COMMIT may have committed. *)
LoginDbError(r) ==
    /\ pc[r] \in {"lookup", "insert", "update", "commit"}
    /\ users' \in {users, Stored(r)}
    /\ Reply(r, Failed)
    /\ UNCHANGED <<serial, spent>>

(* Faulty variant: the tokens are made before the commit. *)
IssueTokensEarly(r) ==
    /\ pc[r] \in {"commit", "tokens"}
    /\ Reply(r, Tokens(r))
    /\ UNCHANGED <<users, serial, spent>>

(* create_jwt_pair: both tokens carry the user's id. *)
IssueTokens(r) ==
    /\ pc[r] = "tokens"
    /\ Reply(r, Tokens(r))
    /\ UNCHANGED <<users, serial, spent>>

(* JWT_SECRET is empty: AuthError, although the user is committed. *)
RefuseTokens(r) ==
    /\ pc[r] = "tokens"
    /\ Reply(r, Failed)
    /\ UNCHANGED <<users, serial, spent>>

Live(r) == pc[r] \notin {"idle", "answered"}

(* The process dies: PostgreSQL rolls open transactions back, the clients   *)
(* see a broken connection.                                                 *)
LoginCrash ==
    /\ pc' = [r \in Requests |-> IF Live(r) THEN "answered" ELSE pc[r]]
    /\ answer' = [r \in Requests |->
                    IF Live(r) THEN Failed ELSE answer[r]]
    /\ code' = [r \in Requests |-> NoCode]
    /\ user' = [r \in Requests |-> 0]
    /\ profile' = [r \in Requests |-> NoProfile]
    /\ write' = [r \in Requests |-> NoWrite]
    /\ UNCHANGED <<users, serial, spent>>

(* What the event loop does next for a request it has accepted, if nothing  *)
(* it depends on fails; Google refuses a code it has exchanged before.      *)
LoginGoes(r) ==
    \/ Identify(r) \/ (code[r] \in spent /\ IdentifyFails(r))
    \/ Lookup(r) \/ Insert(r) \/ InsertConflict(r) \/ Update(r)
    \/ Commit(r) \/ IssueTokens(r)

LoginStep(r) ==
    LoginGoes(r) \/ IdentifyFails(r) \/ LoginDbError(r) \/ RefuseTokens(r)
-------------------------------------------------------------------------------
Answers == [status : {"none", "ok", "failed"}, sub : Nat,
            code : Codes \union {NoCode}]

LoginTypeOK ==
    /\ users \subseteq User
    /\ serial \in Nat
    /\ spent \subseteq Codes
    /\ pc \in [Requests -> {"idle", "exchange", "lookup", "insert", "update",
                              "commit", "tokens", "answered"}]
    /\ code \in [Requests -> Codes \union {NoCode}]
    /\ user \in [Requests -> Nat]
    /\ profile \in [Requests -> Profiles \union {NoProfile}]
    /\ write \in [Requests -> User \union {NoWrite}]
    /\ answer \in [Requests -> Answers]
    /\ \A r \in Requests : code[r] = NoCode <=> ~Live(r)

(* user_repository.py:25 promises one user per account: however logins of    *)
(* one account overlap, the table never holds two rows for it, and no two    *)
(* rows share an id.                                                         *)
OneUserPerAccount ==
    \A u, v \in users : u.account = v.account \/ u.id = v.id => u = v

(* auth_service.py:128-130: tokens are made after the commit, so that no     *)
(* failure can leave a client with tokens of a user that does not exist, or  *)
(* of somebody else.                                                         *)
TokensOwnUser ==
    \A r \in Requests : answer[r].status = "ok" =>
        \E u \in users : /\ u.id = answer[r].sub
                         /\ u.account = OwnerOf[answer[r].code]

(* user_repository.py:29-31: a login never erases a stored profile, also     *)
(* when its claims are empty or the row has changed since it was read, and   *)
(* no login makes a user disappear.                                          *)
ProfileKept ==
    [][\A u \in users : \E v \in users' :
          /\ v.id = u.id /\ v.account = u.account
          /\ u.profile # NoProfile => v.profile # NoProfile]_loginVars

(* A login has at most one row to wait for, and waits for it only while the  *)
(* other login is at its COMMIT: logins do not deadlock, and no transaction  *)
(* outlives its request (get_db).  The row an UPDATE is for is always there. *)
WaitsForCommit ==
    \A r \in Requests : pc[r] \in {"insert", "update"} =>
        /\ write[r] = NoWrite
        /\ \A q \in Requests : write[q] # NoWrite /\ write[q].account = Account(r)
              => pc[q] = "commit"
        /\ pc[r] = "update" =>
              \E u \in users : u.id = user[r] /\ u.account = Account(r)

(* Every request the process accepts is answered, or lost with the process:  *)
(* logins that wait for each other's rows do not wait for ever.              *)
LoginsAnswered == []<>(\A r \in Requests : ~Live(r))
===============================================================================
