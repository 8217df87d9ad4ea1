----------------------------- MODULE WebApi_proofs -----------------------------
(***************************************************************************)
(* Proofs about WebApi, for any number of requests, codes, accounts,       *)
(* trigger calls, colleges and starts of the process.                      *)
(***************************************************************************)
EXTENDS WebApi, FiniteSetTheorems, TLAPS

(***************************************************************************)
(* The inductive invariants of the three parts, and of what they share.    *)
(***************************************************************************)

(* A fresh process has no database before init_db.                          *)
ProcessInv ==
    /\ ProcessTypeOK
    /\ ServesOnlyProbed
    /\ phase = "imported" => ~db

(* The user a request is about to update or to make tokens for is stored.    *)
Known(r) == \E u \in users : u.id = user[r] /\ u.account = Account(r)

(* An uncommitted row is new, or is the stored row of its account with a     *)
(* profile the request brought.                                              *)
WriteInv(r) ==
    /\ pc[r] = "commit"
    /\ write[r].account = Account(r)
    /\ write[r].id = user[r]
    /\ write[r].id <= serial
    /\ \A u \in users : /\ u.id = write[r].id <=> u.account = write[r].account
                        /\ u.id = write[r].id => write[r].profile # NoProfile

RequestInv(r) ==
    /\ write[r] # NoWrite => WriteInv(r)
    /\ pc[r] \in {"update", "tokens"} => Known(r)
    /\ pc[r] = "commit" /\ write[r] = NoWrite => Known(r)
    /\ pc[r] = "update" => profile[r] # NoProfile
    /\ answer[r].status = "ok" =>
          \E u \in users : u.id = answer[r].sub /\ u.account = OwnerOf[answer[r].code]

(* The locks of PostgreSQL keep uncommitted rows apart.                      *)
WritesApart ==
    \A q, r \in Requests : write[q] # NoWrite /\ write[r] # NoWrite /\ q # r =>
        write[q].account # write[r].account /\ write[q].id # write[r].id

LoginInv ==
    /\ LoginTypeOK
    /\ OneUserPerAccount
    /\ \A u \in users : u.id <= serial
    /\ \A r \in Requests : RequestInv(r)
    /\ WritesApart

(* While the loop of a call runs, the list it builds is what it has           *)
(* published, and the countdowns so far are smaller than the next one.       *)
CallInv(q) ==
    /\ IsFiniteSet(told[q])
    /\ reply[q] \in {"none", "refused"} => Of(q) = {} /\ told[q] = {}
    /\ reply[q] \in {"open", "ok"} => Of(q) = told[q]
    /\ reply[q] = "open" => \A m \in told[q] : m.countdown < Cardinality(told[q])
    /\ reply[q] = "ok" => ToldColleges(q) = asked[q]
    /\ \A m \in Of(q) : m.college \in asked[q]
    /\ \A m, n \in Of(q) : m.college = n.college \/ m.countdown = n.countdown => m = n

TriggerInv == TriggerTypeOK /\ \A q \in Calls : CallInv(q)

WebInv == ProcessInv /\ LoginInv /\ TriggerInv
-------------------------------------------------------------------------------
(***************************************************************************)
(* The process.                                                            *)
(***************************************************************************)

ProcessMove == Import \/ Startup \/ Shutdown \/ ProcessCrash

(* The counters and the flags, apart.                                        *)
Counted ==
    /\ phase \in {"down", "imported", "probing", "serving", "exited", "stopped"}
    /\ tries \in Nat
    /\ boots \in 0..MaxBoots
    /\ phase = "probing" <=> tries > 0

Flagged ==
    /\ db \in BOOLEAN /\ bound \in BOOLEAN
    /\ pool \in {"none", "open", "disposed"}
    /\ phase = "imported" => db = FALSE
    /\ phase = "serving" => db = FALSE \/ pool = "open"

LEMMA ProcessParts == ProcessInv <=> Counted /\ Flagged
<1>1. ProcessInv => Counted
  BY DEF ProcessInv, ProcessTypeOK, Counted
<1>2. ProcessInv => Flagged
  BY Zenon DEF ProcessInv, ProcessTypeOK, ServesOnlyProbed, Flagged
<1>3. Flagged => ServesOnlyProbed /\ (phase = "imported" => ~db)
                 /\ db \in BOOLEAN /\ bound \in BOOLEAN
                 /\ pool \in {"none", "open", "disposed"}
  BY DEF ServesOnlyProbed, Flagged
<1>4. QED
  BY <1>1, <1>2, <1>3 DEF ProcessInv, ProcessTypeOK, Counted

LEMMA ProcessInit1 == ProcessInit => ProcessInv
<1>1. ProcessInit => Counted
  BY RetriesOK DEF ProcessInit, Counted
<1>2. ProcessInit => Flagged
  BY DEF ProcessInit, Flagged
<1>3. QED
  BY <1>1, <1>2, ProcessParts

LEMMA ProcessStep ==
    ASSUME ProcessInv, ProcessMove \/ UNCHANGED processVars
    PROVE  ProcessInv'
<1>0. Counted /\ Flagged
  BY ProcessParts
<1>1. Counted'
  <2>1. ASSUME NEW n \in RetrySettings, InitDb(n) PROVE Counted'
    <3>1. Attempts(n) \in Nat \ {0}
      BY RetriesOK DEF Attempts
    <3>2. QED
      BY <1>0, <2>1, <3>1 DEF InitDb, Counted
  <2>2. CASE Import
    BY <1>0, <2>2, RetriesOK DEF Import, Counted
  <2>3. CASE ProbeSucceeds \/ ProbeFails \/ AbortStartup
    BY <1>0, <2>3 DEF ProbeSucceeds, ProbeFails, AbortStartup, Counted
  <2>4. CASE Shutdown \/ ProcessCrash
    BY <1>0, <2>4 DEF Shutdown, ProcessCrash, Counted
  <2>5. CASE UNCHANGED <<phase, tries, boots>>
    BY <1>0, <2>5 DEF Counted
  <2>6. QED
    BY <2>1, <2>2, <2>3, <2>4, <2>5 DEF ProcessMove, Startup, processVars
<1>2. Flagged'
  <2>1. ASSUME NEW n \in RetrySettings, InitDb(n) PROVE Flagged'
    BY <1>0, <2>1 DEF InitDb, Flagged
  <2>2. CASE Import
    BY <1>0, <2>2 DEF Import, Flagged
  <2>3. CASE ProbeSucceeds \/ ProbeFails \/ AbortStartup
    BY <1>0, <2>3 DEF ProbeSucceeds, ProbeFails, AbortStartup, Flagged
  <2>4. CASE Shutdown
    BY <1>0, <2>4 DEF Shutdown, Flagged
  <2>5. CASE ProcessCrash
    BY <1>0, <2>5 DEF ProcessCrash, Flagged
  <2>6. CASE UNCHANGED processVars
    BY <1>0, <2>6 DEF processVars, Flagged
  <2>7. QED
    BY <2>1, <2>2, <2>3, <2>4, <2>5, <2>6 DEF ProcessMove, Startup
<1>3. (Counted /\ Flagged)' => ProcessInv'
  BY ProcessParts, PTL
<1>4. QED
  BY <1>1, <1>2, <1>3
-------------------------------------------------------------------------------
(***************************************************************************)
(* Logins.                                                                 *)
(***************************************************************************)

LoginMove ==
    \/ \E r \in Requests : (\E c \in Codes : BeginLogin(r, c)) \/ NoSession(r)
    \/ \E r \in Requests : LoginStep(r)
    \/ LoginCrash

(* What a step may do to the users: the step's part of ProfileKept.          *)
UsersKept ==
    \A u \in users : \E v \in users' :
        /\ v.id = u.id /\ v.account = u.account
        /\ u.profile # NoProfile => v.profile # NoProfile

LEMMA LoginInit1 == LoginInit => LoginInv
BY DEF LoginInit, LoginInv, LoginTypeOK, OneUserPerAccount, RequestInv, WritesApart,
       Live, Answers, NoAnswer

(* Committing a row, or not, keeps every user and every other request right. *)
LEMMA StoredUsers ==
    ASSUME LoginInv, NEW r \in Requests, users' \in {users, Stored(r)}
    PROVE  /\ users' \subseteq User
           /\ OneUserPerAccount'
           /\ \A u \in users' : u.id <= serial
           /\ UsersKept
           /\ write[r] # NoWrite /\ users' = Stored(r) => write[r] \in users'
           /\ \A q \in Requests : q # r /\ write[q] # NoWrite =>
                \A u \in users' :
                    /\ u.id = write[q].id <=> u.account = write[q].account
                    /\ u.id = write[q].id => write[q].profile # NoProfile
<1>1. CASE users' = users
  BY <1>1 DEF LoginInv, LoginTypeOK, OneUserPerAccount, RequestInv, WriteInv, UsersKept,
              Stored
<1>2. CASE write[r] # NoWrite /\ users' = Stored(r)
  <2>1. /\ users' = {u \in users : u.id # write[r].id} \union {write[r]}
        /\ write[r] \in User
        /\ WriteInv(r)
    BY <1>2 DEF Stored, LoginInv, LoginTypeOK, RequestInv
  <2>2. users' \subseteq User /\ \A u \in users' : u.id <= serial
    BY <2>1 DEF LoginInv, LoginTypeOK, WriteInv
  <2>3. OneUserPerAccount'
    BY <2>1 DEF LoginInv, OneUserPerAccount, WriteInv
  <2>4. UsersKept
    BY <2>1 DEF LoginInv, UsersKept, WriteInv
  <2>5. ASSUME NEW q \in Requests, q # r, write[q] # NoWrite, NEW u \in users'
        PROVE  /\ u.id = write[q].id <=> u.account = write[q].account
               /\ u.id = write[q].id => write[q].profile # NoProfile
    BY <1>2, <2>1, <2>5 DEF LoginInv, RequestInv, WriteInv, WritesApart
  <2>6. QED
    BY <2>1, <2>2, <2>3, <2>4, <2>5
<1>3. QED
  BY <1>1, <1>2 DEF Stored

LEMMA OthersKeep ==
    ASSUME LoginInv, NEW r \in Requests, users' \in {users, Stored(r)},
           serial' \in Nat, serial <= serial',
           NEW q \in Requests, q # r,
           pc'[q] = pc[q], code'[q] = code[q], user'[q] = user[q],
           profile'[q] = profile[q], write'[q] = write[q], answer'[q] = answer[q]
    PROVE  RequestInv(q)'
<1>1. RequestInv(q) /\ UsersKept /\ write[q] \in User \union {NoWrite} /\ serial \in Nat
  BY StoredUsers DEF LoginInv, LoginTypeOK
<1>2. write'[q] # NoWrite => WriteInv(q)'
  <2>1. SUFFICES ASSUME write[q] # NoWrite PROVE WriteInv(q)'
    OBVIOUS
  <2>2. write[q].id \in Nat
    BY <1>1, <2>1 DEF User
  <2>3. WriteInv(q)
    BY <1>1, <2>1 DEF RequestInv
  <2>4. QED
    BY <1>1, <2>1, <2>2, <2>3, StoredUsers DEF WriteInv, Account
<1>3. Known(q) => Known(q)'
  BY <1>1 DEF Known, UsersKept, Account
<1>4. answer'[q].status = "ok" =>
        \E u \in users' : u.id = answer'[q].sub /\ u.account = OwnerOf[answer'[q].code]
  BY <1>1 DEF RequestInv, UsersKept
<1>5. QED
  BY <1>1, <1>2, <1>3, <1>4 DEF RequestInv

(* A request that replies: it forgets its transaction, and hands out tokens  *)
(* only for a known user.                                                    *)
LEMMA ReplyKeeps ==
    ASSUME LoginInv, NEW r \in Requests, NEW a \in Answers, Reply(r, a),
           users' \in {users, Stored(r)}, serial' = serial,
           spent' \subseteq Codes,
           a.status = "ok" => \E u \in users' : /\ u.id = a.sub
                                               /\ u.account = OwnerOf[a.code]
    PROVE  LoginInv' /\ UsersKept
<1>1. /\ users' \subseteq User /\ OneUserPerAccount'
      /\ \A u \in users' : u.id <= serial'
      /\ UsersKept
  BY StoredUsers
<1>2. LoginTypeOK'
  BY <1>1 DEF LoginInv, LoginTypeOK, Reply, Goto, Live
<1>3. ASSUME NEW q \in Requests PROVE RequestInv(q)'
  <2>1. CASE q = r
    BY <2>1 DEF LoginInv, LoginTypeOK, Reply, Goto, RequestInv
  <2>2. CASE q # r
    <3>1. /\ pc'[q] = pc[q] /\ code'[q] = code[q] /\ user'[q] = user[q]
          /\ profile'[q] = profile[q] /\ write'[q] = write[q] /\ answer'[q] = answer[q]
      BY <2>2 DEF LoginInv, LoginTypeOK, Reply, Goto
    <3>2. serial' \in Nat /\ serial <= serial'
      BY DEF LoginInv, LoginTypeOK
    <3>3. QED
      BY <2>2, <3>1, <3>2, OthersKeep
  <2>3. QED
    BY <2>1, <2>2
<1>4. WritesApart'
  BY DEF LoginInv, LoginTypeOK, Reply, WritesApart
<1>5. QED
  BY <1>1, <1>2, <1>3, <1>4 DEF LoginInv

(* The actions that end a request.                                           *)
LEMMA EndingsKeep ==
    ASSUME LoginInv, NEW r \in Requests,
           NoSession(r) \/ IdentifyFails(r) \/ InsertConflict(r) \/ LoginDbError(r)
             \/ IssueTokens(r) \/ RefuseTokens(r)
    PROVE  LoginInv' /\ UsersKept
<1>0. /\ users \in {users, Stored(r)} /\ spent \subseteq Codes
      /\ Failed \in Answers /\ Failed.status = "failed"
  BY DEF LoginInv, LoginTypeOK, Failed, NoAnswer, Answers
<1>1. CASE NoSession(r) \/ InsertConflict(r) \/ RefuseTokens(r)
  BY <1>0, <1>1, ReplyKeeps DEF NoSession, InsertConflict, RefuseTokens
<1>2. CASE IdentifyFails(r)
  <2>1. code[r] \in Codes
    BY <1>2, LoginOK DEF IdentifyFails, LoginInv, LoginTypeOK, Live
  <2>2. QED
    BY <1>0, <1>2, <2>1, ReplyKeeps DEF IdentifyFails
<1>3. CASE LoginDbError(r)
  BY <1>0, <1>3, ReplyKeeps DEF LoginDbError
<1>4. CASE IssueTokens(r)
  <2>1. Tokens(r) \in Answers
    BY DEF Tokens, Answers, LoginInv, LoginTypeOK
  <2>2. \E u \in users : u.id = Tokens(r).sub /\ u.account = OwnerOf[Tokens(r).code]
    BY <1>4 DEF IssueTokens, LoginInv, RequestInv, Known, Account, Tokens
  <2>3. QED
    BY <1>0, <1>4, <2>1, <2>2, ReplyKeeps DEF IssueTokens
<1>5. QED
  BY <1>1, <1>2, <1>3, <1>4

(* What an action of one request needs to show.                              *)
LEMMA OneMoves ==
    ASSUME LoginInv, NEW r \in Requests, users' \in {users, Stored(r)},
           serial' \in Nat, serial <= serial',
           LoginTypeOK', RequestInv(r)', WritesApart',
           \A q \in Requests : q # r =>
              /\ pc'[q] = pc[q] /\ code'[q] = code[q] /\ user'[q] = user[q]
              /\ profile'[q] = profile[q] /\ write'[q] = write[q]
              /\ answer'[q] = answer[q]
    PROVE  LoginInv' /\ UsersKept
<1>1. OneUserPerAccount' /\ UsersKept /\ \A u \in users' : u.id <= serial
  BY StoredUsers
<1>2. \A u \in users' : u.id <= serial'
  <2>1. \A u \in users' : u.id \in Nat
    BY StoredUsers DEF User
  <2>2. serial \in Nat
    BY DEF LoginInv, LoginTypeOK
  <2>3. QED
    BY <1>1, <2>1, <2>2
<1>3. \A q \in Requests : RequestInv(q)'
  BY OthersKeep
<1>4. QED
  BY <1>1, <1>2, <1>3 DEF LoginInv

LEMMA BeginLoginKeeps ==
    ASSUME LoginInv, NEW r \in Requests, NEW c \in Codes, BeginLogin(r, c)
    PROVE  LoginInv' /\ UsersKept
<1> USE DEF BeginLogin, Goto
<1>1. LoginTypeOK'
  BY LoginOK DEF LoginInv, LoginTypeOK, Live
<1>2. write[r] = NoWrite /\ write' = write
  BY DEF LoginInv, RequestInv, WriteInv
<1>3. RequestInv(r)'
  BY <1>2 DEF LoginInv, LoginTypeOK, RequestInv
<1>4. WritesApart'
  BY <1>2 DEF LoginInv, WritesApart
<1>5. serial' \in Nat /\ serial <= serial' /\ users' \in {users, Stored(r)}
  BY DEF LoginInv, LoginTypeOK
<1>6. QED
  BY <1>1, <1>3, <1>4, <1>5, OneMoves DEF LoginInv, LoginTypeOK

LEMMA IdentifyKeeps ==
    ASSUME LoginInv, NEW r \in Requests, Identify(r)
    PROVE  LoginInv' /\ UsersKept
<1> USE DEF Identify, Goto
<1>0. code[r] \in Codes
  BY LoginOK DEF LoginInv, LoginTypeOK, Live
<1>1. LoginTypeOK'
  BY <1>0, LoginOK DEF LoginInv, LoginTypeOK, Live
<1>2. write[r] = NoWrite /\ write' = write
  BY DEF LoginInv, RequestInv, WriteInv
<1>3. RequestInv(r)'
  BY <1>2 DEF LoginInv, LoginTypeOK, RequestInv
<1>4. WritesApart'
  BY <1>2 DEF LoginInv, WritesApart
<1>5. serial' \in Nat /\ serial <= serial' /\ users' \in {users, Stored(r)}
  BY DEF LoginInv, LoginTypeOK
<1>6. QED
  BY <1>1, <1>3, <1>4, <1>5, OneMoves DEF LoginInv, LoginTypeOK

LEMMA LookupKeeps ==
    ASSUME LoginInv, NEW r \in Requests, Lookup(r)
    PROVE  LoginInv' /\ UsersKept
<1>0. code[r] \in Codes /\ pc[r] = "lookup"
  BY LoginOK DEF Lookup, LoginInv, LoginTypeOK, Live
<1>1. ProfileOf[code[r]] \in Profiles \union {NoProfile}
  BY <1>0, LoginOK
<1>2. /\ write[r] = NoWrite
      /\ UNCHANGED <<users, serial, spent, code, write, answer>>
  BY <1>0 DEF Lookup, LoginInv, RequestInv, WriteInv
<1>3. \/ /\ pc' = [pc EXCEPT ![r] = "insert"]
         /\ UNCHANGED <<user, profile>>
      \/ \E u \in users :
            /\ u.account = Account(r)
            /\ user' = [user EXCEPT ![r] = u.id]
            /\ \/ pc' = [pc EXCEPT ![r] = "commit"] /\ UNCHANGED profile
               \/ /\ pc' = [pc EXCEPT ![r] = "update"]
                  /\ ProfileOf[code[r]] # NoProfile
                  /\ profile' = [profile EXCEPT ![r] = ProfileOf[code[r]]]
  BY DEF Lookup, Goto
<1>4. \A u \in users : u.id \in Nat
  BY DEF LoginInv, LoginTypeOK, User
<1>5. LoginTypeOK'
  BY <1>0, <1>1, <1>2, <1>3, <1>4 DEF LoginInv, LoginTypeOK, Live
<1>6. RequestInv(r)'
  <2>1. answer'[r].status = "ok" =>
          \E u \in users' : u.id = answer'[r].sub /\ u.account = OwnerOf[answer'[r].code]
    BY <1>2 DEF LoginInv, RequestInv
  <2>2. pc'[r] = "insert" \/ Known(r)'
    BY <1>2, <1>3 DEF LoginInv, LoginTypeOK, Known, Account
  <2>3. pc'[r] = "update" => profile'[r] # NoProfile
    BY <1>0, <1>3 DEF LoginInv, LoginTypeOK
  <2>4. pc'[r] \in {"insert", "commit", "update"}
    BY <1>3 DEF LoginInv, LoginTypeOK
  <2>5. QED
    BY <1>2, <2>1, <2>2, <2>3, <2>4 DEF RequestInv
<1>7. WritesApart'
  BY <1>2 DEF LoginInv, WritesApart
<1>8. serial' \in Nat /\ serial <= serial' /\ users' \in {users, Stored(r)}
  BY <1>2 DEF LoginInv, LoginTypeOK
<1>9. \A q \in Requests : q # r =>
              /\ pc'[q] = pc[q] /\ code'[q] = code[q] /\ user'[q] = user[q]
              /\ profile'[q] = profile[q] /\ write'[q] = write[q]
              /\ answer'[q] = answer[q]
  BY <1>2, <1>3 DEF LoginInv, LoginTypeOK
<1>10. QED
  BY <1>5, <1>6, <1>7, <1>8, <1>9, OneMoves

LEMMA InsertKeeps ==
    ASSUME LoginInv, NEW r \in Requests, Insert(r)
    PROVE  LoginInv' /\ UsersKept
<1> DEFINE n == NewUser(r)
<1>0. /\ code[r] \in Codes /\ pc[r] = "insert" /\ Unlocked(r)
      /\ \A u \in users : u.account # Account(r)
      /\ write' = [write EXCEPT ![r] = n]
      /\ user' = [user EXCEPT ![r] = serial + 1]
      /\ serial' = serial + 1
      /\ pc' = [pc EXCEPT ![r] = "commit"]
      /\ UNCHANGED <<users, spent, code, profile, answer>>
  BY LoginOK DEF Insert, Goto, LoginInv, LoginTypeOK, Live
<1>1. serial \in Nat
  BY DEF LoginInv, LoginTypeOK
<1>2. n \in User /\ n.id = serial + 1 /\ n.account = Account(r) /\ n # NoWrite
  BY <1>0, <1>1, LoginOK, WriteOK DEF NewUser, User, Account
<1> HIDE DEF n
<1>3. LoginTypeOK'
  BY <1>0, <1>1, <1>2 DEF LoginInv, LoginTypeOK, Live
<1>4. write'[r] = n /\ user'[r] = serial + 1 /\ pc'[r] = "commit"
  BY <1>0 DEF LoginInv, LoginTypeOK
<1>5. \A u \in users : u.id \in Nat /\ u.id <= serial
  BY DEF LoginInv, LoginTypeOK, User
<1>6. RequestInv(r)'
  <2>1. answer'[r].status = "ok" =>
          \E u \in users' : u.id = answer'[r].sub /\ u.account = OwnerOf[answer'[r].code]
    BY <1>0 DEF LoginInv, RequestInv
  <2>2. \A u \in users' : u.id # n.id /\ u.account # n.account
    BY <1>0, <1>1, <1>2, <1>5
  <2>3. WriteInv(r)'
    BY <1>0, <1>1, <1>2, <1>4, <2>2 DEF WriteInv, Account
  <2>4. QED
    BY <1>2, <1>4, <2>1, <2>3 DEF RequestInv
<1>7. WritesApart'
  <2>1. ASSUME NEW q \in Requests, q # r, write[q] # NoWrite
        PROVE  write[q].account # n.account /\ write[q].id # n.id
    <3>1. write[q].id \in Nat /\ write[q].id <= serial
      BY <2>1 DEF LoginInv, LoginTypeOK, RequestInv, WriteInv, User
    <3>2. QED
      BY <1>0, <1>1, <1>2, <2>1, <3>1 DEF Unlocked
  <2>2. QED
    BY <1>0, <2>1 DEF LoginInv, LoginTypeOK, WritesApart
<1>8. serial' \in Nat /\ serial <= serial' /\ users' \in {users, Stored(r)}
  BY <1>0, <1>1
<1>9. QED
  BY <1>0, <1>3, <1>6, <1>7, <1>8, OneMoves DEF LoginInv, LoginTypeOK

LEMMA UpdateKeeps ==
    ASSUME LoginInv, NEW r \in Requests, Update(r)
    PROVE  LoginInv' /\ UsersKept
<1>0. PICK u \in users : u.id = user[r] /\ write' = [write EXCEPT
                                            ![r] = [u EXCEPT !.profile = profile[r]]]
  BY DEF Update
<1> DEFINE n == [u EXCEPT !.profile = profile[r]]
<1>1. /\ code[r] \in Codes /\ pc[r] = "update" /\ Unlocked(r)
      /\ write' = [write EXCEPT ![r] = n]
      /\ pc' = [pc EXCEPT ![r] = "commit"]
      /\ UNCHANGED <<users, serial, spent, code, user, profile, answer>>
  BY <1>0, LoginOK DEF Update, Goto, LoginInv, LoginTypeOK, Live
<1>2. profile[r] \in Profiles \union {NoProfile} /\ profile[r] # NoProfile
  BY <1>1 DEF LoginInv, LoginTypeOK, RequestInv
<1>3. u \in User /\ u.account = Account(r)
  BY <1>0, <1>1 DEF LoginInv, LoginTypeOK, OneUserPerAccount, RequestInv, Known
<1>4. n \in User /\ n.id = u.id /\ n.account = Account(r) /\ n.profile = profile[r]
  BY <1>2, <1>3 DEF User
<1> HIDE DEF n
<1>5. LoginTypeOK'
  BY <1>1, <1>4 DEF LoginInv, LoginTypeOK, Live
<1>6. write'[r] = n /\ pc'[r] = "commit" /\ n # NoWrite
  BY <1>1, <1>4, WriteOK DEF LoginInv, LoginTypeOK
<1>7. RequestInv(r)'
  <2>1. answer'[r].status = "ok" =>
          \E v \in users' : v.id = answer'[r].sub /\ v.account = OwnerOf[answer'[r].code]
    BY <1>1 DEF LoginInv, RequestInv
  <2>2. \A v \in users : v.id = n.id <=> v.account = n.account
    BY <1>3, <1>4 DEF LoginInv, OneUserPerAccount
  <2>3. u.id <= serial
    BY DEF LoginInv
  <2>4. WriteInv(r)'
    BY <1>0, <1>1, <1>2, <1>4, <1>6, <2>2, <2>3 DEF WriteInv, Account
  <2>5. QED
    BY <1>6, <2>1, <2>4 DEF RequestInv
<1>8. WritesApart'
  <2>1. ASSUME NEW q \in Requests, q # r, write[q] # NoWrite
        PROVE  write[q].account # n.account /\ write[q].id # n.id
    <3>1. write[q].account # Account(r)
      BY <1>1, <2>1 DEF Unlocked
    <3>2. u.id = write[q].id <=> u.account = write[q].account
      BY <2>1 DEF LoginInv, RequestInv, WriteInv
    <3>3. QED
      BY <1>3, <1>4, <3>1, <3>2
  <2>2. QED
    BY <1>1, <2>1 DEF LoginInv, LoginTypeOK, WritesApart
<1>9. serial' \in Nat /\ serial <= serial' /\ users' \in {users, Stored(r)}
  BY <1>1 DEF LoginInv, LoginTypeOK
<1>10. QED
  BY <1>1, <1>5, <1>7, <1>8, <1>9, OneMoves DEF LoginInv, LoginTypeOK

LEMMA CommitKeeps ==
    ASSUME LoginInv, NEW r \in Requests, Commit(r)
    PROVE  LoginInv' /\ UsersKept
<1>0. /\ pc[r] = "commit" /\ users' = Stored(r)
      /\ write' = [write EXCEPT ![r] = NoWrite]
      /\ pc' = [pc EXCEPT ![r] = "tokens"]
      /\ UNCHANGED <<serial, spent, code, user, profile, answer>>
  BY DEF Commit, Goto
<1>1. users' \subseteq User /\ UsersKept
  BY <1>0, StoredUsers
<1>2. LoginTypeOK'
  BY <1>0, <1>1 DEF LoginInv, LoginTypeOK, Live
<1>3. RequestInv(r)'
  <2>1. answer'[r].status = "ok" =>
          \E v \in users' : v.id = answer'[r].sub /\ v.account = OwnerOf[answer'[r].code]
    BY <1>0, <1>1 DEF LoginInv, RequestInv, UsersKept
  <2>2. Known(r)'
    <3>1. CASE write[r] = NoWrite
      BY <1>0, <3>1 DEF LoginInv, RequestInv, Known, Account, Stored
    <3>2. CASE write[r] # NoWrite
      <4>1. write[r] \in users'
        BY <1>0, <3>2, StoredUsers
      <4>2. WriteInv(r)
        BY <3>2 DEF LoginInv, RequestInv
      <4>3. QED
        BY <1>0, <4>1, <4>2 DEF WriteInv, Known, Account
    <3>3. QED
      BY <3>1, <3>2
  <2>3. pc'[r] = "tokens" /\ write'[r] = NoWrite
    BY <1>0 DEF LoginInv, LoginTypeOK
  <2>4. QED
    BY <2>1, <2>2, <2>3 DEF RequestInv
<1>4. WritesApart'
  BY <1>0 DEF LoginInv, LoginTypeOK, WritesApart
<1>5. serial' \in Nat /\ serial <= serial' /\ users' \in {users, Stored(r)}
  BY <1>0 DEF LoginInv, LoginTypeOK
<1>6. QED
  BY <1>0, <1>2, <1>3, <1>4, <1>5, OneMoves DEF LoginInv, LoginTypeOK

LEMMA CrashKeeps ==
    ASSUME LoginInv, LoginCrash
    PROVE  LoginInv' /\ UsersKept
<1> USE DEF LoginCrash
<1>1. LoginTypeOK'
  BY DEF LoginInv, LoginTypeOK, Live, Failed, NoAnswer, Answers
<1>2. ASSUME NEW r \in Requests PROVE RequestInv(r)'
  BY <1>2 DEF LoginInv, RequestInv, Live, Failed, NoAnswer
<1>3. OneUserPerAccount' /\ WritesApart' /\ UsersKept
  BY DEF LoginInv, OneUserPerAccount, WritesApart, UsersKept
<1>4. QED
  BY <1>1, <1>2, <1>3 DEF LoginInv

LEMMA LoginStepKeeps ==
    ASSUME LoginInv, LoginMove \/ UNCHANGED loginVars
    PROVE  LoginInv' /\ UsersKept
<1>1. CASE LoginMove
  BY <1>1, BeginLoginKeeps, EndingsKeep, IdentifyKeeps, LookupKeeps, InsertKeeps,
     UpdateKeeps, CommitKeeps, CrashKeeps DEF LoginMove, LoginStep, LoginGoes
<1>2. CASE UNCHANGED loginVars
  <2>1. \A r \in Requests : RequestInv(r)'
    BY <1>2 DEF loginVars, LoginInv, RequestInv, WriteInv, Known, Account
  <2>2. LoginTypeOK' /\ OneUserPerAccount' /\ WritesApart' /\ UsersKept
    BY <1>2 DEF loginVars, LoginInv, LoginTypeOK, OneUserPerAccount, WritesApart,
                UsersKept, Live
  <2>3. QED
    BY <1>2, <2>1, <2>2 DEF loginVars, LoginInv
<1>3. QED
  BY <1>1, <1>2
-------------------------------------------------------------------------------
(***************************************************************************)
(* Triggers.                                                               *)
(***************************************************************************)

TriggerMove ==
    \/ \E q \in Calls : RefuseTrigger(q) \/ \E C \in SUBSET Colleges : CallTrigger(q, C)
    \/ \E q \in Calls : TriggerStep(q)
    \/ TriggerCrash

LEMMA TriggerInit1 == TriggerInit => TriggerInv
BY FS_EmptySet DEF TriggerInit, TriggerInv, TriggerTypeOK, CallInv, Of

(* A call that publishes a message of its own, or none, leaves the others.   *)
LEMMA OtherCalls ==
    ASSUME TriggerInv, NEW q \in Calls, NEW x \in Message, x.by = q,
           queue' \in {queue, queue \union {x}},
           NEW p \in Calls, p # q,
           asked'[p] = asked[p], told'[p] = told[p], reply'[p] = reply[p]
    PROVE  CallInv(p)'
<1>1. Of(p)' = Of(p) /\ ToldColleges(p)' = ToldColleges(p)
  BY DEF Of, ToldColleges
<1>2. QED
  BY <1>1 DEF TriggerInv, CallInv

LEMMA PublishKeeps ==
    ASSUME TriggerInv, NEW q \in Calls, NEW c \in Colleges,
           Publish(q, c) \/ BrokerFails(q, c)
    PROVE  TriggerInv'
<1> DEFINE n == Cardinality(told[q])
<1> DEFINE x == NextMessage(q, c)
<1>1. /\ reply[q] = "open" /\ IsFiniteSet(told[q])
      /\ c \in asked[q] /\ \A m \in told[q] : m.college # c
      /\ queue \subseteq Message /\ told[q] \subseteq Message
      /\ CallInv(q) /\ Of(q) = told[q]
  BY DEF Publish, BrokerFails, ToldColleges, TriggerInv, TriggerTypeOK, CallInv
<1>2. n \in Nat
  BY <1>1, FS_CardinalityType
<1>3. x \in Message /\ x.by = q /\ x.college = c /\ x.countdown = n
  BY <1>2 DEF NextMessage, Message
<1>4. \A m \in told[q] : m.countdown < n
  BY <1>1 DEF CallInv
<1>5. /\ IsFiniteSet(told[q] \union {x})
      /\ Cardinality(told[q] \union {x}) = n + 1
  BY <1>1, <1>3, FS_AddElement
<1>6. asked' = asked /\ queue' \in {queue, queue \union {x}}
  BY DEF Publish, BrokerFails
<1>7. /\ \A m \in told[q] : m.countdown \in Nat
      /\ \A m, k \in told[q] \union {x} :
            m.college = k.college \/ m.countdown = k.countdown => m = k
      /\ \A m \in told[q] \union {x} : m.college \in asked[q]
  <2>1. \A m \in told[q] : m.countdown \in Nat /\ m.countdown # n /\ m.college # c
    BY <1>1, <1>2, <1>4 DEF Message
  <2>2. \A m, k \in told[q] : m.college = k.college \/ m.countdown = k.countdown => m = k
    BY <1>1 DEF CallInv
  <2>3. \A m \in told[q] : m.college \in asked[q]
    BY <1>1 DEF CallInv
  <2>4. QED
    BY <1>1, <1>3, <2>1, <2>2, <2>3
<1> HIDE DEF n, x
<1>8. Of(q)' \in {told[q], told[q] \union {x}}
  BY <1>1, <1>3, <1>6 DEF Of
<1>9. CASE Publish(q, c)
  <2>1. /\ queue' = queue \union {x}
        /\ told' = [told EXCEPT ![q] = @ \union {x}]
        /\ reply' = reply
    BY <1>9 DEF Publish, x
  <2>2. TriggerTypeOK'
    BY <1>3, <1>6, <2>1 DEF TriggerInv, TriggerTypeOK
  <2>3. told'[q] = told[q] \union {x} /\ reply'[q] = "open"
    BY <1>1, <2>1 DEF TriggerInv, TriggerTypeOK
  <2>4. Of(q)' = told'[q]
    BY <1>1, <1>3, <2>1, <2>3 DEF Of
  <2>5. \A m \in told'[q] : m.countdown < n + 1
    BY <1>2, <1>3, <1>4, <1>7, <2>3
  <2>6. CallInv(q)'
    BY <1>5, <1>6, <1>7, <2>3, <2>4, <2>5 DEF CallInv
  <2>7. ASSUME NEW p \in Calls, p # q PROVE CallInv(p)'
    <3>1. told'[p] = told[p]
      BY <2>1, <2>7 DEF TriggerInv, TriggerTypeOK
    <3>2. QED
      BY <1>3, <1>6, <2>1, <2>7, <3>1, OtherCalls
  <2>8. QED
    BY <2>2, <2>6, <2>7 DEF TriggerInv
<1>10. CASE BrokerFails(q, c)
  <2>1. reply' = [reply EXCEPT ![q] = "failed"] /\ told' = told
    BY <1>10 DEF BrokerFails
  <2>2. TriggerTypeOK'
    BY <1>3, <1>6, <2>1 DEF TriggerInv, TriggerTypeOK
  <2>3. reply'[q] = "failed"
    BY <2>1 DEF TriggerInv, TriggerTypeOK
  <2>4. CallInv(q)'
    BY <1>1, <1>6, <1>7, <1>8, <2>1, <2>3 DEF CallInv
  <2>5. ASSUME NEW p \in Calls, p # q PROVE CallInv(p)'
    <3>1. reply'[p] = reply[p]
      BY <2>1, <2>5 DEF TriggerInv, TriggerTypeOK
    <3>2. QED
      BY <1>3, <1>6, <2>1, <2>5, <3>1, OtherCalls
  <2>6. QED
    BY <2>2, <2>4, <2>5 DEF TriggerInv
<1>11. QED
  BY <1>9, <1>10

LEMMA TriggerStepKeeps ==
    ASSUME TriggerInv, TriggerMove \/ UNCHANGED triggerVars
    PROVE  TriggerInv'
<1>1. ASSUME NEW q \in Calls, NEW c \in Colleges, Publish(q, c) \/ BrokerFails(q, c)
      PROVE  TriggerInv'
  BY <1>1, PublishKeeps
<1>2. ASSUME queue' = queue, told' = told, TriggerTypeOK',
             \A q \in Calls :
                \/ reply'[q] = reply[q] /\ asked'[q] = asked[q]
                \/ reply[q] = "none" /\ reply'[q] \in {"open", "refused"}
                \/ reply[q] = "open" /\ reply'[q] = "failed" /\ asked'[q] = asked[q]
                \/ /\ reply[q] = "open" /\ reply'[q] = "ok" /\ asked'[q] = asked[q]
                   /\ ToldColleges(q) = asked[q]
      PROVE  TriggerInv'
  BY <1>2 DEF TriggerInv, CallInv, Of, ToldColleges
<1>3. ASSUME NEW q \in Calls, NEW C \in SUBSET Colleges, CallTrigger(q, C)
      PROVE  TriggerInv'
  <2>1. TriggerTypeOK'
    BY <1>3 DEF CallTrigger, TriggerInv, TriggerTypeOK
  <2>2. QED
    BY <1>2, <1>3, <2>1 DEF CallTrigger, TriggerInv, TriggerTypeOK
<1>4. ASSUME NEW q \in Calls, RefuseTrigger(q) \/ Enqueued(q) PROVE TriggerInv'
  <2>1. TriggerTypeOK'
    BY <1>4 DEF RefuseTrigger, Enqueued, TriggerInv, TriggerTypeOK
  <2>2. QED
    BY <1>2, <1>4, <2>1 DEF RefuseTrigger, Enqueued, TriggerInv, TriggerTypeOK
<1>5. CASE TriggerCrash
  <2>1. TriggerTypeOK'
    BY <1>5 DEF TriggerCrash, TriggerInv, TriggerTypeOK
  <2>2. QED
    BY <1>2, <1>5, <2>1 DEF TriggerCrash, TriggerInv, TriggerTypeOK
<1>6. CASE UNCHANGED triggerVars
  <2>1. TriggerTypeOK'
    BY <1>6 DEF triggerVars, TriggerInv, TriggerTypeOK
  <2>2. QED
    BY <1>2, <1>6, <2>1 DEF triggerVars
<1>7. QED
  BY <1>1, <1>3, <1>4, <1>5, <1>6 DEF TriggerMove, TriggerStep
-------------------------------------------------------------------------------
(***************************************************************************)
(* The composition.                                                        *)
(***************************************************************************)

(* A step of the whole moves each part, or leaves it alone.                  *)
LEMMA Parts ==
    ASSUME [Next]_vars
    PROVE  /\ ProcessMove \/ UNCHANGED processVars
           /\ LoginMove \/ UNCHANGED loginVars
           /\ TriggerMove \/ UNCHANGED triggerVars
<1>1. CASE Process
  BY <1>1 DEF Process, ProcessMove
<1>2. CASE Crash
  BY <1>2 DEF Crash, ProcessMove, LoginMove, TriggerMove
<1>3. ASSUME NEW r \in Requests, AcceptLogin(r) \/ RunLogin(r)
      PROVE  LoginMove /\ UNCHANGED <<processVars, triggerVars>>
  BY <1>3 DEF AcceptLogin, RunLogin, LoginMove
<1>4. ASSUME NEW q \in Calls, AcceptTrigger(q) \/ RunTrigger(q)
      PROVE  TriggerMove /\ UNCHANGED <<processVars, loginVars>>
  BY <1>4 DEF AcceptTrigger, RunTrigger, TriggerMove
<1>5. CASE UNCHANGED vars
  BY <1>5 DEF vars
<1>6. QED
  BY <1>1, <1>2, <1>3, <1>4, <1>5 DEF Next

LEMMA WebInit == Init => WebInv
BY ProcessInit1, LoginInit1, TriggerInit1 DEF Init, WebInv

LEMMA WebStep == WebInv /\ [Next]_vars => WebInv' /\ UsersKept
<1>1. SUFFICES ASSUME WebInv, [Next]_vars PROVE WebInv' /\ UsersKept
  OBVIOUS
<1>2. ProcessInv /\ LoginInv /\ TriggerInv
  BY <1>1 DEF WebInv
<1>3. ProcessInv'
  BY <1>1, <1>2, Parts, ProcessStep
<1>4. LoginInv' /\ UsersKept
  BY <1>1, <1>2, Parts, LoginStepKeeps
<1>5. TriggerInv'
  BY <1>1, <1>2, Parts, TriggerStepKeeps
<1>6. QED
  BY <1>3, <1>4, <1>5 DEF WebInv

(* WebInv is inductive: it holds in every state of the web process.          *)
THEOREM WebInvariant == Spec => []WebInv
<1>1. WebInv /\ [Next]_vars => WebInv'
  BY WebStep
<1>2. QED
  BY WebInit, <1>1, PTL DEF Spec
-------------------------------------------------------------------------------
(* All variables of the web process keep their types.                        *)
THEOREM TypeCorrect == Spec => []TypeOK
<1>1. WebInv => TypeOK
  BY DEF WebInv, ProcessInv, LoginInv, TriggerInv, TypeOK
<1>2. QED
  BY WebInvariant, <1>1, PTL

(* One row per account and id (user_repository.py:10-50 on                   *)
(* uq_user_provider_uid), for any number of overlapping logins and crashes.  *)
THEOREM NoDuplicateUsers == Spec => []OneUserPerAccount
<1>1. WebInv => OneUserPerAccount
  BY DEF WebInv, LoginInv
<1>2. QED
  BY WebInvariant, <1>1, PTL

(* Tokens are handed out for a stored user of the code's own account only    *)
(* (auth_service.py:128-136).                                                *)
THEOREM TokensAreOwn == Spec => []TokensOwnUser
<1>1. WebInv => TokensOwnUser
  BY DEF WebInv, LoginInv, RequestInv, TokensOwnUser
<1>2. QED
  BY WebInvariant, <1>1, PTL

(* No step erases a stored profile or removes a user (user_repository.py:29).*)
THEOREM ProfilesKept == Spec => ProfileKept
<1>1. WebInv /\ [Next]_vars => [UsersKept]_loginVars
  BY WebStep
<1>2. ProfileKept <=> [][UsersKept]_loginVars
  BY DEF ProfileKept, UsersKept
<1>3. QED
  BY WebInvariant, <1>1, <1>2, PTL DEF Spec

(* A process with a database serves only after a successful probe            *)
(* (database.py:53-90).                                                      *)
THEOREM ServesProbed == Spec => []ServesOnlyProbed
<1>1. WebInv => ServesOnlyProbed
  BY DEF WebInv, ProcessInv
<1>2. QED
  BY WebInvariant, <1>1, PTL

(* The answer of a trigger names what it has published, for any number of    *)
(* colleges and whatever the broker did (internal.py:57-79).                 *)
THEOREM AnswersTellQueue == Spec => []AnswerTellsQueue
<1>1. WebInv => AnswerTellsQueue
  BY DEF WebInv, TriggerInv, CallInv, AnswerTellsQueue
<1>2. QED
  BY WebInvariant, <1>1, PTL

(* The messages of one trigger start one after another (internal.py:72).     *)
THEOREM CrawlsAreSpread == Spec => []CrawlsSpread
<1>1. WebInv => CrawlsSpread
  <2>1. TriggerTypeOK /\ (\A q \in Calls : CallInv(q)) =>
            \A m, n \in queue : m.by = n.by /\ m.countdown = n.countdown => m = n
    BY DEF TriggerTypeOK, Message, CallInv, Of
  <2>2. QED
    BY <2>1 DEF WebInv, TriggerInv, CrawlsSpread
<1>2. QED
  BY WebInvariant, <1>1, PTL

(* Logins wait one deep, for a login at its COMMIT (user_repository.py:25-52 *)
(* in the session of get_db): however many overlap, they do not deadlock.    *)
THEOREM LoginsWaitShortly == Spec => []WaitsForCommit
<1>1. WebInv => WaitsForCommit
  <2> SUFFICES ASSUME LoginInv, NEW r \in Requests, pc[r] \in {"insert", "update"}
               PROVE  /\ write[r] = NoWrite
                      /\ \A q \in Requests : write[q] # NoWrite => pc[q] = "commit"
                      /\ pc[r] = "update" => Known(r)
    BY DEF WebInv, WaitsForCommit, Known
  <2>1. \A q \in Requests : write[q] # NoWrite => pc[q] = "commit"
    BY DEF LoginInv, RequestInv, WriteInv
  <2>2. QED
    BY <2>1 DEF LoginInv, RequestInv
<1>2. QED
  BY WebInvariant, <1>1, PTL
-------------------------------------------------------------------------------
(***************************************************************************)
(* Progress: a start-up and a login only ever come nearer to their end.    *)
(***************************************************************************)

(* How far a login is from its answer. *)
Stage(place) ==
    CASE place = "idle"     -> 6
      [] place = "exchange" -> 5
      [] place = "lookup"   -> 4
      [] place = "insert"   -> 3
      [] place = "update"   -> 3
      [] place = "commit"   -> 2
      [] place = "tokens"   -> 1
      [] place = "answered" -> 0

(* No step sends a login back to where it has been: nothing of it is tried   *)
(* again, and an answered one stays answered.                                *)
LoginsAdvance ==
    [][\A r \in Requests : pc'[r] = pc[r] \/ Stage(pc'[r]) < Stage(pc[r])]_vars

(* Every failed probe uses up one of the attempts of its start-up.           *)
ProbesCountDown ==
    [][phase = "probing" => phase' # "probing" \/ tries' < tries]_processVars

LEMMA LoginAdvances ==
    ASSUME LoginTypeOK, LoginMove \/ UNCHANGED loginVars, NEW r \in Requests
    PROVE  pc'[r] = pc[r] \/ Stage(pc'[r]) < Stage(pc[r])
<1>0. pc \in [Requests -> {"idle", "exchange", "lookup", "insert", "update",
                           "commit", "tokens", "answered"}]
  BY DEF LoginTypeOK
<1>1. ASSUME NEW q \in Requests, NEW next, Goto(q, next), Stage(next) < Stage(pc[q])
      PROVE  pc'[r] = pc[r] \/ Stage(pc'[r]) < Stage(pc[r])
  <2>1. pc'[r] = IF r = q THEN next ELSE pc[r]
    BY <1>0, <1>1 DEF Goto
  <2>2. QED BY <1>1, <2>1
<1>2. \A q \in Requests : pc[q] # "answered" => Stage("answered") < Stage(pc[q])
  BY <1>0 DEF Stage
<1>3. ASSUME NEW q \in Requests, NEW a, Reply(q, a), pc[q] # "answered"
      PROVE  pc'[r] = pc[r] \/ Stage(pc'[r]) < Stage(pc[r])
  <2>1. Goto(q, "answered")
    BY <1>3 DEF Reply
  <2>2. QED BY <1>1, <1>2, <1>3, <2>1
<1>4. ASSUME NEW q \in Requests, (\E c \in Codes : BeginLogin(q, c)) \/ Identify(q)
                                   \/ Lookup(q) \/ Insert(q) \/ Update(q) \/ Commit(q)
      PROVE  pc'[r] = pc[r] \/ Stage(pc'[r]) < Stage(pc[r])
  <2>1. \E next \in {"exchange", "lookup", "insert", "update", "commit", "tokens"} :
           Goto(q, next) /\ Stage(next) < Stage(pc[q])
    BY <1>4 DEF BeginLogin, Identify, Lookup, Insert, Update, Commit, Stage
  <2>2. QED BY <1>1, <2>1
<1>5. ASSUME NEW q \in Requests, NoSession(q) \/ IdentifyFails(q) \/ InsertConflict(q)
                                   \/ LoginDbError(q) \/ IssueTokens(q) \/ RefuseTokens(q)
      PROVE  pc'[r] = pc[r] \/ Stage(pc'[r]) < Stage(pc[r])
  BY <1>3, <1>5 DEF NoSession, IdentifyFails, InsertConflict, LoginDbError, IssueTokens,
                    RefuseTokens
<1>6. CASE LoginCrash
  BY <1>0, <1>2, <1>6 DEF LoginCrash, Live
<1>7. CASE UNCHANGED loginVars
  BY <1>7 DEF loginVars
<1>8. QED
  BY <1>4, <1>5, <1>6, <1>7 DEF LoginMove, LoginStep, LoginGoes

(* With the steps of an accepted login taken for granted, this and           *)
(* LoginsWaitShortly are why every login is answered (LoginsAnswered, which  *)
(* TLC checks).                                                              *)
THEOREM LoginsGoForward == Spec => LoginsAdvance
<1>1. WebInv /\ [Next]_vars
        => [\A r \in Requests : pc'[r] = pc[r] \/ Stage(pc'[r]) < Stage(pc[r])]_vars
  BY Parts, LoginAdvances DEF WebInv, LoginInv
<1>2. QED
  BY <1>1, WebInvariant, PTL DEF Spec, LoginsAdvance

(* Whatever DB_CONNECT_RETRIES says, a start-up probes at most that often    *)
(* (database.py:66-90): this is why it ends (StartupEnds).                   *)
THEOREM ProbesAreBounded == Spec => ProbesCountDown
<1>1. ASSUME WebInv, [Next]_vars, phase = "probing"
      PROVE  phase' # "probing" \/ tries' < tries \/ UNCHANGED processVars
  <2>1. tries \in Nat
    BY <1>1 DEF WebInv, ProcessInv, ProcessTypeOK
  <2>2. ProcessMove \/ UNCHANGED processVars
    BY <1>1, Parts
  <2>3. QED
    BY <1>1, <2>1, <2>2
       DEF ProcessMove, Startup, Import, InitDb, ProbeSucceeds, ProbeFails, AbortStartup,
           Shutdown, ProcessCrash
<1>2. WebInv /\ [Next]_vars
        => [phase = "probing" => phase' # "probing" \/ tries' < tries]_processVars
  BY <1>1
<1>3. QED
  BY <1>2, WebInvariant, PTL DEF Spec, ProbesCountDown
===============================================================================
