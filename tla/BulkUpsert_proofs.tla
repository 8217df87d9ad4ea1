--------------------------- MODULE BulkUpsert_proofs ---------------------------
(***************************************************************************)
(* Proofs about BulkUpsert, for any number of crawls, rerun scripts, keys  *)
(* and contents: a statement's decisions stand until its commit, a         *)
(* deadlock's victim makes way for somebody, nobody waits unseen by the    *)
(* detector, a statement only goes forward, and it implements an upsert    *)
(* that takes effect at one instant.                                       *)
(***************************************************************************)
EXTENDS BulkUpsert, FiniteSetTheorems, TLAPS

Locked(t) == {k \in Keys : lock[k] = t}

(* A draft differs from the committed row only under a lock; a statement     *)
(* waits for no row it has locked and reaches none twice.                    *)
LocksInv ==
    /\ \A k \in Keys : lock[k] = NoTx => draft[k] = table[k]
    /\ \A t \in Txs : /\ Locked(t) \intersect left[t] = {}
                      /\ want[t] \notin Locked(t) \union left[t]
                      /\ state[t] # "running" => want[t] = NoKey

(* A crawl has locked exactly the payloads it has passed, and returns only   *)
(* keys it has locked; the drafts of a script are deleted rows.              *)
StatementsInv ==
    /\ \A t \in Crawls :
          /\ state[t] = "idle" => returned[t] = {}
          /\ state[t] = "running" =>
                /\ left[t] \subseteq Payloads(batch[t])
                /\ want[t] \in Payloads(batch[t]) \union {NoKey}
                /\ Locked(t) = Payloads(batch[t]) \ (left[t] \union {want[t]})
                /\ returned[t] \subseteq Locked(t)
    /\ \A d \in Scripts : \A k \in Locked(d) : draft[k] = NoRow

(* The inductive invariant.                                                  *)
UpsertInv == TypeOK /\ LocksInv /\ StatementsInv /\ DecisionsStand

LEMMA InitUpsert == Init => UpsertInv
<1> SUFFICES ASSUME Init PROVE UpsertInv
  OBVIOUS
<1>1. NoRow \in Row
  BY DEF NoRow, Row
<1>2. TypeOK
  BY <1>1, StorageOK DEF Init, TypeOK, Batches
<1>3. LocksInv /\ StatementsInv /\ DecisionsStand
  BY StorageOK DEF Init, LocksInv, StatementsInv, DecisionsStand, Locked, Txs
<1>4. QED
  BY <1>2, <1>3 DEF UpsertInv
-------------------------------------------------------------------------------
(***************************************************************************)
(* One lemma per action.                                                   *)
(***************************************************************************)

LEMMA BeginUpsertKeeps ==
    ASSUME UpsertInv, NEW t \in Crawls, NEW b \in Pages, BeginUpsert(t, b)
    PROVE  UpsertInv'
<1> USE DEF UpsertInv, BeginUpsert
<1>0. t \in Txs /\ b \in Batches /\ Payloads(b) \subseteq Keys
  BY StorageOK DEF Txs, Payloads
<1>1. Locked(t) = {} /\ want[t] = NoKey /\ NoKey \notin Payloads(b)
  BY <1>0, StorageOK DEF TypeOK, LocksInv, Locked, Txs, Payloads
<1>2. TypeOK'
  BY <1>0 DEF TypeOK, Txs
<1>3. LocksInv'
  BY <1>0, <1>1 DEF TypeOK, LocksInv, Locked
<1>4. StatementsInv'
  BY <1>0, <1>1 DEF TypeOK, StatementsInv, Locked, Txs
<1>5. DecisionsStand'
  BY <1>0, <1>1 DEF TypeOK, DecisionsStand, Txs
<1>6. QED
  BY <1>2, <1>3, <1>4, <1>5

LEMMA BeginDeleteKeeps ==
    ASSUME UpsertInv, NEW d \in Scripts, NEW K \in SUBSET Keys, BeginDelete(d, K)
    PROVE  UpsertInv'
<1> USE DEF UpsertInv, BeginDelete
<1>0. d \in Txs /\ d \notin Crawls
  BY StorageOK DEF Txs
<1>1. Locked(d) = {} /\ want[d] = NoKey /\ NoKey \notin Keys
  BY <1>0, StorageOK DEF TypeOK, LocksInv, Locked, Txs
<1>2. TypeOK'
  BY <1>0 DEF TypeOK, Row, Txs
<1>3. LocksInv'
  BY <1>0, <1>1 DEF TypeOK, LocksInv, Locked
<1>4. StatementsInv'
  BY <1>0, <1>1 DEF TypeOK, StatementsInv, Locked, Txs
<1>5. DecisionsStand'
  BY <1>0, <1>1 DEF TypeOK, DecisionsStand, Txs
<1>6. QED
  BY <1>2, <1>3, <1>4, <1>5

LEMMA ReachKeeps ==
    ASSUME UpsertInv, NEW t \in Txs, NEW k \in Keys, Reach(t, k)
    PROVE  UpsertInv'
<1> USE DEF UpsertInv, Reach
<1>1. NoKey \notin Keys
  BY StorageOK
<1>2. TypeOK'
  BY DEF TypeOK
<1>3. LocksInv'
  BY <1>1 DEF TypeOK, LocksInv, Locked
<1>4. \A u \in Txs : left'[u] \union ({want'[u]} \ {NoKey})
                       = left[u] \union ({want[u]} \ {NoKey})
  BY <1>1 DEF TypeOK
<1>5. StatementsInv'
  <2>1. \A u \in Crawls : u \in Txs
    BY DEF Txs
  <2>2. \A u \in Crawls : Payloads(batch[u]) \subseteq Keys
    BY DEF Payloads
  <2>3. \A u \in Crawls : Payloads(batch[u]) \ (left'[u] \union {want'[u]})
                            = Payloads(batch[u]) \ (left[u] \union {want[u]})
    BY <1>1, <1>4, <2>1, <2>2
  <2>4. QED
    BY <2>1, <2>2, <2>3 DEF TypeOK, StatementsInv, Locked
<1>6. DecisionsStand'
  <2>1. \A u \in Crawls : \A q \in Payloads(batch[u]) \ (left'[u] \union {want'[u]}) :
          q \in Payloads(batch[u]) \ (left[u] \union {want[u]})
    BY <1>1, <1>4 DEF Payloads, Txs
  <2>2. QED
    BY <2>1 DEF DecisionsStand
<1>7. QED
  BY <1>2, <1>3, <1>5, <1>6

(* WriteRow at k changes the draft, the lock and what t returns at k only.   *)
LEMMA WriteRowKeeps ==
    ASSUME UpsertInv, NEW t \in Crawls, NEW k \in Keys, WriteRow(t, k)
    PROVE  UpsertInv'
<1> USE DEF UpsertInv
<1> DEFINE b == batch[t]
           row == IF Differs(k, b) THEN RowAfter(k, b) ELSE table[k]
<1>0. /\ t \in Txs /\ NoKey \notin Keys /\ NoTx \notin Txs
      /\ state[t] = "running" /\ want[t] = k /\ lock[k] = NoTx
      /\ lock' = [lock EXCEPT ![k] = t]
      /\ draft' = [draft EXCEPT ![k] = row]
      /\ returned' = [returned EXCEPT ![t] = IF Differs(k, b) THEN @ \union {k} ELSE @]
      /\ want' = [want EXCEPT ![t] = NoKey]
      /\ UNCHANGED <<table, state, batch, seen, left>>
  BY StorageOK DEF WriteRow, At, Txs
<1>1. k \in Payloads(b) /\ b[k] \in Contents
  BY <1>0 DEF StatementsInv, Payloads, TypeOK, Batches
<1>2. row \in Row /\ row.content = b[k] /\ serial' \in Nat
  <2>1. table[k] \in Row /\ serial \in Nat
    BY DEF TypeOK
  <2>2. row \in Row /\ row.content = b[k]
    BY <1>1, <2>1 DEF Row, RowAfter, Differs
  <2>3. serial' \in Nat
    BY <2>1 DEF WriteRow
  <2>4. QED
    BY <2>2, <2>3
<1> HIDE DEF row
<1>3. TypeOK'
  BY <1>0, <1>2 DEF TypeOK
<1>4. \A u \in Txs : Locked(u)' = IF u = t THEN Locked(t) \union {k} ELSE Locked(u)
  BY <1>0 DEF Locked, TypeOK
<1>5. LocksInv'
  <2>1. \A q \in Keys : lock'[q] = NoTx => draft'[q] = table'[q]
    BY <1>0 DEF LocksInv, TypeOK
  <2>2. k \notin left[t] /\ NoKey \notin left[t] /\ NoKey \notin Locked(t)'
    BY <1>0 DEF LocksInv, TypeOK, Locked
  <2>3. ASSUME NEW u \in Txs
        PROVE  /\ Locked(u)' \intersect left'[u] = {}
               /\ want'[u] \notin Locked(u)' \union left'[u]
               /\ state'[u] # "running" => want'[u] = NoKey
    <3>1. CASE u = t
      BY <1>0, <1>4, <2>2, <3>1 DEF LocksInv, TypeOK
    <3>2. CASE u # t
      BY <1>0, <1>4, <3>2 DEF LocksInv, TypeOK
    <3>3. QED
      BY <3>1, <3>2
  <2>4. QED
    BY <2>1, <2>3 DEF LocksInv
<1>6. StatementsInv'
  <2>1. ASSUME NEW u \in Crawls, state'[u] = "idle" PROVE returned'[u] = {}
    BY <1>0, <2>1 DEF StatementsInv, TypeOK
  <2>2. ASSUME NEW u \in Crawls, state'[u] = "running"
        PROVE  /\ left'[u] \subseteq Payloads(batch'[u])
               /\ want'[u] \in Payloads(batch'[u]) \union {NoKey}
               /\ Locked(u)' = Payloads(batch'[u]) \ (left'[u] \union {want'[u]})
               /\ returned'[u] \subseteq Locked(u)'
    <3>1. u \in Txs
      BY DEF Txs
    <3>2. CASE u = t
      <4>1. k \notin left[t] /\ NoKey \notin Payloads(b)
        BY <1>0 DEF LocksInv, Payloads
      <4>2. Locked(t) = Payloads(b) \ (left[t] \union {k})
        BY <1>0 DEF StatementsInv
      <4>3. Locked(t)' = Payloads(b) \ (left[t] \union {NoKey})
        BY <1>0, <1>1, <1>4, <4>1, <4>2
      <4>4. returned'[t] \subseteq Locked(t) \union {k}
        BY <1>0 DEF StatementsInv, TypeOK
      <4>5. left[t] \subseteq Payloads(b) /\ want'[t] = NoKey
        BY <1>0 DEF StatementsInv, TypeOK
      <4>6. QED
        BY <1>0, <1>4, <3>2, <4>3, <4>4, <4>5
    <3>3. CASE u # t
      BY <1>0, <1>4, <2>2, <3>1, <3>3 DEF StatementsInv, TypeOK
    <3>4. QED
      BY <3>2, <3>3
  <2>3. ASSUME NEW d \in Scripts, NEW q \in Locked(d)' PROVE draft'[q] = NoRow
    <3>1. d \in Txs /\ d # t
      BY StorageOK DEF Txs
    <3>2. q \in Locked(d) /\ q # k /\ q \in Keys
      BY <1>0, <1>4, <3>1 DEF Locked
    <3>3. QED
      BY <1>0, <3>2 DEF StatementsInv, TypeOK
  <2>4. QED
    BY <2>1, <2>2, <2>3 DEF StatementsInv
<1>7. DecisionsStand'
  <2>1. SUFFICES ASSUME NEW u \in Crawls, state'[u] = "running",
                        NEW q \in Payloads(batch'[u]) \ (left'[u] \union {want'[u]})
                 PROVE  /\ draft'[q].content = batch'[u][q]
                        /\ q \in returned'[u] <=> table'[q].content # batch'[u][q]
    BY DEF DecisionsStand
  <2>2. q \in Keys /\ u \in Txs
    BY DEF Payloads, Txs
  <2>3. CASE u = t /\ q = k
    <3>1. k \notin returned[t]
      BY <1>0 DEF StatementsInv, Locked
    <3>2. QED
      BY <1>0, <1>2, <2>3, <3>1 DEF TypeOK, Differs
  <2>4. CASE u = t /\ q # k
    <3>1. q \in Payloads(batch[u]) \ (left[u] \union {want[u]})
      BY <1>0, <2>4
    <3>2. /\ draft[q].content = batch[u][q]
          /\ q \in returned[u] <=> table[q].content # batch[u][q]
      BY <1>0, <2>1, <3>1 DEF DecisionsStand
    <3>3. draft'[q] = draft[q] /\ (q \in returned'[u] <=> q \in returned[u])
      BY <1>0, <2>2, <2>4 DEF TypeOK
    <3>4. QED
      BY <1>0, <3>2, <3>3
  <2>5. CASE u # t
    <3>1. q \in Payloads(batch[u]) \ (left[u] \union {want[u]})
      BY <1>0, <2>5, <2>2 DEF TypeOK
    <3>2. q \in Locked(u)
      BY <1>0, <2>1, <3>1 DEF StatementsInv
    <3>3. q # k
      BY <1>0, <2>2, <3>2 DEF Locked
    <3>4. /\ draft[q].content = batch[u][q]
          /\ q \in returned[u] <=> table[q].content # batch[u][q]
      BY <1>0, <2>1, <3>1 DEF DecisionsStand
    <3>5. draft'[q] = draft[q] /\ returned'[u] = returned[u]
      BY <1>0, <2>2, <2>5, <3>3 DEF TypeOK
    <3>6. QED
      BY <1>0, <3>4, <3>5
  <2>6. QED
    BY <2>3, <2>4, <2>5
<1>8. QED
  BY <1>3, <1>5, <1>6, <1>7

LEMMA DeleteRowKeeps ==
    ASSUME UpsertInv, NEW d \in Scripts, NEW k \in Keys, DeleteRow(d, k)
    PROVE  UpsertInv'
<1> USE DEF UpsertInv
<1>0. /\ d \in Txs /\ d \notin Crawls /\ NoKey \notin Keys /\ NoTx \notin Txs
      /\ state[d] = "running" /\ want[d] = k /\ lock[k] = NoTx
      /\ \/ lock' = [lock EXCEPT ![k] = d] /\ draft' = [draft EXCEPT ![k] = NoRow]
         \/ UNCHANGED <<lock, draft>>
      /\ want' = [want EXCEPT ![d] = NoKey]
      /\ UNCHANGED <<table, serial, state, batch, seen, left, returned>>
  BY StorageOK DEF DeleteRow, At, Txs
<1>1. NoRow \in Row
  BY DEF NoRow, Row
<1>2. TypeOK'
  <2>1. CASE lock' = [lock EXCEPT ![k] = d] /\ draft' = [draft EXCEPT ![k] = NoRow]
    BY <1>0, <1>1, <2>1 DEF TypeOK
  <2>2. CASE UNCHANGED <<lock, draft>>
    BY <1>0, <2>2 DEF TypeOK
  <2>3. QED
    BY <1>0, <2>1, <2>2
<1>3. /\ \A u \in Txs \ {d} : Locked(u)' = Locked(u)
      /\ Locked(d)' \subseteq Locked(d) \union {k}
  BY <1>0 DEF Locked, TypeOK
<1>4. LocksInv'
  <2>1. \A q \in Keys : lock'[q] = NoTx => draft'[q] = table'[q]
    BY <1>0 DEF LocksInv, TypeOK
  <2>2. k \notin left[d] /\ NoKey \notin left[d] /\ NoKey \notin Locked(d)'
    BY <1>0 DEF LocksInv, TypeOK, Locked
  <2>3. ASSUME NEW u \in Txs
        PROVE  /\ Locked(u)' \intersect left'[u] = {}
               /\ want'[u] \notin Locked(u)' \union left'[u]
               /\ state'[u] # "running" => want'[u] = NoKey
    <3>1. CASE u = d
      BY <1>0, <1>3, <2>2, <3>1 DEF LocksInv, TypeOK
    <3>2. CASE u # d
      BY <1>0, <1>3, <3>2 DEF LocksInv, TypeOK
    <3>3. QED
      BY <3>1, <3>2
  <2>4. QED
    BY <2>1, <2>3 DEF LocksInv
<1>5. StatementsInv'
  <2>1. \A u \in Crawls : u \in Txs /\ u # d /\ want'[u] = want[u]
    BY <1>0 DEF Txs, TypeOK
  <2>2. ASSUME NEW e \in Scripts, NEW q \in Locked(e)' PROVE draft'[q] = NoRow
    BY <1>0, <2>2 DEF StatementsInv, Locked, TypeOK, Txs
  <2>3. QED
    BY <1>0, <1>3, <2>1, <2>2 DEF StatementsInv
<1>6. DecisionsStand'
  <2>1. SUFFICES ASSUME NEW u \in Crawls, state[u] = "running",
                        NEW q \in Payloads(batch[u]) \ (left[u] \union {want[u]})
                 PROVE  /\ draft'[q].content = batch[u][q]
                        /\ q \in returned[u] <=> table[q].content # batch[u][q]
    BY <1>0 DEF DecisionsStand, Txs, TypeOK
  <2>2. q \in Keys /\ lock[q] = u /\ u \in Txs
    BY <2>1 DEF StatementsInv, Locked, Txs
  <2>3. draft'[q] = draft[q]
    BY <1>0, <2>2 DEF TypeOK
  <2>4. QED
    BY <2>1, <2>3 DEF DecisionsStand
<1>7. QED
  BY <1>2, <1>4, <1>5, <1>6

(* The end of a transaction touches only the rows it has locked.             *)
LEMMA EndKeeps ==
    ASSUME UpsertInv, NEW t \in Txs, state[t] = "running",
           NEW outcome \in {"committed", "victim", "failed"}, End(t, outcome)
    PROVE  UpsertInv'
<1> USE DEF UpsertInv
<1>0. /\ NoKey \notin Keys /\ NoTx \notin Txs
      /\ state' = [state EXCEPT ![t] = outcome]
      /\ \A k \in Keys :
            /\ lock'[k] = IF lock[k] = t THEN NoTx ELSE lock[k]
            /\ lock[k] = t => table'[k] \in {table[k], draft[k]} /\ draft'[k] = table'[k]
            /\ lock[k] # t => table'[k] = table[k] /\ draft'[k] = draft[k]
      /\ left' = [left EXCEPT ![t] = {}]
      /\ want' = [want EXCEPT ![t] = NoKey]
      /\ UNCHANGED <<serial, batch, returned>>
  BY StorageOK DEF End
<1>1. /\ table' \in [Keys -> Row] /\ draft' \in [Keys -> Row]
      /\ lock' \in [Keys -> Txs \union {NoTx}]
      /\ seen' \in [Scripts -> [Keys -> Nat]]
  <2>1. \A k \in Keys : table'[k] \in Row /\ draft'[k] \in Row
                        /\ lock'[k] \in Txs \union {NoTx}
    BY <1>0 DEF TypeOK
  <2>2. /\ table' = [k \in Keys |-> table'[k]] /\ draft' = [k \in Keys |-> draft'[k]]
        /\ lock' = [k \in Keys |-> lock'[k]]
    BY DEF End
  <2>3. seen' \in [Scripts -> [Keys -> Nat]]
    BY DEF End, TypeOK
  <2>4. QED
    BY <2>1, <2>2, <2>3
<1>2. TypeOK'
  BY <1>0, <1>1 DEF TypeOK
<1>3. /\ \A u \in Txs \ {t} : Locked(u)' = Locked(u)
      /\ Locked(t)' = {}
  BY <1>0 DEF Locked
<1>4. LocksInv'
  <2>1. \A k \in Keys : lock'[k] = NoTx => draft'[k] = table'[k]
    BY <1>0 DEF LocksInv
  <2>2. ASSUME NEW u \in Txs
        PROVE  /\ Locked(u)' \intersect left'[u] = {}
               /\ want'[u] \notin Locked(u)' \union left'[u]
               /\ state'[u] # "running" => want'[u] = NoKey
    <3>1. CASE u = t
      BY <1>0, <1>3, <3>1 DEF TypeOK
    <3>2. CASE u # t
      BY <1>0, <1>3, <3>2 DEF LocksInv, TypeOK
    <3>3. QED
      BY <3>1, <3>2
  <2>3. QED
    BY <2>1, <2>2 DEF LocksInv
<1>5. StatementsInv'
  <2>1. ASSUME NEW u \in Crawls
        PROVE  /\ state'[u] = "idle" => returned'[u] = {}
               /\ state'[u] = "running" =>
                    /\ left'[u] \subseteq Payloads(batch'[u])
                    /\ want'[u] \in Payloads(batch'[u]) \union {NoKey}
                    /\ Locked(u)' = Payloads(batch'[u]) \ (left'[u] \union {want'[u]})
                    /\ returned'[u] \subseteq Locked(u)'
    <3>1. u \in Txs
      BY DEF Txs
    <3>2. CASE u = t
      BY <1>0, <3>1, <3>2 DEF TypeOK
    <3>3. CASE u # t
      BY <1>0, <1>3, <3>1, <3>3 DEF StatementsInv, TypeOK
    <3>4. QED
      BY <3>2, <3>3
  <2>2. ASSUME NEW d \in Scripts, NEW k \in Locked(d)' PROVE draft'[k] = NoRow
    <3>1. d \in Txs /\ k \in Keys
      BY DEF Txs, Locked
    <3>2. d # t /\ k \in Locked(d) /\ lock[k] # t
      BY <1>3, <3>1, <2>2 DEF Locked
    <3>3. QED
      BY <1>0, <3>1, <3>2 DEF StatementsInv
  <2>3. QED
    BY <2>1, <2>2 DEF StatementsInv
<1>6. DecisionsStand'
  <2>1. SUFFICES ASSUME NEW u \in Crawls, state'[u] = "running",
                        NEW k \in Payloads(batch'[u]) \ (left'[u] \union {want'[u]})
                 PROVE  /\ draft'[k].content = batch'[u][k]
                        /\ k \in returned'[u] <=> table'[k].content # batch'[u][k]
    BY DEF DecisionsStand
  <2>2. u \in Txs /\ u # t /\ k \in Keys
    BY <1>0, <2>1 DEF Txs, TypeOK, Payloads
  <2>3. /\ state[u] = "running"
        /\ k \in Payloads(batch[u]) \ (left[u] \union {want[u]})
    BY <1>0, <2>1, <2>2 DEF TypeOK
  <2>4. lock[k] = u
    BY <2>3 DEF StatementsInv, Locked
  <2>5. table'[k] = table[k] /\ draft'[k] = draft[k]
    BY <1>0, <2>2, <2>4
  <2>6. QED
    BY <1>0, <2>3, <2>5 DEF DecisionsStand
<1>7. QED
  BY <1>2, <1>4, <1>5, <1>6

(* Whoever waits in a cycle is running, and so is the one it waits for,      *)
(* which is another transaction.                                             *)
LEMMA CycleHasTwo ==
    ASSUME UpsertInv, NEW t \in Txs, Deadlocked(t)
    PROVE  /\ state[t] = "running"
           /\ \E v \in Txs \ {t} : state[v] = "running"
<1>1. PICK C \in SUBSET Txs : t \in C /\ {Blocker(u) : u \in C} = C
  BY DEF Deadlocked
<1>2. \A u \in C : Blocker(u) \in C
  BY <1>1
<1>3. \A u \in C : state[u] = "running" /\ want[u] # NoKey /\ Blocker(u) = lock[want[u]]
  BY <1>1, <1>2, StorageOK DEF Blocker
<1>4. Blocker(t) # t
  <2>1. t \in Txs /\ want[t] \in Keys
    BY <1>1, <1>3 DEF UpsertInv, TypeOK
  <2>2. want[t] \notin Locked(t)
    BY <2>1 DEF UpsertInv, LocksInv
  <2>3. QED
    BY <1>1, <1>3, <2>1, <2>2 DEF Locked
<1>5. QED
  BY <1>1, <1>2, <1>3, <1>4

LEMMA UpsertStep == UpsertInv /\ [Next]_vars => UpsertInv'
<1> SUFFICES ASSUME UpsertInv, [Next]_vars PROVE UpsertInv'
  OBVIOUS
<1>1. ASSUME NEW t \in Txs, Commit(t) PROVE UpsertInv'
  BY <1>1, EndKeeps DEF Commit
<1>2. ASSUME NEW t \in Txs, AbortVictim(t) PROVE UpsertInv'
  BY <1>2, CycleHasTwo, EndKeeps DEF AbortVictim
<1>3. ASSUME NEW t \in Txs, Fail(t) PROVE UpsertInv'
  BY <1>3, EndKeeps DEF Fail
<1>4. CASE UNCHANGED vars
  BY <1>4 DEF vars, UpsertInv, TypeOK, LocksInv, StatementsInv, DecisionsStand, Locked
<1>5. QED
  BY <1>1, <1>2, <1>3, <1>4, BeginUpsertKeeps, BeginDeleteKeeps, ReachKeeps,
     WriteRowKeeps, DeleteRowKeeps DEF Next, Step

LEMMA UpsertInvariant == Spec => []UpsertInv
BY InitUpsert, UpsertStep, PTL DEF Spec

(* Every variable has its type, and only a running transaction holds locks.  *)
THEOREM TypeCorrect == Spec => []TypeOK
BY UpsertInvariant, PTL DEF UpsertInv

(* Which rows a crawl has changed is decided row by row while others commit  *)
(* and delete; every decision still holds when the crawl commits.            *)
THEOREM Decided == Spec => []DecisionsStand
BY UpsertInvariant, PTL DEF UpsertInv
-------------------------------------------------------------------------------
(***************************************************************************)
(* Victims.                                                                *)
(***************************************************************************)

LEMMA VictimStep == UpsertInv /\ VictimMakesWay /\ [Next]_vars => VictimMakesWay'
<1> SUFFICES ASSUME UpsertInv, VictimMakesWay, [Next]_vars PROVE VictimMakesWay'
  OBVIOUS
<1> DEFINE Way == {"running", "committed", "failed"}
<1>0. state \in [Txs -> {"idle", "running", "committed", "victim", "failed"}]
  BY DEF UpsertInv, TypeOK
<1>1. CASE UNCHANGED state
  BY <1>1 DEF VictimMakesWay
<1>2. ASSUME NEW t \in Txs, state' \in {[state EXCEPT ![t] = s] : s \in Way}
      PROVE  VictimMakesWay'
  BY <1>0, <1>2 DEF VictimMakesWay
<1>3. ASSUME NEW t \in Txs, AbortVictim(t) PROVE VictimMakesWay'
  <2>1. PICK v \in Txs \ {t} : state[v] = "running"
    BY <1>3, CycleHasTwo DEF AbortVictim
  <2>2. state'[v] = "running"
    BY <1>0, <1>3, <2>1 DEF AbortVictim, End
  <2>3. QED
    BY <2>2 DEF VictimMakesWay
<1>4. ASSUME NEW t \in Txs, Commit(t) \/ Fail(t) PROVE VictimMakesWay'
  BY <1>2, <1>4 DEF Commit, Fail, End
<1>5. ASSUME NEW t \in Crawls, NEW b \in Pages, BeginUpsert(t, b) PROVE VictimMakesWay'
  BY <1>2, <1>5 DEF BeginUpsert, Txs
<1>6. ASSUME NEW d \in Scripts, NEW K \in SUBSET Keys, BeginDelete(d, K)
      PROVE  VictimMakesWay'
  BY <1>2, <1>6 DEF BeginDelete, Txs
<1>7. ASSUME NEW t \in Txs, NEW k \in Keys,
             Reach(t, k) \/ WriteRow(t, k) \/ DeleteRow(t, k)
      PROVE  UNCHANGED state
  BY <1>7 DEF Reach, WriteRow, DeleteRow
<1>8. QED
  BY <1>1, <1>3, <1>4, <1>5, <1>6, <1>7 DEF Next, Step, vars

(* However many statements deadlock, not everybody is aborted for it.        *)
THEOREM VictimsMakeWay == Spec => []VictimMakesWay
<1>1. Init => VictimMakesWay
  BY DEF Init, VictimMakesWay
<1>2. QED
  BY <1>1, VictimStep, UpsertInvariant, PTL DEF Spec
-------------------------------------------------------------------------------
(***************************************************************************)
(* Waiting.                                                                *)
(***************************************************************************)

(* Of a family of finite sets one has the fewest members. *)
LEMMA SmallestMember ==
    ASSUME NEW F, F # {}, \A S \in F : IsFiniteSet(S)
    PROVE  \E S \in F : \A T \in F : Cardinality(T) >= Cardinality(S)
<1> DEFINE Sizes == {Cardinality(S) : S \in F}
           Less == {ss \in Nat \X Nat : ss[1] < ss[2]}
<1>1. Sizes \subseteq Nat /\ Sizes # {}
  BY FS_CardinalityType
<1>2. IsWellFoundedOn(Less, Nat)
  BY NatLessThanWellFounded, Zenon DEF OpToRel
<1>3. PICK n \in Sizes : \A m \in Sizes : ~ (<<m, n>> \in Less)
  <2> HIDE DEF Sizes, Less
  <2>1. QED BY <1>1, <1>2, WFMin
<1>4. ASSUME NEW m \in Sizes PROVE m >= n
  <2>1. m \in Nat /\ n \in Nat
    BY <1>1
  <2>2. <<m, n>> \notin Less
    BY <1>3
  <2> HIDE DEF Sizes
  <2>3. QED BY <2>1, <2>2
<1>5. QED
  BY <1>3, <1>4

(* Transactions that all wait for one of themselves contain a cycle: the     *)
(* smallest set of them that waits for nobody else.                          *)
LEMMA WaitersCycle ==
    ASSUME NEW S \in SUBSET Txs, IsFiniteSet(S), S # {}, \A t \in S : Blocker(t) \in S
    PROVE  \E t \in S : Deadlocked(t)
<1> DEFINE Closed == {C \in SUBSET S : C # {} /\ \A u \in C : Blocker(u) \in C}
<1>1. S \in Closed /\ \A C \in Closed : IsFiniteSet(C)
  BY FS_Subset
<1>2. PICK C \in Closed : \A D \in Closed : Cardinality(D) >= Cardinality(C)
  <2> HIDE DEF Closed
  <2>1. QED BY <1>1, SmallestMember
<1> DEFINE B == {Blocker(u) : u \in C}
<1>3. B \in Closed /\ B \in SUBSET C
  OBVIOUS
<1>4. Cardinality(B) >= Cardinality(C)
  BY <1>2, <1>3
<1>5. B = C
  <2> HIDE DEF B, Closed
  <2>1. IsFiniteSet(C)
    BY <1>1
  <2>2. Cardinality(B) <= Cardinality(C) /\ Cardinality(B) \in Nat /\ Cardinality(C) \in Nat
    BY <1>3, <2>1, FS_Subset, FS_CardinalityType
  <2>3. QED BY <1>3, <1>4, <2>1, <2>2, FS_Subset
<1>6. QED
  BY <1>5 DEF Deadlocked

(* With finitely many connections to the database nobody waits for ever      *)
(* unseen: there is always somebody to go on, or a cycle for the detector.   *)
THEOREM NobodyStuck ==
    ASSUME IsFiniteSet(Txs)
    PROVE  Spec => []WaitsEnd
<1>1. UpsertInv => WaitsEnd
  <2> SUFFICES ASSUME UpsertInv, NEW S \in SUBSET Txs,
                      \E t \in S : state[t] = "running",
                      \A t \in S : Blocker(t) \in S \union {NoTx},
                      \A t \in S : state[t] = "running" => Blocker(t) # NoTx
               PROVE  \E t \in S : state[t] = "running" /\ Deadlocked(t)
    BY DEF WaitsEnd
  <2> DEFINE R == {t \in S : state[t] = "running"}
  <2>1. R \in SUBSET Txs /\ IsFiniteSet(R) /\ R # {}
    BY FS_Subset
  <2>2. ASSUME NEW t \in R PROVE Blocker(t) \in R
    <3>1. Blocker(t) \in S /\ Blocker(t) # NoTx
      OBVIOUS
    <3>2. want[t] \in Keys /\ Blocker(t) = lock[want[t]]
      BY <3>1 DEF Blocker, UpsertInv, TypeOK
    <3>3. state[Blocker(t)] = "running"
      BY <3>1, <3>2 DEF UpsertInv, TypeOK
    <3>4. QED BY <3>1, <3>3
  <2>3. PICK t \in R : Deadlocked(t)
    <3> HIDE DEF R
    <3>1. QED BY <2>1, <2>2, WaitersCycle
  <2>4. QED BY <2>3
<1>2. QED
  BY <1>1, UpsertInvariant, PTL

(* What a step may do to a running statement: nothing, end it, let it reach  *)
(* a row it has still to visit, or finish the row it is at.                  *)
StatementGoes(t) ==
    \/ state'[t] = state[t] /\ left'[t] = left[t] /\ want'[t] = want[t]
    \/ state'[t] \in {"committed", "victim", "failed"}
    \/ /\ state'[t] = "running" /\ want[t] = NoKey
       /\ want'[t] \in left[t] /\ left'[t] = left[t] \ {want'[t]}
    \/ /\ state'[t] = "running" /\ want[t] # NoKey
       /\ want'[t] = NoKey /\ left'[t] = left[t]

(* No statement visits a row twice or starts again: a running one only comes *)
(* nearer to its end, and one that has ended is never resumed.               *)
StatementsAdvance ==
    [][\A t \in Txs : /\ state[t] = "running" => StatementGoes(t)
                      /\ state[t] \in {"committed", "victim", "failed"}
                           => state'[t] = state[t]]_vars

(* Each running statement, and each that has ended, by every kind of step.   *)
LEMMA StatementStep ==
    ASSUME UpsertInv, Next, NEW t \in Txs
    PROVE  /\ state[t] = "running" => StatementGoes(t)
           /\ state[t] \in {"committed", "victim", "failed"} => state'[t] = state[t]
<1> DEFINE Goal == /\ state[t] = "running" => StatementGoes(t)
                   /\ state[t] \in {"committed", "victim", "failed"} => state'[t] = state[t]
<1>0. /\ state \in [Txs -> {"idle", "running", "committed", "victim", "failed"}]
      /\ left \in [Txs -> SUBSET Keys] /\ want \in [Txs -> Keys \union {NoKey}]
      /\ NoKey \notin Keys
  BY StorageOK DEF UpsertInv, TypeOK
<1>1. ASSUME NEW u \in Crawls, NEW b \in Pages, BeginUpsert(u, b) PROVE Goal
  BY <1>0, <1>1 DEF BeginUpsert, StatementGoes, Txs
<1>2. ASSUME NEW u \in Scripts, NEW K \in SUBSET Keys, BeginDelete(u, K) PROVE Goal
  BY <1>0, <1>2 DEF BeginDelete, StatementGoes, Txs
<1>3. ASSUME NEW u \in Txs, NEW k \in Keys, Reach(u, k) PROVE Goal
  BY <1>0, <1>3 DEF Reach, StatementGoes
<1>4. ASSUME NEW u \in Txs, NEW k \in Keys, WriteRow(u, k) \/ DeleteRow(u, k) PROVE Goal
  BY <1>0, <1>4 DEF WriteRow, DeleteRow, At, StatementGoes
<1>5. ASSUME NEW u \in Txs, NEW o \in {"committed", "victim", "failed"},
             state[u] = "running", End(u, o)
      PROVE  Goal
  BY <1>0, <1>5 DEF End, StatementGoes
<1>6. ASSUME NEW u \in Txs, Commit(u) \/ AbortVictim(u) \/ Fail(u) PROVE Goal
  BY <1>5, <1>6, CycleHasTwo DEF Commit, AbortVictim, Fail
<1>7. QED
  BY <1>1, <1>2, <1>3, <1>4, <1>6 DEF Next, Step, Txs

(* With finitely many rows, this and NobodyStuck are why statements end      *)
(* (StatementsEnd, which TLC checks).                                        *)
THEOREM StatementsGoForward == Spec => StatementsAdvance
<1>1. UpsertInv /\ [Next]_vars
        => [\A t \in Txs : /\ state[t] = "running" => StatementGoes(t)
                           /\ state[t] \in {"committed", "victim", "failed"}
                                => state'[t] = state[t]]_vars
  BY StatementStep
<1>2. QED
  BY <1>1, UpsertInvariant, PTL DEF Spec, StatementsAdvance
-------------------------------------------------------------------------------
(***************************************************************************)
(* Refinement: the statement implements AtomicUpsert.                      *)
(***************************************************************************)

AbsContent == [k \in Keys |-> table[k].content]
Mapped(s) == [idle |-> "idle", running |-> "open", committed |-> "committed",
              victim |-> "aborted", failed |-> "aborted"][s]
AbsStatus == [t \in Txs |-> Mapped(state[t])]
AbsReturned == [t \in Crawls |-> IF state[t] = "committed" THEN returned[t] ELSE {}]

Unseen == UNCHANGED <<AbsContent, AbsStatus, batch, AbsReturned>>

(* Steps inside a statement are invisible.                                   *)
LEMMA InnerStepUnseen ==
    ASSUME UpsertInv, NEW t \in Txs, state[t] = "running",
           UNCHANGED <<table, state, batch>>,
           \A u \in Crawls : u # t => returned'[u] = returned[u]
    PROVE  Unseen
<1>1. \A u \in Crawls : state[u] = "committed" => returned'[u] = returned[u]
  OBVIOUS
<1>2. QED
  BY <1>1 DEF Unseen, AbsContent, AbsStatus, Mapped, AbsReturned

(* How the status map follows a change of one state.                         *)
LEMMA StatusChange ==
    ASSUME UpsertInv, NEW t \in Txs,
           NEW s \in {"idle", "running", "committed", "victim", "failed"},
           state' = [state EXCEPT ![t] = s]
    PROVE  /\ AbsStatus' = [AbsStatus EXCEPT ![t] = Mapped(s)]
           /\ AbsStatus[t] = Mapped(state[t])
BY DEF UpsertInv, TypeOK, AbsStatus

LEMMA MappedStates ==
    /\ Mapped("idle") = "idle" /\ Mapped("running") = "open"
    /\ Mapped("committed") = "committed"
    /\ Mapped("victim") = "aborted" /\ Mapped("failed") = "aborted"
BY DEF Mapped

LEMMA RowsApart ==
    ASSUME UpsertInv, NEW t \in Txs, NEW u \in Crawls, state[t] = "running", u # t,
           NEW s \in {"committed", "victim", "failed"},
           state' = [state EXCEPT ![t] = s], returned' = returned
    PROVE  AbsReturned'[u] = AbsReturned[u]
BY DEF UpsertInv, TypeOK, AbsReturned, Txs

(* The commit of a crawl is the instant at which its upsert takes effect.    *)
LEMMA CommitApplies ==
    ASSUME UpsertInv, NEW t \in Crawls, Commit(t)
    PROVE  Atomic!Apply(t)
<1> DEFINE P == Payloads(batch[t])
<1>0. /\ t \in Txs /\ state[t] = "running" /\ left[t] = {} /\ want[t] = NoKey
      /\ state' = [state EXCEPT ![t] = "committed"]
      /\ table' = [k \in Keys |-> IF lock[k] = t THEN draft[k] ELSE table[k]]
      /\ UNCHANGED <<batch, returned>>
  BY DEF Commit, End, Txs
<1>1. NoKey \notin P /\ P \subseteq Keys
  BY StorageOK DEF Payloads
<1>2. Locked(t) = P /\ returned[t] \subseteq P
  BY <1>0, <1>1 DEF UpsertInv, StatementsInv
<1>3. \A k \in P : /\ draft[k].content = batch[t][k]
                   /\ k \in returned[t] <=> table[k].content # batch[t][k]
  BY <1>0, <1>1 DEF UpsertInv, DecisionsStand
<1>4. AbsStatus' = [AbsStatus EXCEPT ![t] = "committed"] /\ AbsStatus[t] = "open"
  BY <1>0, StatusChange, MappedStates
<1>5. AbsContent' = [k \in Keys |-> IF k \in P THEN batch[t][k] ELSE AbsContent[k]]
  BY <1>0, <1>1, <1>2, <1>3 DEF AbsContent, Locked
<1>6. AbsReturned' = [AbsReturned EXCEPT ![t] = {k \in P : AbsContent[k] # batch[t][k]}]
  <2>1. returned[t] = {k \in P : AbsContent[k] # batch[t][k]}
    BY <1>1, <1>2, <1>3 DEF AbsContent
  <2>2. AbsReturned'[t] = returned[t]
    BY <1>0 DEF AbsReturned, UpsertInv, TypeOK
  <2>3. \A u \in Crawls : u # t => AbsReturned'[u] = AbsReturned[u]
    BY <1>0, RowsApart
  <2>4. /\ AbsReturned = [u \in Crawls |-> AbsReturned[u]]
        /\ AbsReturned' = [u \in Crawls |-> AbsReturned'[u]]
    BY DEF AbsReturned
  <2>5. QED
    BY <2>1, <2>2, <2>3, <2>4
<1>7. QED
  BY <1>0, <1>4, <1>5, <1>6 DEF Atomic!Apply, Atomic!Becomes, Atomic!Payloads, Payloads,
     AbsContent, AbsStatus, Mapped, AbsReturned

(* The commit of the rerun script removes the notices it has deleted.        *)
LEMMA CommitRemoves ==
    ASSUME UpsertInv, NEW d \in Scripts, Commit(d)
    PROVE  \E K \in SUBSET Keys : Atomic!Remove(d, K)
<1>0. /\ d \in Txs /\ d \notin Crawls /\ state[d] = "running"
      /\ state' = [state EXCEPT ![d] = "committed"]
      /\ table' = [k \in Keys |-> IF lock[k] = d THEN draft[k] ELSE table[k]]
      /\ UNCHANGED <<batch, returned>>
  BY StorageOK DEF Commit, End, Txs
<1>1. \A k \in Locked(d) : draft[k] = NoRow
  BY DEF UpsertInv, StatementsInv
<1>2. AbsStatus' = [AbsStatus EXCEPT ![d] = "committed"] /\ AbsStatus[d] = "open"
  BY <1>0, StatusChange, MappedStates
<1>3. AbsContent' = [k \in Keys |-> IF k \in Locked(d) THEN NoContent ELSE AbsContent[k]]
  BY <1>0, <1>1 DEF AbsContent, Locked, NoRow
<1>4. AbsReturned' = AbsReturned
  BY <1>0 DEF AbsReturned, UpsertInv, TypeOK, Txs
<1>5. PICK K \in SUBSET Keys : K = Locked(d)
  BY DEF Locked
<1>6. Atomic!Remove(d, K)
  BY <1>0, <1>2, <1>3, <1>4, <1>5 DEF Atomic!Remove, Atomic!Becomes,
     AbsContent, AbsStatus, Mapped, AbsReturned
<1>7. QED
  BY <1>6

LEMMA EndAborts ==
    ASSUME UpsertInv, NEW t \in Txs, state[t] = "running",
           NEW s \in {"victim", "failed"}, End(t, s)
    PROVE  Atomic!Abort(t)
<1>0. /\ state' = [state EXCEPT ![t] = s]
      /\ table' = [k \in Keys |-> table[k]]
      /\ UNCHANGED <<batch, returned>>
  BY DEF End
<1>1. AbsStatus' = [AbsStatus EXCEPT ![t] = "aborted"] /\ AbsStatus[t] = "open"
  BY <1>0, StatusChange, MappedStates
<1>2. AbsContent' = AbsContent
  BY <1>0 DEF AbsContent
<1>3. AbsReturned' = AbsReturned
  BY <1>0 DEF AbsReturned, UpsertInv, TypeOK, Txs
<1>4. QED
  BY <1>0, <1>1, <1>2, <1>3 DEF Atomic!Abort, Atomic!Becomes,
     AbsContent, AbsStatus, Mapped, AbsReturned

LEMMA BeginOpens ==
    ASSUME UpsertInv
    PROVE  /\ \A t \in Crawls : \A b \in Pages :
                 BeginUpsert(t, b) => b \in Atomic!Batches /\ Atomic!Open(t, b)
           /\ \A d \in Scripts : \A K \in SUBSET Keys :
                 BeginDelete(d, K) => Atomic!OpenScript(d)
<1>1. ASSUME NEW t \in Crawls, NEW b \in Pages, BeginUpsert(t, b)
      PROVE  b \in Atomic!Batches /\ Atomic!Open(t, b)
  <2>0. /\ t \in Txs /\ b \in Batches /\ state[t] = "idle"
        /\ state' = [state EXCEPT ![t] = "running"]
        /\ batch' = [batch EXCEPT ![t] = b]
        /\ UNCHANGED <<table, returned>>
    BY <1>1, StorageOK DEF BeginUpsert, Txs
  <2>1. AbsStatus' = [AbsStatus EXCEPT ![t] = "open"] /\ AbsStatus[t] = "idle"
    BY <2>0, StatusChange, MappedStates
  <2>2. AbsReturned' = AbsReturned /\ AbsContent' = AbsContent
    BY <2>0 DEF AbsReturned, AbsContent, UpsertInv, TypeOK, Txs
  <2>3. QED
    BY <2>0, <2>1, <2>2 DEF Atomic!Open, Atomic!Becomes, Atomic!Batches, Batches,
       AbsContent, AbsStatus, Mapped, AbsReturned
<1>2. ASSUME NEW d \in Scripts, NEW K \in SUBSET Keys, BeginDelete(d, K)
      PROVE  Atomic!OpenScript(d)
  <2>0. /\ d \in Txs /\ state[d] = "idle"
        /\ state' = [state EXCEPT ![d] = "running"]
        /\ UNCHANGED <<table, batch, returned>>
    BY <1>2 DEF BeginDelete, Txs
  <2>1. AbsStatus' = [AbsStatus EXCEPT ![d] = "open"] /\ AbsStatus[d] = "idle"
    BY <2>0, StatusChange, MappedStates
  <2>2. AbsReturned' = AbsReturned /\ AbsContent' = AbsContent
    BY <2>0 DEF AbsReturned, AbsContent, UpsertInv, TypeOK, Txs
  <2>3. QED
    BY <2>0, <2>1, <2>2 DEF Atomic!OpenScript, Atomic!Becomes,
       AbsContent, AbsStatus, Mapped, AbsReturned
<1>3. QED
  BY <1>1, <1>2

LEMMA AtomicStep == UpsertInv /\ [Next]_vars => [Atomic!Next]_(Atomic!upsertVars)
<1> SUFFICES ASSUME UpsertInv, [Next]_vars
             PROVE  [Atomic!Next]_(Atomic!upsertVars)
  OBVIOUS
<1>1. CASE Unseen
  BY <1>1 DEF Unseen, Atomic!upsertVars, AbsContent, AbsStatus, Mapped, AbsReturned
<1>2. ASSUME NEW t \in Txs, NEW k \in Keys,
             \/ Reach(t, k)
             \/ t \in Crawls /\ WriteRow(t, k)
             \/ t \in Scripts /\ DeleteRow(t, k)
      PROVE  Unseen
  <2>1. state[t] = "running" /\ UNCHANGED <<table, state, batch>>
    BY <1>2 DEF Reach, WriteRow, DeleteRow, At
  <2>2. \A u \in Crawls : u # t => returned'[u] = returned[u]
    BY <1>2 DEF Reach, WriteRow, DeleteRow, UpsertInv, TypeOK
  <2>3. QED
    BY <2>1, <2>2, InnerStepUnseen
<1>3. ASSUME NEW t \in Txs, Commit(t) PROVE Atomic!Next
  <2>1. CASE t \in Crawls
    BY <1>3, <2>1, CommitApplies DEF Atomic!Next
  <2>2. CASE t \in Scripts
    BY <1>3, <2>2, CommitRemoves DEF Atomic!Next
  <2>3. QED
    BY <2>1, <2>2 DEF Txs
<1>4. ASSUME NEW t \in Txs, AbortVictim(t) \/ Fail(t) PROVE Atomic!Next
  <2>1. Atomic!Abort(t)
    BY <1>4, CycleHasTwo, EndAborts DEF AbortVictim, Fail
  <2>2. QED
    BY <2>1 DEF Atomic!Next, Txs
<1>5. ASSUME NEW t \in Crawls, NEW b \in Pages, BeginUpsert(t, b) PROVE Atomic!Next
  BY <1>5, BeginOpens DEF Atomic!Next
<1>6. ASSUME NEW d \in Scripts, NEW K \in SUBSET Keys, BeginDelete(d, K)
      PROVE  Atomic!Next
  BY <1>6, BeginOpens DEF Atomic!Next
<1>7. CASE UNCHANGED vars
  BY <1>1, <1>7 DEF vars, Unseen, AbsContent, AbsStatus, Mapped, AbsReturned
<1>8. QED
  BY <1>1, <1>2, <1>3, <1>4, <1>5, <1>6, <1>7 DEF Next, Step

LEMMA InitAtomic == Init => Atomic!Init
BY DEF Init, Atomic!Init, NoRow, Txs

(* Whatever other crawls, the rerun script and the deadlock detector do      *)
(* between its rows, a bulk upsert takes effect at one instant or not at     *)
(* all, and returns exactly the keys whose content it changed.               *)
THEOREM ImplementsAtomic == Spec => AtomicSpec
BY InitAtomic, AtomicStep, UpsertInvariant, PTL DEF Spec, AtomicSpec, Atomic!Spec
===============================================================================
