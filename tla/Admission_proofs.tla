--------------------------- MODULE Admission_proofs ---------------------------
(***************************************************************************)
(* For any requests: a nonce of a user is used by one stored post at most, *)
(* a post is stored as a whole, and the limit per user counts the pool.    *)
(*                                                                         *)
(* ReplayProtected says nothing of the transactions that are under way:    *)
(* NonceInv adds what the user's row, or the gap where it will be, makes   *)
(* sure of: one transaction of a user has written, and whatever has read   *)
(* the nonce has read the one that is still in the row.  StoredWhole speaks *)
(* of committed rows; WholeInv adds that an unfinished transaction has none *)
(* of these, and one that has not begun, or was rolled back, no row at all. *)
(* LimitSeesPool compares two sums; LimitInv adds where each transaction   *)
(* is that an intent counts among its uses, and that the sums are of       *)
(* finitely many lengths.                                                  *)
(***************************************************************************)
EXTENDS Admission, IntentPool_proofs, TLAPS

Steps == {"new", "sync", "balance", "begin", "gap", "locked", "storing", "stored", "refused"}

Inert == {"new", "sync", "balance", "begin", "refused"}

NonceType ==
    /\ post \in [Posts -> Steps]
    /\ DOMAIN nonces \subseteq Users /\ \A u \in DOMAIN nonces : nonces[u] \in Nat

\* The nonce that a transaction has read is the one in the row, and lower than its own.
ReadNonce ==
    \A p \in Posts :
      /\ post[p] = "gap" => Owner[p] \notin DOMAIN nonces
      /\ post[p] = "locked" => Owner[p] \in DOMAIN nonces
      /\ post[p] \in {"locked", "storing"} /\ Owner[p] \in DOMAIN nonces =>
           nonces[Owner[p]] < Nonce[p]

\* One transaction of a user holds the row; none holds the gap once another has written.
OneHolder ==
    \A p, q \in Posts : p # q /\ Owner[p] = Owner[q] =>
      /\ post[p] = "storing" => post[q] \notin {"gap", "locked", "storing"}
      /\ post[p] = "locked" => post[q] # "locked"

StoredBelow ==
    \A p \in Posts : post[p] = "stored" =>
      Owner[p] \in DOMAIN nonces /\ Nonce[p] <= nonces[Owner[p]]

StoredOnce ==
    \A p, q \in Posts :
      p # q /\ Owner[p] = Owner[q] /\ post[p] = "stored" /\ post[q] = "stored" =>
        Nonce[p] # Nonce[q]

NonceInv == NonceType /\ ReadNonce /\ OneHolder /\ StoredBelow /\ StoredOnce

-----------------------------------------------------------------------------

\* A request that moves to a step without a transaction takes nothing.
LEMMA ToInert ==
    ASSUME NonceInv, NEW p \in Posts, NEW to \in Inert,
           post' = [post EXCEPT ![p] = to], UNCHANGED nonces
    PROVE  NonceInv'
<1>1. /\ \A q \in Posts : q # p => post'[q] = post[q]
      /\ post'[p] \notin {"gap", "locked", "storing", "stored"}
    BY DEF NonceInv, NonceType, Inert
<1>2. NonceType'
    BY DEF NonceInv, NonceType, Inert, Steps
<1>3. ReadNonce'
    BY <1>1 DEF NonceInv, ReadNonce
<1>4. OneHolder'
    BY <1>1 DEF NonceInv, OneHolder
<1>5. StoredBelow' /\ StoredOnce'
    BY <1>1 DEF NonceInv, StoredBelow, StoredOnce
<1> QED
    BY <1>2, <1>3, <1>4, <1>5 DEF NonceInv

\* SELECT ... FOR UPDATE reads the nonce that the row has, or finds no row.
LEMMA SelectKeeps ==
    ASSUME NonceInv, NEW p \in Posts, SelectNonce(p)
    PROVE  NonceInv'
<1> USE AdmissionAssumption
<1>0. Nonce[p] \in Nat /\ (Owner[p] \in DOMAIN nonces => nonces[Owner[p]] \in Nat)
    BY DEF NonceInv, NonceType
<1>1. /\ post[p] = "begin" /\ UNCHANGED nonces
      /\ \A q \in Posts : q # p => post'[q] = post[q]
      /\ \/ post'[p] = "gap" /\ Owner[p] \notin DOMAIN nonces
         \/ post'[p] = "refused"
         \/ post'[p] = "locked" /\ Owner[p] \in DOMAIN nonces /\ nonces[Owner[p]] < Nonce[p]
  <2>1. post[p] = "begin" /\ UNCHANGED nonces /\ \A q \in Posts : q # p => post'[q] = post[q]
      BY DEF SelectNonce, Go, NonceInv, NonceType
  <2>2. post'[p] = IF Owner[p] \notin DOMAIN nonces THEN "gap"
                   ELSE IF Nonce[p] <= nonces[Owner[p]] THEN "refused" ELSE "locked"
      BY DEF SelectNonce, Go, NonceInv, NonceType
  <2> QED
      BY <1>0, <2>1, <2>2
<1>2. \A q \in Posts : q # p /\ Owner[q] = Owner[p] =>
        /\ post[q] # "storing"
        /\ Owner[p] \in DOMAIN nonces => post[q] # "locked"
    BY DEF SelectNonce, UserRowFree, Others
<1>3. NonceType'
    BY <1>1 DEF SelectNonce, Go, NonceInv, NonceType, Steps
<1>4. ReadNonce'
    BY <1>1 DEF NonceInv, ReadNonce
<1>5. OneHolder'
    BY <1>1, <1>2 DEF NonceInv, OneHolder
<1>6. StoredBelow' /\ StoredOnce'
    BY <1>1 DEF NonceInv, StoredBelow, StoredOnce
<1> QED
    BY <1>3, <1>4, <1>5, <1>6 DEF NonceInv

\* The upsert writes under the row's lock, or alone in the gap.
LEMMA UpsertKeeps ==
    ASSUME NonceInv, NEW p \in Posts, UpsertUserNonce(p)
    PROVE  NonceInv'
<1>1. CASE Nonce[p] <= MaxNonce
  <2>1. /\ post[p] \in {"locked", "gap"} /\ UNCHANGED nonces
        /\ \A q \in Posts : q # p => post'[q] = post[q]
        /\ post'[p] = "storing"
      BY <1>1 DEF UpsertUserNonce, NonceInv, NonceType
  <2>2. \A q \in Posts : q # p /\ Owner[q] = Owner[p] => post[q] \notin {"gap", "locked", "storing"}
      BY <2>1 DEF UpsertUserNonce, Others, NonceInv, ReadNonce, OneHolder
  <2>3. NonceType'
      BY <1>1 DEF UpsertUserNonce, NonceInv, NonceType, Steps
  <2>4. ReadNonce'
      BY <2>1 DEF NonceInv, ReadNonce
  <2>5. OneHolder'
      BY <2>1, <2>2 DEF NonceInv, OneHolder
  <2>6. StoredBelow' /\ StoredOnce'
      BY <2>1 DEF NonceInv, StoredBelow, StoredOnce
  <2> QED
      BY <2>3, <2>4, <2>5, <2>6 DEF NonceInv
<1>2. CASE ~(Nonce[p] <= MaxNonce)
    BY <1>2, ToInert DEF UpsertUserNonce, Inert
<1> QED
    BY <1>1, <1>2

\* The commit raises the nonce of its own user, whom no other transaction has read.
LEMMA CommitKeeps ==
    ASSUME NonceInv, NEW p \in Posts, Commit(p)
    PROVE  NonceInv'
<1> USE AdmissionAssumption
<1>1. /\ post[p] = "storing" /\ post'[p] = "stored"
      /\ \A q \in Posts : q # p => post'[q] = post[q]
    BY DEF Commit, Go, NonceInv, NonceType
<1>2. /\ DOMAIN nonces' = DOMAIN nonces \union {Owner[p]}
      /\ nonces'[Owner[p]] = Nonce[p]
      /\ \A u \in DOMAIN nonces : u # Owner[p] => nonces'[u] = nonces[u]
    BY DEF Commit, With
<1>3. Owner[p] \in DOMAIN nonces => nonces[Owner[p]] < Nonce[p]
    BY <1>1 DEF NonceInv, ReadNonce
<1>4. \A q \in Posts : q # p /\ Owner[q] = Owner[p] => post[q] \notin {"gap", "locked", "storing"}
    BY <1>1 DEF NonceInv, OneHolder
<1>5. NonceType'
    BY <1>2 DEF Commit, Go, NonceInv, NonceType, Steps
<1>6. ReadNonce'
    BY <1>1, <1>2, <1>4 DEF NonceInv, ReadNonce
<1>7. OneHolder'
    BY <1>1 DEF NonceInv, OneHolder
<1>8. \A q \in Posts : q # p /\ Owner[q] = Owner[p] /\ post[q] = "stored" =>
        Owner[p] \in DOMAIN nonces /\ Nonce[q] <= nonces[Owner[p]] /\ Nonce[q] < Nonce[p]
    BY <1>3 DEF NonceInv, NonceType, StoredBelow
<1>9. StoredBelow'
    BY <1>1, <1>2, <1>8 DEF NonceInv, StoredBelow
<1>10. StoredOnce'
    BY <1>1, <1>8 DEF NonceInv, StoredOnce
<1> QED
    BY <1>5, <1>6, <1>7, <1>9, <1>10 DEF NonceInv

\* NonceInit: before the first request nobody holds or has read a nonce.
LEMMA NonceInit == ASSUME InitAdmission PROVE NonceInv
<1>1. /\ post = [p \in Posts |-> "new"]
      /\ DOMAIN nonces \subseteq Users /\ \A u \in DOMAIN nonces : nonces[u] \in Nat
    BY DEF InitAdmission
<1> QED
    BY <1>1 DEF NonceInv, NonceType, Steps, ReadNonce, OneHolder, StoredBelow, StoredOnce

\* RestartNonces: after a restart no transaction holds a row or has read a nonce.
LEMMA RestartNonces == ASSUME NonceInv, RestartAll PROVE NonceInv'
<1>1. /\ UNCHANGED nonces
      /\ post' = [p \in Posts |-> IF post[p] \in {"new", "stored"} THEN post[p] ELSE "refused"]
    BY DEF RestartAll
<1>2. \A p \in Posts : /\ post'[p] \notin {"gap", "locked", "storing"}
                       /\ post'[p] = "stored" => post[p] = "stored"
    BY <1>1
<1>3. NonceType'
    BY <1>1 DEF NonceInv, NonceType, Steps
<1>4. ReadNonce' /\ OneHolder'
    BY <1>2 DEF ReadNonce, OneHolder
<1>5. StoredBelow' /\ StoredOnce'
    BY <1>1, <1>2 DEF NonceInv, StoredBelow, StoredOnce
<1> QED
    BY <1>3, <1>4, <1>5 DEF NonceInv

\* NonceStep: every step keeps NonceInv.
LEMMA NonceStep == ASSUME NonceInv, [NextAdmission]_allVars PROVE NonceInv'
<1>1. CASE UNCHANGED <<post, nonces>>
    BY <1>1 DEF NonceInv, NonceType, ReadNonce, OneHolder, StoredBelow, StoredOnce
<1>2. ASSUME NEW p \in Posts, PostData(p) PROVE NonceInv'
  <2>1. CASE CheckLen(p) \/ SyncForPost(p) \/ CheckBalance(p) \/ Refuse(p) \/ GapDeadlock(p)
    <3>1. PICK to \in Inert : post' = [post EXCEPT ![p] = to]
        BY <2>1 DEF CheckLen, SyncForPost, CheckBalance, Refuse, GapDeadlock, Go, Inert
    <3>2. UNCHANGED nonces
        BY <2>1 DEF CheckLen, SyncForPost, CheckBalance, Refuse, GapDeadlock
    <3> QED
        BY <3>1, <3>2, ToInert
  <2>2. CASE Rollback(p)
      BY <2>2, ToInert DEF Rollback, Inert
  <2>3. CASE StoreChunk(p)
      BY <2>3, <1>1 DEF StoreChunk, postVars
  <2>4. CASE SelectNonce(p) \/ UpsertUserNonce(p) \/ Commit(p)
      BY <2>4, SelectKeeps, UpsertKeeps, CommitKeeps
  <2> QED
      BY <1>2, <2>1, <2>2, <2>3, <2>4 DEF PostData
<1>3. CASE (\E t \in Txs, p \in Prices : MineAt(t, p)) \/ (\E k \in 0 .. MaxSent : ReorgAt(k))
             \/ LoseExcluded
    BY <1>1, <1>3 DEF MineAt, ReorgAt, LoseExcluded
<1>4. CASE Elsewhere
    BY <1>1, <1>4 DEF Elsewhere, postVars
<1>5. CASE UNCHANGED allVars
    BY <1>1, <1>5 DEF allVars, postVars
<1> QED
    BY <1>2, <1>3, <1>4, <1>5, RestartNonces DEF NextAdmission

\* NonceInv is an invariant.
THEOREM NonceInvHolds == SpecAdmission => []NonceInv
    BY NonceInit, NonceStep, PTL DEF SpecAdmission

\* ReplayProtectedHolds: for any users and requests, replayed ones among them, one
\* post is stored for a nonce at most, and the row keeps the highest nonce.
THEOREM ReplayProtectedHolds == SpecAdmission => []ReplayProtected
<1>1. NonceInv => ReplayProtected
    BY DEF NonceInv, StoredBelow, StoredOnce, ReplayProtected
<1> QED
    BY <1>1, NonceInvHolds, PTL

-----------------------------------------------------------------------------
(* A post is stored as a whole *)

WholeOf(p) ==
    /\ post[p] \notin {"storing", "stored"} => ChunksOf(p) \intersect DOMAIN rows = {}
    /\ post[p] = "storing" => ChunksOf(p) \intersect Committed = {}
    /\ post[p] = "stored" => ChunksOf(p) \subseteq Committed

WholeInv == RowsOK /\ \A p \in Posts : WholeOf(p)

\* The rows of p are, and are committed or not, as they were.
SameRows(p) ==
    \A i \in ChunksOf(p) :
      /\ i \in DOMAIN rows' <=> i \in DOMAIN rows
      /\ i \in DOMAIN rows => rows'[i].committed = rows[i].committed

\* WholeKept: a post whose rows and step stay as they were stays whole.
LEMMA WholeKept ==
    ASSUME NEW p \in Posts, WholeOf(p), SameRows(p), post'[p] = post[p]
    PROVE  WholeOf(p)'
<1>1. (ChunksOf(p) \intersect DOMAIN rows)' = ChunksOf(p) \intersect DOMAIN rows
    BY DEF SameRows, ChunksOf, Chunks
<1>2. (ChunksOf(p) \intersect Committed)' = ChunksOf(p) \intersect Committed
    BY DEF SameRows, ChunksOf, Chunks, Committed
<1>3. UNCHANGED ChunksOf(p)
    BY DEF ChunksOf, Chunks
<1> QED
    BY <1>1, <1>2, <1>3 DEF WholeOf

\* The chunks of two posts have nothing in common.
LEMMA ChunksDisjoint ==
    ASSUME NEW p, NEW q, p # q
    PROVE  /\ \A k : <<p, k>> \notin ChunksOf(q)
           /\ \A i \in ChunksOf(p) : i \notin ChunksOf(q)
    BY DEF ChunksOf

\* The steps of a request that touch no row
LEMMA NoRowsKeeps ==
    ASSUME WholeInv, NonceInv, NEW p \in Posts, UNCHANGED <<rows, clock>>,
           NEW to \in Steps, post' = [post EXCEPT ![p] = to],
           post[p] \notin {"storing", "stored"}, to # "stored"
    PROVE  WholeInv'
<1>1. /\ \A q \in Posts : q # p => post'[q] = post[q]
      /\ post'[p] = to
    BY DEF NonceInv, NonceType
<1>2. \A q \in Posts : SameRows(q)
    BY DEF SameRows
<1>3. \A q \in Posts : q # p => WholeOf(q)'
    BY <1>1, <1>2, WholeKept DEF WholeInv
<1>4. WholeOf(p)'
  <2>1. ChunksOf(p) \intersect DOMAIN rows = {}
      BY DEF WholeInv, WholeOf
  <2>2. (ChunksOf(p) \intersect DOMAIN rows = {})'
      BY <2>1 DEF ChunksOf, Chunks
  <2> QED
      BY <1>1, <2>2 DEF WholeOf, Committed
<1> QED
    BY <1>3, <1>4 DEF WholeInv, RowsOK

\* StoreChunkWhole: one more chunk is stored, and committed with none of its post.
LEMMA StoreChunkWhole ==
    ASSUME WholeInv, NEW p \in Posts, StoreChunk(p)
    PROVE  WholeInv'
<1> DEFINE i == <<p, Cardinality(Stored(p)) + 1>>
<1>1. post[p] = "storing" /\ StoreDataIntent(i) /\ UNCHANGED post
    BY DEF StoreChunk, postVars
<1> HIDE DEF i
<1>2. /\ RowsOK' /\ DOMAIN rows' = DOMAIN rows \union {i}
      /\ \A j \in DOMAIN rows : rows'[j] = rows[j]
      /\ ~rows'[i].committed
    BY <1>1, StoreKeeps DEF WholeInv
<1>3. \A q \in Posts : q # p => i \notin ChunksOf(q)
    BY ChunksDisjoint DEF i
<1>4. \A q \in Posts : q # p => WholeOf(q)'
    BY <1>1, <1>2, <1>3, WholeKept DEF WholeInv, SameRows
<1>5. WholeOf(p)'
  <2>1. ChunksOf(p) \intersect Committed = {}
      BY <1>1 DEF WholeInv, WholeOf
  <2>2. (ChunksOf(p) \intersect Committed = {})'
      BY <2>1, <1>2 DEF Committed, ChunksOf, Chunks
  <2> QED
      BY <1>1, <2>2 DEF WholeOf
<1> QED
    BY <1>2, <1>4, <1>5 DEF WholeInv

\* CommitWhole: the commit takes all chunks of its post, and no other rows.
LEMMA CommitWhole ==
    ASSUME WholeInv, NonceInv, NEW p \in Posts, Commit(p)
    PROVE  WholeInv'
<1>1. /\ Stored(p) = ChunksOf(p) /\ post'[p] = "stored" /\ UNCHANGED clock
      /\ \A q \in Posts : q # p => post'[q] = post[q]
      /\ rows' = [j \in DOMAIN rows |-> IF j \in Stored(p) THEN [rows[j] EXCEPT !.committed = TRUE]
                                        ELSE rows[j]]
    BY DEF Commit, Go, NonceInv, NonceType
<1>2. /\ DOMAIN rows' = DOMAIN rows /\ ChunksOf(p) \subseteq DOMAIN rows
      /\ \A j \in DOMAIN rows :
           rows'[j] = IF j \in ChunksOf(p) THEN [rows[j] EXCEPT !.committed = TRUE] ELSE rows[j]
    BY <1>1 DEF Stored
<1>3. \A j \in DOMAIN rows : rows[j] \in Row /\ rows'[j] \in Row
    BY <1>2 DEF WholeInv, RowsOK, Row
<1>4. \A j \in ChunksOf(p) : rows'[j].committed
    BY <1>2, <1>3 DEF Row
<1>5. RowsOK'
  <2>1. rows' \in [DOMAIN rows' -> Row]
      BY <1>1, <1>2, <1>3
  <2> QED
      BY <1>1, <2>1 DEF WholeInv, RowsOK
<1>6. \A q \in Posts : q # p => WholeOf(q)'
  <2> SUFFICES ASSUME NEW q \in Posts, q # p PROVE WholeOf(q)'
      OBVIOUS
  <2>1. \A j \in ChunksOf(q) : j \in DOMAIN rows => rows'[j] = rows[j]
      BY <1>2, ChunksDisjoint
  <2> QED
      BY <1>1, <1>2, <2>1, WholeKept DEF WholeInv, SameRows
<1>7. WholeOf(p)'
  <2>1. ChunksOf(p)' = ChunksOf(p)
      BY DEF ChunksOf, Chunks
  <2>2. ChunksOf(p) \subseteq Committed'
      BY <1>2, <1>4 DEF Committed
  <2> QED
      BY <1>1, <2>1, <2>2 DEF WholeOf
<1> QED
    BY <1>5, <1>6, <1>7 DEF WholeInv

\* RollbackWhole: a rollback removes all chunks of its post, and no other rows.
LEMMA RollbackWhole ==
    ASSUME WholeInv, NonceInv, NEW p \in Posts, Rollback(p)
    PROVE  WholeInv'
<1>1. /\ post'[p] = "refused" /\ UNCHANGED clock
      /\ \A q \in Posts : q # p => post'[q] = post[q]
      /\ rows' = [j \in DOMAIN rows \ Stored(p) |-> rows[j]]
    BY DEF Rollback, Without, NonceInv, NonceType
<1>2. /\ DOMAIN rows' = DOMAIN rows \ ChunksOf(p)
      /\ \A j \in DOMAIN rows' : rows'[j] = rows[j]
    BY <1>1 DEF Stored
<1>3. RowsOK'
  <2>1. rows' \in [DOMAIN rows' -> Row]
      BY <1>1, <1>2 DEF WholeInv, RowsOK
  <2> QED
      BY <1>1, <2>1 DEF WholeInv, RowsOK
<1>4. \A q \in Posts : q # p => WholeOf(q)'
  <2> SUFFICES ASSUME NEW q \in Posts, q # p PROVE WholeOf(q)'
      OBVIOUS
  <2>1. \A j \in ChunksOf(q) : j \notin ChunksOf(p)
      BY ChunksDisjoint
  <2> QED
      BY <1>1, <1>2, <2>1, WholeKept DEF WholeInv, SameRows
<1>5. WholeOf(p)'
  <2>1. (ChunksOf(p) \intersect DOMAIN rows = {})'
      BY <1>2 DEF ChunksOf, Chunks
  <2> QED
      BY <1>1, <2>1 DEF WholeOf
<1> QED
    BY <1>3, <1>4, <1>5 DEF WholeInv

\* WholeInit: before the first request there is no row.
LEMMA WholeInit == ASSUME InitAdmission PROVE WholeInv
<1>1. rows = << >> /\ clock = 0 /\ post = [p \in Posts |-> "new"]
    BY DEF InitAdmission, Init
<1> QED
    BY <1>1 DEF WholeInv, WholeOf, RowsOK

\* RowsKept: what changes no row, or marks rows, commits none and loses none.
LEMMA RowsKept ==
    ASSUME WholeInv, UNCHANGED post,
           \/ UNCHANGED rows /\ clock' \in Nat
           \/ MarkIncluded \/ SetFinalizedBlockNumber \/ PersistAnchor \/ ConsistencyCheck
           \/ MarkCancelled
    PROVE  WholeInv'
<1>1. RowsOK' /\ \A q \in Posts : SameRows(q)
  <2>1. CASE UNCHANGED rows /\ clock' \in Nat
      BY <2>1 DEF WholeInv, RowsOK, SameRows
  <2>2. CASE MarkIncluded \/ SetFinalizedBlockNumber \/ PersistAnchor \/ ConsistencyCheck
      BY <2>2, UpdateKeeps
         DEF MarkIncluded, SetFinalizedBlockNumber, PersistAnchor, ConsistencyCheck, MarkFinalized,
             WholeInv, SameRows
  <2>3. CASE MarkCancelled
    <3>1. PICK i : /\ rows' = [rows EXCEPT ![i].cancelled = TRUE, ![i].at = clock]
                   /\ UNCHANGED clock
        BY <2>3 DEF MarkCancelled
    <3>2. /\ RowsOK' /\ DOMAIN rows' = DOMAIN rows
          /\ \A j \in DOMAIN rows : j # i => rows'[j] = rows[j]
        BY <3>1, FlagKeeps DEF WholeInv
    <3>3. i \in DOMAIN rows => rows'[i].committed = rows[i].committed
      <4>1. i \in DOMAIN rows => rows[i] \in Row
          BY DEF WholeInv, RowsOK
      <4> QED
          BY <3>1, <4>1 DEF Row
    <3> QED
        BY <3>2, <3>3 DEF SameRows
  <2> QED
      BY <2>1, <2>2, <2>3
<1> QED
    BY <1>1, WholeKept DEF WholeInv

\* RestartWhole: a restart removes the rows of the posts that were being stored.
LEMMA RestartWhole ==
    ASSUME WholeInv, NonceInv, RestartAll
    PROVE  WholeInv'
<1>1. /\ RowsOK' /\ DOMAIN rows' = Committed
      /\ \A i \in Committed : rows'[i] = rows[i]
    BY RestartRows DEF RestartAll, WholeInv
<1>2. Committed' = Committed
    BY <1>1 DEF Committed
<1>3. ASSUME NEW p \in Posts PROVE WholeOf(p)'
  <2>1. post'[p] = IF post[p] \in {"new", "stored"} THEN post[p] ELSE "refused"
      BY DEF RestartAll
  <2>2. UNCHANGED ChunksOf(p)
      BY DEF ChunksOf, Chunks
  <2>3. post[p] # "stored" => ChunksOf(p) \intersect Committed = {}
      BY DEF WholeInv, WholeOf, Committed
  <2> QED
      BY <1>1, <1>2, <2>1, <2>2, <2>3 DEF WholeInv, WholeOf
<1> QED
    BY <1>1, <1>3 DEF WholeInv

\* WholeStep: every step keeps WholeInv.
LEMMA WholeStep == ASSUME WholeInv, NonceInv, [NextAdmission]_allVars PROVE WholeInv'
<1>c. clock \in Nat
    BY DEF WholeInv, RowsOK
<1>1. CASE UNCHANGED <<rows, clock, post>>
    BY <1>c, <1>1, RowsKept
<1>2. ASSUME NEW p \in Posts, PostData(p) PROVE WholeInv'
  <2>1. CASE \/ CheckLen(p) \/ SyncForPost(p) \/ CheckBalance(p) \/ Refuse(p) \/ GapDeadlock(p)
             \/ SelectNonce(p) \/ UpsertUserNonce(p)
    <3>1. PICK to \in Steps : post' = [post EXCEPT ![p] = to] /\ to # "stored"
      <4>1. CASE CheckLen(p) \/ SyncForPost(p) \/ CheckBalance(p) \/ Refuse(p) \/ GapDeadlock(p)
          BY <4>1 DEF CheckLen, SyncForPost, CheckBalance, Refuse, GapDeadlock, Go, Steps
      <4>2. CASE SelectNonce(p) \/ UpsertUserNonce(p)
          BY <4>2 DEF SelectNonce, UpsertUserNonce, Go, Steps
      <4> QED
          BY <2>1, <4>1, <4>2
    <3>2. post[p] \in {"new", "sync", "balance", "begin", "gap", "locked"}
        BY <2>1 DEF CheckLen, SyncForPost, CheckBalance, Refuse, GapDeadlock, SelectNonce,
                    UpsertUserNonce, Go
    <3>3. UNCHANGED <<rows, clock>>
      <4>1. CASE SyncForPost(p)
          BY <4>1, OtherRows DEF SyncForPost
      <4>2. CASE ~SyncForPost(p)
          BY <2>1, <4>2 DEF CheckLen, CheckBalance, Refuse, GapDeadlock, SelectNonce,
                            UpsertUserNonce, vars, dbVars
      <4> QED
          BY <4>1, <4>2
    <3> QED
        BY <3>1, <3>2, <3>3, NoRowsKeeps
  <2> QED
      BY <1>2, <2>1, StoreChunkWhole, CommitWhole, RollbackWhole DEF PostData
<1>3. CASE (\E t \in Txs, p \in Prices : MineAt(t, p)) \/ (\E k \in 0 .. MaxSent : ReorgAt(k))
             \/ LoseExcluded
    BY <1>1, <1>3, OtherRows DEF MineAt, ReorgAt, LoseExcluded
<1>4. CASE Elsewhere
  <2>1. UNCHANGED post
      BY <1>4 DEF Elsewhere, postVars
  <2>2. CASE MarkIncluded \/ SetFinalizedBlockNumber \/ PersistAnchor \/ ConsistencyCheck
               \/ MarkCancelled
      BY <2>1, <2>2, RowsKept
  <2>3. CASE Tick
    <3>1. UNCHANGED rows /\ clock' \in Nat
        BY <1>c, <2>3 DEF Tick
    <3> QED
        BY <2>1, <3>1, RowsKept
  <2>4. CASE ~(MarkIncluded \/ SetFinalizedBlockNumber \/ PersistAnchor \/ ConsistencyCheck
                 \/ MarkCancelled \/ Tick)
    <3>1. UNCHANGED <<rows, clock>>
        BY <1>4, <2>4, OtherRows DEF Elsewhere, Subscriber, Dropping
    <3> QED
        BY <1>1, <2>1, <3>1
  <2> QED
      BY <2>2, <2>3, <2>4
<1>5. CASE UNCHANGED allVars
    BY <1>1, <1>5 DEF allVars, vars, dbVars, postVars
<1> QED
    BY <1>2, <1>3, <1>4, <1>5, RestartWhole DEF NextAdmission

\* WholeInvHolds: WholeInv is an invariant.
THEOREM WholeInvHolds == SpecAdmission => []WholeInv
    BY WholeInit, WholeStep, NonceInvHolds, PTL DEF SpecAdmission

\* StoredWholeHolds: for any requests, of any numbers of chunks, other tasks see all the
\* chunks of a post and its user's nonce, or nothing of it, whatever fails.
THEOREM StoredWholeHolds == SpecAdmission => []StoredWhole
<1>1. WholeInv /\ NonceInv => StoredWhole
  <2> SUFFICES ASSUME WholeInv, NonceInv, NEW p \in Posts, ChunksOf(p) \intersect Committed # {}
               PROVE  /\ ChunksOf(p) \subseteq Committed
                      /\ post[p] = "stored" /\ Owner[p] \in DOMAIN nonces
      BY DEF StoredWhole
  <2>1. post[p] = "stored"
      BY DEF WholeInv, WholeOf, Committed
  <2> QED
      BY <2>1 DEF WholeInv, WholeOf, NonceInv, StoredBelow
<1> QED
    BY <1>1, WholeInvHolds, NonceInvHolds, PTL

-----------------------------------------------------------------------------
(* What a new post is checked with *)

\* Quotient: what the integer division by a positive number gives.
LEMMA Quotient ==
    ASSUME NEW a \in Nat, NEW c \in Nat \ {0}
    PROVE  a \div c \in Nat /\ c * (a \div c) <= a /\ a < c * (a \div c) + c
    OBVIOUS

\* ChunksEnough: the chunks but the last are full, and the last has what is left.
LEMMA ChunksEnough ==
    ASSUME NEW p \in Posts
    PROVE  /\ Chunks(p) \in Nat \ {0}
           /\ ChunkLen * (Chunks(p) - 1) <= PostLen[p]
<1>1. PostLen[p] \in Nat /\ ChunkLen \in Nat \ {0}
    BY AdmissionAssumption
<1>2. CASE PostLen[p] <= ChunkLen
  <2>1. Chunks(p) = 1
      BY <1>2 DEF Chunks
  <2>2. ChunkLen * (1 - 1) = 0
      BY <1>1
  <2> QED
      BY <1>1, <2>1, <2>2
<1>3. CASE PostLen[p] > ChunkLen
  <2> DEFINE a == PostLen[p] + ChunkLen - 1
             q == a \div ChunkLen
  <2>1. a \in Nat /\ a >= ChunkLen
      BY <1>1, <1>3
  <2>2. Chunks(p) = q
      BY <1>1, <1>3 DEF Chunks
  <2> HIDE DEF a
  <2>3. q \in Nat /\ ChunkLen * q <= a /\ a < ChunkLen * q + ChunkLen
      BY <1>1, <2>1, Quotient
  <2> HIDE DEF q
  <2>4. q # 0
    <3>1. ChunkLen * 0 = 0
        BY <1>1
    <3> QED
        BY <1>1, <2>1, <2>3, <3>1
  <2>5. ChunkLen * (q - 1) = ChunkLen * q - ChunkLen
      BY <1>1, <2>3
  <2>6. ChunkLen * q \in Int
      BY <1>1, <2>3
  <2>7. a = PostLen[p] + ChunkLen - 1
      BY DEF a
  <2>8. ChunkLen * (q - 1) <= PostLen[p]
    <3> DEFINE m == ChunkLen * q
    <3>1. m \in Int /\ m <= a /\ ChunkLen * (q - 1) = m - ChunkLen
        BY <2>3, <2>5, <2>6
    <3> HIDE DEF m
    <3> QED
        BY <1>1, <2>7, <3>1
  <2> QED
      BY <2>2, <2>3, <2>4, <2>8
<1> QED
    BY <1>1, <1>2, <1>3

\* LenOfNat: no intent has a negative length.
LEMMA LenOfNat == ASSUME NEW i \in Intents PROVE LenOf(i) \in Nat
<1>1. PICK p \in Posts : i \in ChunksOf(p)
    BY AdmissionAssumption
<1>2. i[1] = p /\ i[2] \in 1 .. Chunks(p)
    BY <1>1 DEF ChunksOf
<1>3. PostLen[p] \in Nat /\ ChunkLen \in Nat \ {0}
    BY AdmissionAssumption
<1>4. Chunks(p) \in Nat \ {0} /\ ChunkLen * (Chunks(p) - 1) <= PostLen[p]
    BY ChunksEnough
<1>5. CASE i[2] < Chunks(p)
    BY <1>2, <1>3, <1>5 DEF LenOf
<1>6. CASE ~(i[2] < Chunks(p))
  <2>1. i[2] = Chunks(p)
      BY <1>2, <1>4, <1>6
  <2>2. LenOf(i) = PostLen[p] - ChunkLen * (Chunks(p) - 1)
      BY <1>2, <1>6, <2>1, Zenon DEF LenOf
  <2>3. ChunkLen * (Chunks(p) - 1) \in Int
      BY <1>3, <1>4
  <2> DEFINE m == ChunkLen * (Chunks(p) - 1)
  <2>4. m \in Int /\ m <= PostLen[p] /\ LenOf(i) = PostLen[p] - m
      BY <1>4, <2>2, <2>3
  <2> HIDE DEF m
  <2> QED
      BY <1>3, <2>4
<1> QED
    BY <1>5, <1>6

\* NextChunk: a post that is not stored has a chunk for the number that is stored next.
LEMMA NextChunk ==
    ASSUME NEW p \in Posts, Stored(p) # ChunksOf(p)
    PROVE  <<p, Cardinality(Stored(p)) + 1>> \in Intents
<1>1. Chunks(p) \in Nat \ {0}
    BY ChunksEnough
<1> DEFINE n == Chunks(p)
           full == 1 .. n
<1>2. n \in Nat /\ n >= 1
    BY <1>1
<1>3. ChunksOf(p) = {p} \X full
    BY DEF ChunksOf
<1> HIDE DEF n
<1>4. IsFiniteSet(full) /\ Cardinality(full) = n
    BY <1>2, FS_Interval
<1> HIDE DEF full
<1>5. IsFiniteSet({p}) /\ Cardinality({p}) = 1
    BY FS_Singleton
<1>6. IsFiniteSet({p} \X full) /\ Cardinality({p} \X full) = 1 * n
    BY <1>4, <1>5, FS_Product
<1>7. IsFiniteSet(ChunksOf(p)) /\ Cardinality(ChunksOf(p)) = n
    BY <1>2, <1>3, <1>6
<1>8. Stored(p) \in SUBSET ChunksOf(p)
    BY DEF Stored
<1>9. /\ Cardinality(Stored(p)) <= n /\ Cardinality(Stored(p)) # n
      /\ Cardinality(Stored(p)) \in Nat
    BY <1>7, <1>8, FS_Subset, FS_CardinalityType
<1>10. Cardinality(Stored(p)) + 1 \in full
    BY <1>2, <1>9 DEF full
<1>11. <<p, Cardinality(Stored(p)) + 1>> \in ChunksOf(p)
    BY <1>3, <1>10
<1> QED
    BY <1>11, AdmissionAssumption

\* Len of each intent
Lens == [i \in Intents |-> LenOf(i)]

\* TotalLenIs: what is summed up by TotalLen
LEMMA TotalLenIs ==
    ASSUME NEW c \in SUBSET Intents, IsFiniteSet(c)
    PROVE  TotalLen(c) = Total(Lens, c)
<1> DEFINE iter == CHOOSE h : h = [s \in SUBSET c |->
                     IF s = {} THEN 0
                     ELSE LenOf(CHOOSE x \in s : TRUE) + h[s \ {CHOOSE x \in s : TRUE}]]
<1>1. TotalLen(c) = iter[c]
    BY DEF TotalLen, MapThenSumSet, MapThenFoldSet
<1>2. PICK sum : Sums(sum, Lens, c)
    BY SumsExist
<1>3. ASSUME NEW s \in SUBSET c, s # {} PROVE Lens[Chosen(s)] = LenOf(Chosen(s))
    BY <1>3, AnyIn DEF Lens
<1>4. sum = [s \in SUBSET c |-> IF s = {} THEN 0 ELSE LenOf(Chosen(s)) + sum[s \ {Chosen(s)}]]
    BY <1>2, <1>3 DEF Sums
<1>5. iter = [s \in SUBSET c |-> IF s = {} THEN 0 ELSE LenOf(Chosen(s)) + iter[s \ {Chosen(s)}]]
    BY <1>4 DEF Chosen
<1> HIDE DEF iter
<1>6. Sums(iter, Lens, c)
    BY <1>3, <1>5 DEF Sums
<1> QED
    BY <1>1, <1>6, TotalIs

\* PendingTxsLenIs: what is summed up by pending_txs_data_len
LEMMA PendingTxsLenIs ==
    ASSUME NEW u, IsFiniteSet(DOMAIN pendingTxs)
    PROVE  PendingTxsLen(u) = Total([n \in DOMAIN pendingTxs |-> TotalLen(Of(u, sent[pendingTxs[n]].ids))],
                                    DOMAIN pendingTxs)
<1> DEFINE N == DOMAIN pendingTxs
           L(n) == TotalLen(Of(u, sent[pendingTxs[n]].ids))
           lens == [n \in N |-> L(n)]
           iter == CHOOSE h : h = [s \in SUBSET N |->
                     IF s = {} THEN 0
                     ELSE L(CHOOSE x \in s : TRUE) + h[s \ {CHOOSE x \in s : TRUE}]]
<1>1. PendingTxsLen(u) = iter[N]
    BY DEF PendingTxsLen, MapThenSumSet, MapThenFoldSet
<1>2. PICK sum : Sums(sum, lens, N)
    BY SumsExist
<1> HIDE DEF L
<1>3. ASSUME NEW s \in SUBSET N, s # {} PROVE lens[Chosen(s)] = L(Chosen(s))
    BY <1>3, AnyIn
<1>4. sum = [s \in SUBSET N |-> IF s = {} THEN 0 ELSE L(Chosen(s)) + sum[s \ {Chosen(s)}]]
    BY <1>2, <1>3 DEF Sums
<1>5. iter = [s \in SUBSET N |-> IF s = {} THEN 0 ELSE L(Chosen(s)) + iter[s \ {Chosen(s)}]]
    BY <1>4 DEF Chosen
<1> HIDE DEF iter
<1>6. Sums(iter, lens, N)
    BY <1>3, <1>5 DEF Sums
<1>7. PendingTxsLen(u) = Total(lens, N)
    BY <1>1, <1>6, TotalIs
<1> QED
    BY <1>7 DEF L

\* A set of intents whose lengths can be summed up
Bundle(ids) == ids \subseteq Intents /\ IsFiniteSet(ids)

BundlesOK ==
    /\ Bundle(DOMAIN rows) /\ Bundle(pendingIntents)
    /\ job # <<>> => Bundle(job[1].ids)
    /\ \A t \in Txs : Bundle(sent[t].ids) /\ sent[t].nonce \in Nat
    /\ IsFiniteSet(DOMAIN pendingTxs) /\ DOMAIN pendingTxs \subseteq Nat

\* Where a transaction is that an intent counts among its uses: in a block, on its way
\* to being registered, replaced or on its way out, pending, or out of BlockSync's sight.
Registering(t) == job # <<>> /\ job[1].step = "recorded" /\ job[1].tx = t

Placed(t) ==
    \/ t \in Mined
    \/ Registering(t)
    \/ t \in repriced
    \/ fin # <<>> /\ t \in fin[1].excluded
    \/ t \in Range(pendingTxs)
    \/ t \in forgotten

UsesPlaced ==
    \A i \in DOMAIN cacheInclusions : Uses(i) # <<>> /\ \A t \in Range(Uses(i)) : Placed(t)

FinShape == fin # <<>> => 1 \in DOMAIN fin

\* A self-transfer in a block has one transaction with it at most.
HeldOK ==
    \A n \in DOMAIN onChain :
      /\ onChain[n].held # {} => Transfer(onChain[n].tx)
      /\ \A t, v \in onChain[n].held : t = v

LimitInv == BundlesOK /\ UsesPlaced /\ FinShape /\ NoncesAgree /\ HeldOK

\* Covered: an intent of the pool that should count has no use, or a use that is pending.
LEMMA Covered ==
    ASSUME FinalInv, IndexInv, LimitInv, NEW i \in pendingIntents \ Uncounted
    PROVE  \/ i \notin DOMAIN cacheInclusions
           \/ \E n \in DOMAIN pendingTxs : i \in sent[pendingTxs[n]].ids
<1> SUFFICES ASSUME i \in DOMAIN cacheInclusions
             PROVE  \E n \in DOMAIN pendingTxs : i \in sent[pendingTxs[n]].ids
    OBVIOUS
<1>1. Uses(i) # <<>> /\ \A t \in Range(Uses(i)) : Placed(t)
    BY DEF LimitInv, UsesPlaced
<1>2. PICK t \in Range(Uses(i)) :
        /\ t \notin Mined /\ ~Registering(t) /\ t \notin forgotten
        /\ t \notin repriced \union UNION {f.excluded : f \in Range(fin)}
    BY <1>1, Zenon DEF Uncounted, Registering
<1>3. ~(fin # <<>> /\ t \in fin[1].excluded)
  <2>1. fin # <<>> => fin[1] \in Range(fin)
      BY DEF LimitInv, FinShape, Range
  <2> QED
      BY <1>2, <2>1
<1>4. t \in Range(pendingTxs)
    BY <1>1, <1>2, <1>3 DEF Placed
<1>5. i \in sent[t].ids
    BY DEF IndexInv, IndexesOK, FinalInv, InclusionsOK
<1> QED
    BY <1>4, <1>5 DEF Range

\* LimitSees: the length that a new post is checked with counts each pending intent of
\* its user: one that no transaction has in full, one in a pending transaction through
\* its participation.
LEMMA LimitSees ==
    ASSUME FinalInv, IndexInv, LimitInv PROVE LimitSeesPool
<1> SUFFICES ASSUME NEW u \in Users
             PROVE  PendingTotalDataLen(u) >= TotalLen(Of(u, pendingIntents \ Uncounted))
    BY DEF LimitSeesPool
<1> DEFINE A == NonIncluded(u)
           N == DOMAIN pendingTxs
           F == [n \in N |-> Of(u, sent[pendingTxs[n]].ids)]
           lens == [n \in N |-> TotalLen(Of(u, sent[pendingTxs[n]].ids))]
           S == Of(u, pendingIntents \ Uncounted)
<1>1. Bundle(pendingIntents) /\ IsFiniteSet(N)
    BY DEF LimitInv, BundlesOK
<1>2. A \in SUBSET pendingIntents /\ S \in SUBSET pendingIntents
    BY DEF NonIncluded, Of
<1>3. A \in SUBSET Intents /\ IsFiniteSet(A) /\ S \in SUBSET Intents /\ IsFiniteSet(S)
    BY <1>1, <1>2, FS_Subset DEF Bundle
<1>4. ASSUME NEW n \in N PROVE F[n] \in SUBSET Intents /\ IsFiniteSet(F[n])
  <2>1. pendingTxs[n] \in Txs
      BY DEF IndexInv, KnownTxs
  <2>2. Bundle(sent[pendingTxs[n]].ids)
      BY <2>1 DEF LimitInv, BundlesOK
  <2>3. F[n] \in SUBSET sent[pendingTxs[n]].ids
      BY DEF Of
  <2> HIDE DEF F
  <2> QED
      BY <2>2, <2>3, FS_Subset DEF Bundle
<1>5. S \subseteq A \union UNION {F[n] : n \in N}
  <2> SUFFICES ASSUME NEW i \in S PROVE i \in A \union UNION {F[n] : n \in N}
      OBVIOUS
  <2>1. i \in pendingIntents \ Uncounted /\ OwnerOf(i) = u
      BY DEF Of
  <2>2. CASE i \notin DOMAIN cacheInclusions
      BY <2>1, <2>2 DEF NonIncluded, Of
  <2>3. CASE \E n \in N : i \in sent[pendingTxs[n]].ids
    <3>1. PICK n \in N : i \in sent[pendingTxs[n]].ids
        BY <2>3
    <3>2. i \in F[n]
        BY <2>1, <3>1 DEF Of
    <3> QED
        BY <3>2
  <2> QED
      BY <2>1, <2>2, <2>3, Covered
<1>6. TotalLen(A) = Total(Lens, A) /\ TotalLen(S) = Total(Lens, S)
    BY <1>3, TotalLenIs
<1>7. \A n \in N : lens[n] = Total(Lens, F[n])
  <2> SUFFICES ASSUME NEW n \in N PROVE lens[n] = Total(Lens, F[n])
      OBVIOUS
  <2>1. F[n] = Of(u, sent[pendingTxs[n]].ids) /\ lens[n] = TotalLen(Of(u, sent[pendingTxs[n]].ids))
      OBVIOUS
  <2>2. lens[n] = TotalLen(F[n])
      BY <2>1, Zenon
  <2> HIDE DEF F, lens
  <2>3. TotalLen(F[n]) = Total(Lens, F[n])
      BY <1>4, TotalLenIs
  <2> QED
      BY <2>2, <2>3
<1>8. PendingTxsLen(u) = Total(lens, N)
    BY <1>1, PendingTxsLenIs
<1>9. \A i \in Intents : Lens[i] \in Nat
    BY LenOfNat DEF Lens
<1>10. PendingTotalDataLen(u) = TotalLen(A) + PendingTxsLen(u)
    BY DEF PendingTotalDataLen
<1> HIDE DEF A, N, F, lens, S
<1>11. /\ \A x \in A : Lens[x] \in Nat
       /\ \A n \in N : IsFiniteSet(F[n]) /\ \A x \in F[n] : Lens[x] \in Nat
    BY <1>3, <1>4, <1>9
<1>12. Total(Lens, S) <= Total(Lens, A) + Total(lens, N)
    BY ONLY <1>1, <1>3, <1>5, <1>7, <1>11, TotalCover
<1>13. Total(Lens, S) \in Nat /\ Total(Lens, A) \in Nat
    BY <1>3, <1>9, TotalNat
<1>14. Total(lens, N) \in Int
  <2>1. \A n \in N : lens[n] \in Int
      BY <1>4, <1>7, <1>11, TotalNat
  <2> QED
      BY <1>1, <2>1, TotalType
<1>15. Total(Lens, A) + Total(lens, N) >= Total(Lens, S)
    BY ONLY <1>12, <1>13, <1>14
<1>16. PendingTotalDataLen(u) = Total(Lens, A) + Total(lens, N)
    BY <1>6, <1>8, <1>10, Zenon
<1>17. TotalLen(S) = Total(Lens, S)
    BY <1>6
<1> QED
  <2>1. PendingTotalDataLen(u) >= TotalLen(S)
      BY ONLY <1>15, <1>16, <1>17
  <2> QED
      BY <2>1 DEF S

-----------------------------------------------------------------------------
(* The steps, under the pool's own invariants *)

\* StepOfPool: but for the end of a database transaction, what the requests do and what
\* goes on beside them are steps of the pool.
LEMMA StepOfPool ==
    ASSUME [NextAdmission]_allVars
    PROVE  [Next]_vars \/ \E p \in Posts : Commit(p) \/ Rollback(p)
<1>1. ASSUME NEW p \in Posts, PostData(p), ~(Commit(p) \/ Rollback(p)) PROVE [Next]_vars
  <2>1. CASE StoreChunk(p)
      BY <2>1, NextChunk DEF StoreChunk, Next, Api
  <2>2. CASE SyncForPost(p)
      BY <2>2 DEF SyncForPost, Next, Api
  <2>3. CASE ~StoreChunk(p) /\ ~SyncForPost(p)
      BY <1>1, <2>3 DEF PostData, CheckLen, CheckBalance, Refuse, SelectNonce, UpsertUserNonce,
                        GapDeadlock
  <2> QED
      BY <2>1, <2>2, <2>3
<1>2. CASE (\E t \in Txs, p \in Prices : MineAt(t, p)) \/ (\E k \in 0 .. MaxSent : ReorgAt(k))
    BY <1>2 DEF MineAt, ReorgAt, Next, Environment
<1>3. CASE LoseExcluded \/ RestartAll
    BY <1>3 DEF LoseExcluded, RestartAll, Next, Faults
<1>4. CASE Elsewhere
    BY <1>4 DEF Elsewhere, Next, Api, Environment, Faults
<1>5. CASE UNCHANGED allVars
    BY <1>5 DEF allVars
<1> QED
    BY <1>1, <1>2, <1>3, <1>4, <1>5 DEF NextAdmission

\* PoolStep: what IntentPool has as invariants, the requests keep too.
LEMMA PoolStep ==
    ASSUME NonceInv, WholeInv, FinalInv, IndexInv, [NextAdmission]_allVars
    PROVE  FinalInv' /\ IndexInv'
<1>1. CASE [Next]_vars
    BY <1>1, FinalStep, IndexStep
<1>2. ASSUME NEW p \in Posts, Commit(p) \/ Rollback(p) PROVE FinalInv' /\ IndexInv'
  <2>1. WholeInv'
      BY <1>2, CommitWhole, RollbackWhole
  <2>2. UNCHANGED <<inclusions, savedCount, clock, trackerVars, syncVars, chainVars, job, fin>>
      BY <1>2 DEF Commit, Rollback
  <2>3. \A i \in DOMAIN rows' : i \in DOMAIN rows /\ rows'[i].finalized = rows[i].finalized
    <3>1. CASE Commit(p)
      <4>1. rows' = [i \in DOMAIN rows |-> IF i \in Stored(p) THEN [rows[i] EXCEPT !.committed = TRUE]
                                           ELSE rows[i]]
          BY <3>1 DEF Commit
      <4>2. \A i \in DOMAIN rows : rows[i] \in Row
          BY DEF WholeInv, RowsOK
      <4>3. \A i \in DOMAIN rows : [rows[i] EXCEPT !.committed = TRUE].finalized = rows[i].finalized
          BY <4>2 DEF Row
      <4> QED
          BY <4>1, <4>3
    <3>2. CASE Rollback(p)
        BY <3>2 DEF Rollback, Without
    <3> QED
        BY <1>2, <3>1, <3>2
  <2>4. FinalizedIsFinal'
    <3>1. FinalizedIsFinal
        BY DEF FinalInv
    <3>2. UNCHANGED <<deepest, sent, onChain>>
        BY <2>2 DEF chainVars
    <3> QED
        BY <2>3, <3>1, <3>2 DEF FinalizedIsFinal
  <2>5. (SentOK /\ ChainOK /\ AnchorsOK /\ InclusionsOK /\ JobOK /\ FinOK)'
      BY <2>2 DEF FinalInv, SentOK, ChainOK, AnchorsOK, InclusionsOK, JobOK, FinOK, Anchored,
                  Published, Txs, trackerVars, syncVars, chainVars
  <2>6. IndexInv'
      BY <2>2 DEF IndexInv, IndexesOK, Uses, KnownTxs, SentIsNew, DroppedOK, Txs, trackerVars,
                  syncVars, chainVars
  <2> QED
      BY <2>1, <2>4, <2>5, <2>6 DEF FinalInv, WholeInv
<1> QED
    BY <1>1, <1>2, StepOfPool

\* HeldStep: a block holds what was pending at its transaction's nonce.
LEMMA HeldStep ==
    ASSUME FinalInv, IndexInv, NoncesAgree, HeldOK, [Next]_vars
    PROVE  HeldOK'
<1>1. \A t \in Txs : sent'[t] = sent[t]
    BY ChainStep DEF Grows
<1>2. \A n \in DOMAIN onChain : sent'[onChain[n].tx] = sent[onChain[n].tx]
    BY <1>1 DEF FinalInv, ChainOK
<1>3. CASE UNCHANGED onChain
    BY <1>2, <1>3 DEF HeldOK, Transfer
<1>4. CASE \E t \in Txs, p \in Prices : Mine(t, p)
  <2>1. PICK t \in Txs, p \in Prices : Mine(t, p)
      BY <1>4
  <2> DEFINE L == Len(onChain)
             held == IF Transfer(t)
                     THEN {pendingTxs[n] : n \in DOMAIN pendingTxs \intersect {sent[t].nonce}}
                     ELSE {}
  <2>2. onChain' = Append(onChain, [tx |-> t, held |-> held]) /\ UNCHANGED sent
      BY <2>1 DEF Mine
  <2>3. (held # {} => Transfer(t)) /\ \A u, v \in held : u = v
      BY DEF Transfer
  <2> HIDE DEF held
  <2>4. /\ DOMAIN onChain' = DOMAIN onChain \union {L + 1}
        /\ onChain'[L + 1] = [tx |-> t, held |-> held]
        /\ \A n \in DOMAIN onChain : onChain'[n] = onChain[n]
      BY <2>2, AppendSeq DEF FinalInv, ChainOK
  <2>5. onChain'[L + 1].tx = t /\ onChain'[L + 1].held = held
      BY <2>4
  <2> HIDE DEF L
  <2> SUFFICES ASSUME NEW n \in DOMAIN onChain'
               PROVE  /\ onChain'[n].held # {} => sent'[onChain'[n].tx].ids = {}
                      /\ \A u, v \in onChain'[n].held : u = v
      BY Zenon DEF HeldOK, Transfer
  <2>6. CASE n \in DOMAIN onChain
      BY <2>2, <2>4, <2>6 DEF HeldOK, Transfer
  <2>7. CASE n = L + 1
      BY <2>2, <2>3, <2>5, <2>7 DEF Transfer
  <2> QED
      BY <2>4, <2>6, <2>7
<1>5. CASE \E k \in 0 .. MaxSent : Reorg(k)
  <2>1. PICK k : Reorg(k)
      BY <1>5
  <2>2. /\ DOMAIN onChain' = 1 .. k /\ 1 .. k \subseteq DOMAIN onChain
        /\ \A n \in 1 .. k : onChain'[n] = onChain[n]
        /\ UNCHANGED sent
      BY <2>1, ReorgFacts
  <2> QED
      BY <2>2 DEF HeldOK, Transfer
<1>6. CASE Restart
  <2>1. onChain' = [n \in DOMAIN onChain |-> [onChain[n] EXCEPT !.held = {}]]
      BY <1>6 DEF Restart
  <2>2. ASSUME NEW n \in DOMAIN onChain PROVE onChain'[n].held = {}
    <3>1. onChain[n] = [tx |-> onChain[n].tx, held |-> onChain[n].held]
        BY DEF FinalInv, ChainOK
    <3>2. onChain'[n] = [onChain[n] EXCEPT !.held = {}]
        BY <2>1
    <3>3. onChain'[n] = [tx |-> onChain[n].tx, held |-> {}]
        BY <3>1, <3>2
    <3> QED
        BY ONLY <3>3
  <2> QED
      BY <2>1, <2>2 DEF HeldOK
<1>7. CASE SendBlobTx \/ SendSelfTransfer \/ RegisterSent \/ \E k \in 1 .. MaxSent : AdvanceAnchor(k)
    BY <1>3, <1>7 DEF SendBlobTx, SendSelfTransfer, RegisterSent, AdvanceAnchor, chainVars
<1> QED
    BY <1>3, <1>4, <1>5, <1>6, <1>7, OtherTxs DEF Next, Sender, Subscriber, Environment, Faults

\* ChainNonces: no step puts a transaction where another's nonce is.
LEMMA ChainNonces ==
    ASSUME FinalInv, IndexInv, LimitInv, [NextAdmission]_allVars
    PROVE  NoncesAgree' /\ HeldOK'
<1>1. CASE [Next]_vars
    BY <1>1, NoncesStep, HeldStep DEF LimitInv
<1>2. CASE \E p \in Posts : Commit(p) \/ Rollback(p)
  <2>1. UNCHANGED <<sent, onChain, pendingTxs>>
      BY <1>2 DEF Commit, Rollback, syncVars, chainVars
  <2> QED
      BY <2>1 DEF LimitInv, NoncesAgree, HeldOK, Transfer
<1> QED
    BY <1>1, <1>2, StepOfPool

\* UsedTxs: what an intent counts among its uses was sent, and has intents.
LEMMA UsedTxs ==
    ASSUME FinalInv, IndexInv, NEW i \in DOMAIN cacheInclusions, NEW t \in Range(Uses(i))
    PROVE  t \in Txs /\ t \in DOMAIN includedIntents /\ ~Transfer(t)
    BY DEF FinalInv, InclusionsOK, IndexInv, IndexesOK, Transfer

\* UsesStay: as long as no use is added and every transaction stays placed
LEMMA UsesStay ==
    ASSUME FinalInv, IndexInv, UsesPlaced,
           \A i \in DOMAIN cacheInclusions' :
             i \in DOMAIN cacheInclusions /\ Uses(i)' # <<>> /\ Range(Uses(i)') \subseteq Range(Uses(i)),
           \A t \in Txs \intersect DOMAIN includedIntents :
             ~Transfer(t) /\ Placed(t) => Placed(t)'
    PROVE  UsesPlaced'
<1> SUFFICES ASSUME NEW i \in DOMAIN cacheInclusions'
             PROVE  Uses(i)' # <<>> /\ \A t \in Range(Uses(i)') : Placed(t)'
    BY Zenon DEF UsesPlaced, Range
<1>1. \A t \in Range(Uses(i)) :
        Placed(t) /\ t \in Txs /\ t \in DOMAIN includedIntents /\ ~Transfer(t)
    BY UsedTxs DEF UsesPlaced
<1> QED
    BY <1>1

\* SameUses: with the cache as it is
LEMMA SameUses ==
    ASSUME UsesPlaced, UNCHANGED cacheInclusions
    PROVE  \A i \in DOMAIN cacheInclusions' :
             i \in DOMAIN cacheInclusions /\ Uses(i)' # <<>> /\ Range(Uses(i)') \subseteq Range(Uses(i))
<1>1. \A i : Uses(i)' = Uses(i)
    BY DEF Uses
<1> QED
    BY <1>1 DEF UsesPlaced

\* QuietPlaces: the steps that change none of what UsesPlaced speaks of
LEMMA QuietPlaces ==
    ASSUME FinalInv, IndexInv, LimitInv,
           UNCHANGED <<cacheInclusions, onChain, repriced, fin, pendingTxs, forgotten>>,
           \A t : Registering(t) => Registering(t)'
    PROVE  UsesPlaced'
<1>1. Mined' = Mined /\ Range(pendingTxs)' = Range(pendingTxs)
    BY DEF Mined, Range
<1>2. \A t : Placed(t) => Placed(t)'
    BY <1>1 DEF Placed
<1> QED
    BY <1>2, SameUses, UsesStay DEF LimitInv

\* The steps of the sender
LEMMA SenderPlaces ==
    ASSUME FinalInv, IndexInv, LimitInv, Sender, UNCHANGED forgotten
    PROVE  UsesPlaced'
<1>0. UsesPlaced
    BY DEF LimitInv
<1>1. CASE Pack \/ GiveUp \/ SendBlobTx \/ SendSelfTransfer
  <2>1. UNCHANGED <<cacheInclusions, onChain, repriced, fin, pendingTxs>>
      BY <1>1 DEF Pack, GiveUp, SendBlobTx, SendSelfTransfer, trackerVars, syncVars, chainVars
  <2>2. \A t : ~Registering(t)
      BY <1>1 DEF Pack, GiveUp, SendBlobTx, SendSelfTransfer, Registering
  <2> QED
      BY <2>1, <2>2, QuietPlaces
<1>2. CASE RecordInclusions
  <2>0. PICK t, ids : t = job[1].tx /\ ids = job[1].ids
      OBVIOUS
  <2>1. /\ job # <<>> /\ job[1].step = "sent"
        /\ cacheInclusions' = [k \in DOMAIN cacheInclusions \union ids |->
                                 IF k \in ids THEN Append(Uses(k), t) ELSE cacheInclusions[k]]
        /\ UNCHANGED <<onChain, repriced, fin, pendingTxs, sent>>
      BY <1>2, <2>0 DEF RecordInclusions, With, syncVars, chainVars
  <2>2. job' # <<>> /\ job'[1].step = "recorded" /\ job'[1].tx = t
    <3>1. job[1] = [step |-> job[1].step, ids |-> job[1].ids, price |-> job[1].price,
                    tx |-> job[1].tx]
        BY <2>1 DEF FinalInv, JobOK
    <3>2. job' = <<[job[1] EXCEPT !.step = "recorded"]>>
        BY <1>2 DEF RecordInclusions
    <3>3. job'[1] = [step |-> "recorded", ids |-> job[1].ids, price |-> job[1].price,
                     tx |-> job[1].tx]
        BY <3>1, <3>2
    <3> QED
        BY <2>0, <3>2, <3>3
  <2>3. t \in Nat
      BY <2>0, <2>1, SentNumbers DEF FinalInv, JobOK
  <2>4. Placed(t)'
      BY <2>2 DEF Placed, Registering
  <2>5. \A v : Placed(v) => Placed(v)'
    <3>1. Mined' = Mined /\ Range(pendingTxs)' = Range(pendingTxs)
        BY <2>1 DEF Mined, Range
    <3>2. \A v : ~Registering(v)
        BY <2>1 DEF Registering
    <3> QED
        BY <2>1, <3>1, <3>2 DEF Placed
  <2> SUFFICES ASSUME NEW i \in DOMAIN cacheInclusions'
               PROVE  Uses(i)' # <<>> /\ \A v \in Range(Uses(i)') : Placed(v)'
      BY Zenon DEF UsesPlaced, Range
  <2>6. Uses(i)' = cacheInclusions'[i]
      BY DEF Uses
  <2>7. Uses(i) \in Seq(Nat) /\ \A v \in Range(Uses(i)) : Placed(v)
    <3>1. Range(<<>>) = {}
        BY DEF Range
    <3>2. i \notin DOMAIN cacheInclusions => Uses(i) = <<>>
        BY DEF Uses
    <3>3. Uses(i) \in Seq(Nat)
        BY UsesOf DEF IndexInv
    <3> QED
        BY <1>0, <3>1, <3>2, <3>3 DEF UsesPlaced
  <2>8. CASE i \in ids
    <3>1. Uses(i)' = Append(Uses(i), t)
        BY <2>1, <2>6, <2>8
    <3>2. Append(Uses(i), t) # <<>> /\ Range(Append(Uses(i), t)) = Range(Uses(i)) \union {t}
        BY <2>3, <2>7, Pushed
    <3> QED
        BY <2>4, <2>5, <2>7, <3>1, <3>2
  <2>9. CASE i \notin ids
    <3>1. i \in DOMAIN cacheInclusions /\ Uses(i)' = Uses(i)
        BY <2>1, <2>6, <2>9 DEF Uses
    <3> QED
        BY <1>0, <2>5, <2>7, <3>1 DEF UsesPlaced
  <2> QED
      BY <2>8, <2>9
<1>3. CASE RegisterSent
  <2> DEFINE t == job[1].tx
             n == sent[t].nonce
  <2>1. /\ repriced' = repriced \union {pendingTxs[m] : m \in DOMAIN pendingTxs \intersect {n}}
        /\ pendingTxs' = [m \in DOMAIN pendingTxs \union {n} |-> IF m \in {n} THEN t ELSE pendingTxs[m]]
        /\ UNCHANGED <<onChain, fin, sent, cacheInclusions>>
      BY <1>3 DEF RegisterSent, With, trackerVars, chainVars
  <2>2. Mined' = Mined
      BY <2>1 DEF Mined
  <2>3. t \in Range(pendingTxs')
    <3>1. n \in DOMAIN pendingTxs' /\ pendingTxs'[n] = t
        BY <2>1
    <3> HIDE DEF n, t
    <3> QED
        BY <3>1 DEF Range
  <2>4. ASSUME NEW v \in Range(pendingTxs) PROVE v \in repriced' \union Range(pendingTxs')
    <3> HIDE DEF n, t
    <3>1. PICK m \in DOMAIN pendingTxs : pendingTxs[m] = v
        BY DEF Range
    <3>2. CASE m = n
        BY <2>1, <3>1, <3>2
    <3>3. CASE m # n
      <4>1. m \in DOMAIN pendingTxs' /\ pendingTxs'[m] = v
          BY <2>1, <3>1, <3>3
      <4> QED
          BY <4>1 DEF Range
    <3> QED
        BY <3>2, <3>3
  <2>5. ASSUME NEW v, Placed(v) PROVE Placed(v)'
    <3>1. CASE Registering(v)
        BY <2>3, <3>1 DEF Placed, Registering
    <3>2. CASE v \in Range(pendingTxs)
        BY <2>4, <3>2 DEF Placed
    <3> QED
        BY <2>1, <2>2, <2>5, <3>1, <3>2 DEF Placed
  <2> QED
      BY <1>0, <2>1, <2>5, SameUses, UsesStay
<1> QED
    BY <1>1, <1>2, <1>3 DEF Sender

\* The steps of the subscriber
LEMMA SubscriberPlaces ==
    ASSUME FinalInv, IndexInv, LimitInv, Subscriber, UNCHANGED forgotten
    PROVE  UsesPlaced'
<1>0. UsesPlaced
    BY DEF LimitInv
<1>j. UNCHANGED job
    BY OtherJobs
<1>1. ASSUME NEW k, AdvanceAnchor(k) PROVE UsesPlaced'
  <2>1. PICK blobs : fin' = <<[step |-> "advanced", ids |-> {}, included |-> blobs,
                               excluded |-> Losers(k)]>>
      BY <1>1 DEF AdvanceAnchor
  <2>2. fin = <<>> /\ repriced' = repriced \ Losers(k)
      BY <1>1 DEF AdvanceAnchor
  <2>3. UNCHANGED <<cacheInclusions, onChain, pendingTxs, sent>>
      BY <1>1 DEF AdvanceAnchor, trackerVars
  <2>4. fin' # <<>> /\ fin'[1].excluded = Losers(k)
      BY <2>1
  <2>5. Mined' = Mined /\ Range(pendingTxs)' = Range(pendingTxs)
      BY <2>3 DEF Mined, Range
  <2>6. \A t : Placed(t) => Placed(t)'
      BY <1>j, <2>2, <2>4, <2>5 DEF Placed, Registering
  <2> QED
      BY <1>0, <2>3, <2>6, SameUses, UsesStay
<1>2. CASE FinalizeTxs \/ MarkIncluded \/ SetFinalizedBlockNumber \/ DropExcluded
             \/ DeleteInclusions \/ PersistAnchor
  <2>1. UNCHANGED <<pendingTxs, repriced, onChain, sent>>
      BY <1>2, OtherTxs
  <2>2. \A t \in DOMAIN includedIntents :
          fin # <<>> /\ t \in fin[1].excluded => fin' # <<>> /\ t \in fin'[1].excluded
    <3>1. ASSUME fin # <<>>
          PROVE  fin[1] = [step |-> fin[1].step, ids |-> fin[1].ids,
                           included |-> fin[1].included, excluded |-> fin[1].excluded]
        BY <3>1 DEF FinalInv, FinOK
    <3>2. CASE FinalizeTxs
      <4> DEFINE ids == UNION {includedIntents[t] : t \in fin[1].included \intersect DOMAIN includedIntents}
      <4>1. fin # <<>> /\ fin' = <<[fin[1] EXCEPT !.step = "finalized", !.ids = ids]>>
          BY <3>2 DEF FinalizeTxs
      <4> HIDE DEF ids
      <4>2. fin'[1] = [step |-> "finalized", ids |-> ids, included |-> fin[1].included,
                       excluded |-> fin[1].excluded]
          BY <3>1, <4>1
      <4> QED
          BY <4>1, <4>2
    <3>3. CASE MarkIncluded \/ SetFinalizedBlockNumber \/ DropExcluded
      <4>1. PICK step \in {"numbering", "marked", "dropped"} :
              fin # <<>> /\ fin' = <<[fin[1] EXCEPT !.step = step]>>
          BY <3>3 DEF MarkIncluded, SetFinalizedBlockNumber, DropExcluded
      <4>2. fin'[1] = [step |-> step, ids |-> fin[1].ids, included |-> fin[1].included,
                       excluded |-> fin[1].excluded]
          BY <3>1, <4>1
      <4> QED
          BY <4>1, <4>2
    <3>4. CASE DeleteInclusions \/ PersistAnchor
        BY <3>4 DEF DeleteInclusions, PersistAnchor, IndexInv, DroppedOK
    <3> QED
        BY <1>2, <3>2, <3>3, <3>4
  <2>3. \A t \in Txs \intersect DOMAIN includedIntents : Placed(t) => Placed(t)'
    <3>1. Mined' = Mined /\ Range(pendingTxs)' = Range(pendingTxs)
        BY <2>1 DEF Mined, Range
    <3> QED
        BY <1>j, <2>1, <2>2, <3>1 DEF Placed, Registering
  <2>4. ASSUME NEW i \in DOMAIN cacheInclusions'
        PROVE  /\ i \in DOMAIN cacheInclusions /\ Uses(i)' # <<>>
               /\ Range(Uses(i)') \subseteq Range(Uses(i))
    <3>1. CASE DropExcluded
      <4> DEFINE known == fin[1].excluded \intersect DOMAIN includedIntents
                 mine(j) == {t \in known : j \in includedIntents[t]}
                 kept(j) == Retain(Uses(j), Txs \ mine(j))
      <4>1. cacheInclusions' = [l \in {j \in DOMAIN cacheInclusions : kept(j) # <<>>} |-> kept(l)]
          BY <3>1 DEF DropExcluded
      <4>2. i \in DOMAIN cacheInclusions /\ kept(i) # <<>> /\ Uses(i)' = kept(i)
          BY <4>1 DEF Uses
      <4>3. Uses(i) \in Seq(Nat)
          BY UsesOf DEF IndexInv
      <4>4. Range(kept(i)) = Range(Uses(i)) \intersect (Txs \ mine(i))
          BY <4>3, RetainKeeps
      <4> HIDE DEF kept, mine
      <4> QED
          BY <4>2, <4>4
    <3>2. CASE FinalizeTxs
      <4>1. PICK ids : cacheInclusions' = Without(cacheInclusions, ids)
          BY <3>2 DEF FinalizeTxs
      <4>2. i \in DOMAIN cacheInclusions /\ Uses(i)' = Uses(i)
          BY <4>1 DEF Without, Uses
      <4> QED
          BY <1>0, <4>2 DEF UsesPlaced
    <3>3. CASE MarkIncluded \/ SetFinalizedBlockNumber \/ DeleteInclusions \/ PersistAnchor
      <4>1. UNCHANGED cacheInclusions
          BY <3>3 DEF MarkIncluded, SetFinalizedBlockNumber, DeleteInclusions, PersistAnchor,
                      trackerVars
      <4>2. i \in DOMAIN cacheInclusions /\ Uses(i)' = Uses(i)
          BY <4>1 DEF Uses
      <4> QED
          BY <1>0, <4>2 DEF UsesPlaced
    <3> QED
        BY <1>2, <3>1, <3>2, <3>3
  <2> QED
      BY <1>0, <2>3, <2>4, UsesStay
<1> QED
    BY <1>1, <1>2 DEF Subscriber

\* SupersedePlaces: what BlockSync loses from its pending transactions and its blocks is
\* forgotten.
LEMMA SupersedePlaces ==
    ASSUME FinalInv, IndexInv, LimitInv, Supersede,
           UNCHANGED <<cacheInclusions, job, repriced, fin>>,
           \A t \in Mined : ~Transfer(t) => t \in Mined' \union Range(pendingTxs')
    PROVE  UsesPlaced'
<1>1. \A t \in Range(pendingTxs) \union forgotten :
        t \in Mined' \union Range(pendingTxs') \union forgotten'
    BY DEF Supersede
<1>2. \A t : ~Transfer(t) /\ Placed(t) => Placed(t)'
    BY <1>1 DEF Placed, Registering
<1> QED
    BY <1>2, SameUses, UsesStay DEF LimitInv

\* MinedAre: Mined, by the nonces that the blocks use
LEMMA MinedAre ==
    /\ \A t : t \in Mined <=> \E n \in DOMAIN onChain : t = onChain[n].tx \/ t \in onChain[n].held
    /\ \A t : t \in Mined'
                <=> \E n \in DOMAIN onChain' : t = onChain'[n].tx \/ t \in onChain'[n].held
    BY DEF Mined, Range

\* MinePlaces: what a block supersedes is forgotten.
LEMMA MinePlaces ==
    ASSUME FinalInv, IndexInv, LimitInv, NEW t \in Txs, NEW p, MineAt(t, p)
    PROVE  UsesPlaced'
<1>1. Mine(t, p) /\ Supersede
    BY DEF MineAt
<1>2. /\ DOMAIN onChain \subseteq DOMAIN onChain'
      /\ \A n \in DOMAIN onChain : onChain'[n] = onChain[n]
  <2>1. /\ Len(onChain) \in Nat /\ DOMAIN onChain = 1 .. Len(onChain)
        /\ DOMAIN onChain' = 1 .. Len(onChain) + 1
        /\ \A n \in DOMAIN onChain : onChain'[n] = onChain[n]
      BY <1>1, MineFacts
  <2> QED
      BY <2>1
<1>3. \A v \in Mined : v \in Mined'
    BY <1>2, MinedAre
<1>4. UNCHANGED <<cacheInclusions, job, repriced, fin>>
    BY <1>1 DEF Mine, trackerVars
<1> QED
    BY <1>1, <1>3, <1>4, SupersedePlaces

\* ReorgPlaces: what was in a block that is reorganised out is pending again, and what
\* was pending in its place is forgotten.
LEMMA ReorgPlaces ==
    ASSUME FinalInv, IndexInv, LimitInv, NEW k, ReorgAt(k)
    PROVE  UsesPlaced'
<1> DEFINE back == UNION {IF Transfer(onChain[n].tx) THEN onChain[n].held ELSE {onChain[n].tx} :
                            n \in k + 1 .. Len(onChain)}
<1>1. Reorg(k) /\ Supersede
    BY DEF ReorgAt
<1>2. /\ k \in Nat /\ DOMAIN onChain' = 1 .. k /\ 1 .. k \subseteq DOMAIN onChain
      /\ \A n \in 1 .. k : onChain'[n] = onChain[n]
    BY <1>1, ReorgFacts DEF LimitInv
<1>3. Len(onChain) \in Nat /\ DOMAIN onChain = 1 .. Len(onChain)
    BY AppendSeq DEF FinalInv, ChainOK
<1>4. pendingTxs' = [n \in DOMAIN pendingTxs \union {sent[t].nonce : t \in back} |->
                       IF n \in {sent[t].nonce : t \in back}
                       THEN CHOOSE t \in back : sent[t].nonce = n ELSE pendingTxs[n]]
    BY <1>1 DEF Reorg, With
<1>5. \A n \in DOMAIN onChain :
        /\ sent[onChain[n].tx].nonce = n /\ \A t \in onChain[n].held : sent[t].nonce = n
        /\ onChain[n].held # {} => Transfer(onChain[n].tx)
        /\ \A t, v \in onChain[n].held : t = v
    BY DEF LimitInv, NoncesAgree, HeldOK
<1>6. \A t \in back : \E n \in k + 1 .. Len(onChain) :
        t \in (IF Transfer(onChain[n].tx) THEN onChain[n].held ELSE {onChain[n].tx})
    OBVIOUS
<1>7. \A n \in k + 1 .. Len(onChain) :
        (IF Transfer(onChain[n].tx) THEN onChain[n].held ELSE {onChain[n].tx}) \subseteq back
    OBVIOUS
<1>8. \A n \in k + 1 .. Len(onChain) : n \in DOMAIN onChain
    BY <1>2, <1>3
<1> HIDE DEF back
<1>9. \A t, v \in back : sent[t].nonce = sent[v].nonce => t = v
    BY <1>5, <1>6, <1>8
<1>10. ASSUME NEW t \in back PROVE t \in Range(pendingTxs')
  <2> DEFINE n == sent[t].nonce
  <2>1. n \in DOMAIN pendingTxs' /\ pendingTxs'[n] = CHOOSE v \in back : sent[v].nonce = n
      BY <1>4
  <2>2. (CHOOSE v \in back : sent[v].nonce = n) = t
      BY <1>9
  <2> HIDE DEF n
  <2> QED
      BY <2>1, <2>2 DEF Range
<1>11. ASSUME NEW t \in Mined, ~Transfer(t) PROVE t \in Mined' \union Range(pendingTxs')
  <2>1. PICK n \in DOMAIN onChain : t = onChain[n].tx \/ t \in onChain[n].held
      BY MinedAre
  <2>2. CASE n \in 1 .. k
      BY <1>2, <2>1, <2>2, MinedAre
  <2>3. CASE n \in k + 1 .. Len(onChain)
    <3>1. t \in (IF Transfer(onChain[n].tx) THEN onChain[n].held ELSE {onChain[n].tx})
        BY <1>5, <1>11, <2>1
    <3> QED
        BY <1>7, <1>10, <2>3, <3>1
  <2> QED
      BY <1>2, <1>3, <2>2, <2>3
<1>12. UNCHANGED <<cacheInclusions, job, repriced, fin>>
    BY <1>1 DEF Reorg, trackerVars
<1> QED
    BY <1>1, <1>11, <1>12, SupersedePlaces

\* FaultPlaces: a failed finalization forgets what it was to exclude, a restart the uses.
LEMMA FaultPlaces ==
    ASSUME FinalInv, IndexInv, LimitInv, LoseExcluded \/ RestartAll
    PROVE  UsesPlaced'
<1>1. CASE LoseExcluded
  <2>1. /\ FinalizeFails /\ forgotten' = forgotten \union fin[1].excluded
        /\ UNCHANGED <<cacheInclusions, onChain, repriced, pendingTxs, job>>
      BY <1>1, OtherUses, OtherTxs, OtherJobs DEF LoseExcluded
  <2>2. Mined' = Mined /\ Range(pendingTxs)' = Range(pendingTxs)
      BY <2>1 DEF Mined, Range
  <2>3. \A t : Placed(t) => Placed(t)'
      BY <2>1, <2>2 DEF Placed, Registering
  <2> QED
      BY <2>1, <2>3, SameUses, UsesStay DEF LimitInv
<1>2. CASE RestartAll
  <2>1. DOMAIN cacheInclusions' = {}
      BY <1>2 DEF RestartAll, Restart
  <2> QED
      BY <2>1 DEF UsesPlaced
<1> QED
    BY <1>1, <1>2

\* ElsewherePlaces: the other steps beside the requests
LEMMA ElsewherePlaces ==
    ASSUME FinalInv, IndexInv, LimitInv, Elsewhere
    PROVE  UsesPlaced'
<1>1. UNCHANGED forgotten
    BY DEF Elsewhere, postVars
<1>2. CASE RecordFails
  <2>1. UNCHANGED <<cacheInclusions, onChain, repriced, fin, pendingTxs>> /\ \A t : ~Registering(t)
      BY <1>2 DEF RecordFails, Registering, trackerVars, syncVars, chainVars
  <2> QED
      BY <1>1, <2>1, QuietPlaces
<1>3. CASE Api \/ Dropping \/ ConsistencyCheck \/ DropFails \/ Tick \/ \E p \in Prices : MineEmpty(p)
  <2>1. UNCHANGED <<cacheInclusions, onChain, repriced, fin, pendingTxs, job>>
      BY <1>3, OtherUses, OtherTxs, OtherFins, OtherJobs DEF Environment
  <2> QED
      BY <1>1, <2>1, QuietPlaces DEF Registering
<1> QED
    BY <1>1, <1>2, <1>3, SenderPlaces, SubscriberPlaces DEF Elsewhere, Api

\* PlacedStep: in every step the uses of an intent remain in a block, pending, on their
\* way in or out, or forgotten.
LEMMA PlacedStep ==
    ASSUME FinalInv, IndexInv, LimitInv, [NextAdmission]_allVars
    PROVE  UsesPlaced'
<1>1. ASSUME NEW p \in Posts, PostData(p) PROVE UsesPlaced'
  <2>1. CASE SyncForPost(p) \/ StoreChunk(p) \/ Commit(p) \/ Rollback(p)
    <3>1. UNCHANGED <<cacheInclusions, onChain, repriced, fin, pendingTxs, job, forgotten>>
        BY <2>1 DEF SyncForPost, SyncWithDb, StoreChunk, StoreDataIntent, Commit, Rollback,
                    postVars, trackerVars, syncVars, chainVars
    <3> QED
        BY <3>1, QuietPlaces DEF Registering
  <2>2. CASE UNCHANGED <<vars, forgotten>>
      BY <2>2, QuietPlaces DEF Registering, vars, trackerVars, syncVars, chainVars
  <2> QED
      BY <1>1, <2>1, <2>2 DEF PostData, CheckLen, CheckBalance, Refuse, SelectNonce,
                              UpsertUserNonce, GapDeadlock
<1>2. CASE UNCHANGED allVars
    BY <1>2, QuietPlaces DEF Registering, allVars, postVars, vars, trackerVars, syncVars, chainVars
<1> QED
    BY <1>1, <1>2, MinePlaces, ReorgPlaces, FaultPlaces, ElsewherePlaces DEF NextAdmission

\* ShapeStep: fin has one record at most, in a sequence.
LEMMA ShapeStep ==
    ASSUME LimitInv, [NextAdmission]_allVars PROVE FinShape'
<1>1. CASE UNCHANGED fin
    BY <1>1 DEF LimitInv, FinShape
<1>2. CASE Subscriber
  <2>1. fin' = <<>> \/ \E f : fin' = <<f>>
      BY <1>2 DEF Subscriber, AdvanceAnchor, FinalizeTxs, MarkIncluded, SetFinalizedBlockNumber,
                  DropExcluded, DeleteInclusions, PersistAnchor
  <2> QED
      BY <2>1 DEF FinShape
<1>3. ASSUME NEW p \in Posts, PostData(p) PROVE UNCHANGED fin
    BY <1>3 DEF PostData, CheckLen, SyncForPost, SyncWithDb, CheckBalance, Refuse, SelectNonce,
                UpsertUserNonce, GapDeadlock, StoreChunk, StoreDataIntent, Commit, Rollback, vars
<1>4. CASE (\E t \in Txs, p \in Prices : MineAt(t, p)) \/ (\E k \in 0 .. MaxSent : ReorgAt(k))
    BY <1>1, <1>4 DEF MineAt, Mine, ReorgAt, Reorg
<1>5. CASE LoseExcluded \/ RestartAll
    BY <1>5 DEF LoseExcluded, FinalizeFails, RestartAll, Restart, FinShape
<1>6. CASE Elsewhere /\ ~Subscriber
    BY <1>1, <1>6, OtherFins DEF Elsewhere, Api, Environment
<1>7. CASE UNCHANGED allVars
    BY <1>1, <1>7 DEF allVars, vars
<1> QED
    BY <1>1, <1>2, <1>3, <1>4, <1>5, <1>6, <1>7 DEF NextAdmission

\* BundleOfPart: some of finitely many intents are finitely many.
LEMMA BundleOfPart == ASSUME NEW S, Bundle(S), NEW T \in SUBSET S PROVE Bundle(T)
    BY FS_Subset DEF Bundle

\* SendBundles: what is sent has intents, and a nonce.
LEMMA SendBundles ==
    ASSUME FinalInv, LimitInv, NEW n \in Nat, NEW ids, Bundle(ids), NEW fee, NEW step,
           Send(n, ids, fee, step)
    PROVE  /\ \A t \in Txs' : Bundle(sent'[t].ids) /\ sent'[t].nonce \in Nat
           /\ Bundle(job'[1].ids)
<1>1. /\ Len(sent) \in Nat /\ DOMAIN sent = 1 .. Len(sent)
      /\ DOMAIN sent' = 1 .. Len(sent) + 1
      /\ sent'[Len(sent) + 1] = [nonce |-> n, fee |-> fee, ids |-> ids]
      /\ \A k \in DOMAIN sent : sent'[k] = sent[k]
    BY AppendSeq DEF Send, FinalInv, SentOK
<1>2. job' = <<[step |-> step, ids |-> ids, price |-> fee, tx |-> Len(sent) + 1]>>
    BY DEF Send
<1>3. \A t \in DOMAIN sent' : t \in DOMAIN sent \/ t = Len(sent) + 1
    BY <1>1
<1>4. \A t \in Txs : Bundle(sent[t].ids) /\ sent[t].nonce \in Nat
    BY DEF LimitInv, BundlesOK
<1>5. job'[1].ids = ids
    BY <1>2
<1> QED
    BY <1>1, <1>3, <1>4, <1>5 DEF Txs

\* SenderBundles: what the sender packs is of the pool.
LEMMA SenderBundles ==
    ASSUME FinalInv, LimitInv, Sender
    PROVE  BundlesOK'
<1> USE DEF LimitInv, BundlesOK
<1>1. UNCHANGED <<rows, pendingIntents>>
    BY DEF Sender, Pack, GiveUp, SendBlobTx, SendSelfTransfer, RecordInclusions, RegisterSent,
           dbVars, trackerVars
<1>2. CASE Pack \/ GiveUp \/ RecordInclusions
  <2>1. UNCHANGED <<sent, pendingTxs>>
      BY <1>2 DEF Pack, GiveUp, RecordInclusions, chainVars, syncVars
  <2>2. job' # <<>> => Bundle(job'[1].ids)
    <3>1. CASE Pack
      <4>1. PICK ids \in SUBSET Available :
              job' = <<[step |-> "packed", ids |-> ids, price |-> price, tx |-> 0]>>
          BY <3>1 DEF Pack
      <4>2. ids \in SUBSET pendingIntents
          BY DEF Available
      <4>3. Bundle(ids)
          BY <4>2, BundleOfPart
      <4> QED
          BY <4>1, <4>3
    <3>2. CASE GiveUp
        BY <3>2 DEF GiveUp
    <3>3. CASE RecordInclusions
      <4>1. job # <<>> /\ job' = <<[job[1] EXCEPT !.step = "recorded"]>>
          BY <3>3 DEF RecordInclusions
      <4>2. job[1] = [step |-> job[1].step, ids |-> job[1].ids, price |-> job[1].price,
                      tx |-> job[1].tx]
          BY <4>1 DEF FinalInv, JobOK
      <4>3. job'[1] = [step |-> "recorded", ids |-> job[1].ids, price |-> job[1].price,
                       tx |-> job[1].tx]
          BY <4>1, <4>2
      <4> QED
          BY <4>1, <4>3
    <3> QED
        BY <1>2, <3>1, <3>2, <3>3
  <2> QED
      BY <1>1, <2>1, <2>2 DEF Txs
<1>3. CASE SendBlobTx \/ SendSelfTransfer
  <2>1. UNCHANGED pendingTxs
      BY <1>3 DEF SendBlobTx, SendSelfTransfer, syncVars
  <2>2. \E n \in Nat : \E ids, fee, step : Bundle(ids) /\ Send(n, ids, fee, step)
    <3>1. CASE SendBlobTx
      <4>1. /\ job # <<>> /\ UsableNonces # {}
            /\ Send(NextNonce, job[1].ids, NextFee, "sent")
          BY <3>1 DEF SendBlobTx
      <4>2. UsableNonces \subseteq Nat
        <5>1. Len(onChain) \in Nat
            BY AppendSeq DEF FinalInv, ChainOK
        <5> QED
            BY <5>1, IntentPoolAssumption DEF UsableNonces
      <4>3. NextNonce \in Nat
          BY <4>1, <4>2, LeastOf DEF NextNonce
      <4> QED
          BY <4>1, <4>3
    <3>2. CASE SendSelfTransfer
      <4>1. /\ DOMAIN pendingTxs # {}
            /\ Send(Min(DOMAIN pendingTxs), {},
                    Max({price, sent[pendingTxs[Min(DOMAIN pendingTxs)]].fee + 1}), "recorded")
          BY <3>2 DEF SendSelfTransfer
      <4>2. Min(DOMAIN pendingTxs) \in Nat
          BY <4>1, LeastOf
      <4>3. Bundle({})
          BY FS_EmptySet DEF Bundle
      <4> QED
          BY <4>1, <4>2, <4>3
    <3> QED
        BY <1>3, <3>1, <3>2
  <2>3. /\ \A t \in Txs' : Bundle(sent'[t].ids) /\ sent'[t].nonce \in Nat
        /\ Bundle(job'[1].ids)
      BY <2>2, SendBundles
  <2> QED
      BY <1>1, <2>1, <2>3
<1>4. CASE RegisterSent
  <2> DEFINE n == sent[job[1].tx].nonce
  <2>1. DOMAIN pendingTxs' = DOMAIN pendingTxs \union {n} /\ job' = <<>> /\ UNCHANGED sent
      BY <1>4 DEF RegisterSent, With, chainVars
  <2>2. n \in Nat
      BY <1>4 DEF RegisterSent, FinalInv, JobOK
  <2>3. IsFiniteSet(DOMAIN pendingTxs \union {n})
      BY FS_AddElement
  <2> QED
      BY <1>1, <2>1, <2>2, <2>3 DEF Txs
<1> QED
    BY <1>2, <1>3, <1>4 DEF Sender

\* ReorgBundles: what a reorganisation makes pending again are finitely many.
LEMMA ReorgBundles ==
    ASSUME FinalInv, LimitInv, NEW k, Reorg(k)
    PROVE  IsFiniteSet(DOMAIN pendingTxs') /\ DOMAIN pendingTxs' \subseteq Nat
<1> DEFINE back == UNION {IF Transfer(onChain[n].tx) THEN onChain[n].held ELSE {onChain[n].tx} :
                            n \in k + 1 .. Len(onChain)}
           L == Len(onChain)
<1>1. DOMAIN pendingTxs' = DOMAIN pendingTxs \union {sent[t].nonce : t \in back}
    BY DEF Reorg, With
<1>2. k \in Nat /\ L \in Nat /\ DOMAIN onChain = 1 .. L
  <2>1. L \in Nat /\ DOMAIN onChain = 1 .. L
      BY AppendSeq DEF FinalInv, ChainOK
  <2>2. deepest \in Nat /\ k \in deepest .. L - 1
      BY DEF FinalInv, AnchorsOK, Reorg
  <2> QED
      BY <2>1, <2>2
<1>3. \A n \in k + 1 .. L : n \in DOMAIN onChain /\ n \in 1 .. L
    BY <1>2
<1>4. \A t \in back : \E n \in k + 1 .. L : t = onChain[n].tx \/ t \in onChain[n].held
    OBVIOUS
<1> HIDE DEF back, L
<1>5. \A t \in back : sent[t].nonce \in 1 .. L
    BY <1>3, <1>4 DEF LimitInv, NoncesAgree
<1>6. IsFiniteSet(1 .. L) /\ 1 .. L \subseteq Nat
    BY <1>2, FS_Interval
<1>7. /\ IsFiniteSet(DOMAIN pendingTxs \union 1 .. L)
      /\ DOMAIN pendingTxs \union 1 .. L \subseteq Nat
    BY <1>6, FS_Union DEF LimitInv, BundlesOK
<1>8. DOMAIN pendingTxs' \subseteq DOMAIN pendingTxs \union 1 .. L
    BY <1>1, <1>5
<1>9. IsFiniteSet(DOMAIN pendingTxs')
    BY <1>7, <1>8, FS_Subset
<1> QED
    BY <1>7, <1>8, <1>9

\* BundlesStep: every step keeps the sets of intents finite.
LEMMA BundlesStep ==
    ASSUME FinalInv, LimitInv, WholeInv, [NextAdmission]_allVars
    PROVE  BundlesOK'
<1> USE DEF LimitInv, BundlesOK
<1>1. ASSUME UNCHANGED <<job, sent, pendingTxs>>, Bundle(DOMAIN rows'), Bundle(pendingIntents')
      PROVE  BundlesOK'
    BY <1>1 DEF Txs
<1>2. CASE SyncWithDb
  <2>1. /\ pendingIntents' = pendingIntents \union Fetched(lastSync)
        /\ UNCHANGED <<rows, job, sent, pendingTxs>>
      BY <1>2 DEF SyncWithDb, dbVars, syncVars, chainVars
  <2>2. Fetched(lastSync) \in SUBSET DOMAIN rows
      BY DEF Fetched, Live, Committed
  <2>3. Bundle(Fetched(lastSync))
      BY <2>2, BundleOfPart
  <2>4. Bundle(pendingIntents \union Fetched(lastSync))
      BY <2>3, FS_Union DEF Bundle
  <2> QED
      BY <1>1, <2>1, <2>4
<1>3. ASSUME UNCHANGED <<pendingIntents, job, sent, pendingTxs>>, DOMAIN rows' \subseteq DOMAIN rows
      PROVE  BundlesOK'
    BY <1>1, <1>3, BundleOfPart
<1>4. ASSUME NEW p \in Posts, PostData(p) PROVE BundlesOK'
  <2>1. CASE StoreChunk(p)
    <3> DEFINE i == <<p, Cardinality(Stored(p)) + 1>>
    <3>1. StoreDataIntent(i) /\ Stored(p) # ChunksOf(p)
        BY <2>1 DEF StoreChunk
    <3>2. i \in Intents
        BY <3>1, NextChunk
    <3> HIDE DEF i
    <3>3. /\ DOMAIN rows' = DOMAIN rows \union {i}
          /\ UNCHANGED <<pendingIntents, job, sent, pendingTxs>>
        BY <3>1 DEF StoreDataIntent, With, trackerVars, syncVars, chainVars
    <3>4. Bundle(DOMAIN rows \union {i})
        BY <3>2, FS_AddElement DEF Bundle
    <3> QED
        BY <1>1, <3>3, <3>4
  <2>2. CASE Commit(p) \/ Rollback(p)
      BY <2>2, <1>3 DEF Commit, Rollback, Without, trackerVars, syncVars, chainVars
  <2>3. CASE SyncForPost(p)
      BY <2>3, <1>2 DEF SyncForPost
  <2>4. CASE UNCHANGED vars
      BY <2>4, <1>3 DEF vars, dbVars, trackerVars, syncVars, chainVars
  <2> QED
      BY <1>4, <2>1, <2>2, <2>3, <2>4 DEF PostData, CheckLen, CheckBalance, Refuse, SelectNonce,
                              UpsertUserNonce, GapDeadlock
<1>5. CASE \E t \in Txs, p \in Prices : MineAt(t, p)
  <2>1. PICK t \in Txs, p \in Prices : Mine(t, p)
      BY <1>5 DEF MineAt
  <2>2. /\ UNCHANGED <<rows, pendingIntents, job, sent>>
        /\ DOMAIN pendingTxs' \in SUBSET DOMAIN pendingTxs
      BY <2>1 DEF Mine, Without, dbVars, trackerVars
  <2>3. IsFiniteSet(DOMAIN pendingTxs')
      BY <2>2, FS_Subset
  <2> QED
      BY <2>2, <2>3 DEF Txs
<1>6. CASE Subscriber
  <2>1. UNCHANGED <<job, sent, pendingTxs>>
    <3>1. CASE \E k \in 1 .. MaxSent : AdvanceAnchor(k)
        BY <3>1 DEF AdvanceAnchor
    <3> QED
        BY <1>6, <3>1, OtherTxs, OtherJobs DEF Subscriber
  <2>2. DOMAIN rows' = DOMAIN rows
      BY <1>6 DEF Subscriber, AdvanceAnchor, FinalizeTxs, MarkIncluded, SetFinalizedBlockNumber,
                  DropExcluded, DeleteInclusions, PersistAnchor, MarkFinalized, dbVars
  <2>3. pendingIntents' \in SUBSET pendingIntents
      BY <1>6 DEF Subscriber, AdvanceAnchor, FinalizeTxs, MarkIncluded, SetFinalizedBlockNumber,
                  DropExcluded, DeleteInclusions, PersistAnchor, trackerVars
  <2>4. Bundle(pendingIntents')
      BY <2>3, BundleOfPart
  <2> QED
      BY <1>1, <2>1, <2>2, <2>4
<1>7. CASE Sender
    BY <1>7, SenderBundles
<1>8. CASE \E p \in Prices : MineEmpty(p)
    BY <1>8, <1>3 DEF MineEmpty, dbVars, trackerVars, syncVars
<1>9. CASE UNCHANGED allVars
    BY <1>9, <1>3 DEF allVars, vars, dbVars, trackerVars, syncVars, chainVars
<1>10. CASE \E k \in 0 .. MaxSent : ReorgAt(k)
  <2>1. PICK k \in 0 .. MaxSent : Reorg(k)
      BY <1>10 DEF ReorgAt
  <2>2. UNCHANGED <<rows, pendingIntents, job, sent>>
      BY <2>1 DEF Reorg, dbVars, trackerVars
  <2> QED
      BY <2>1, <2>2, ReorgBundles DEF Txs
<1>11. CASE RestartAll
  <2>1. /\ rows' = [i \in Committed |-> rows[i]] /\ pendingIntents' = Live
        /\ pendingTxs' = << >> /\ job' = <<>> /\ UNCHANGED sent
      BY <1>11 DEF RestartAll, Restart
  <2>2. DOMAIN rows' \in SUBSET DOMAIN rows /\ pendingIntents' \in SUBSET DOMAIN rows
      BY <2>1 DEF Committed, Live
  <2>3. Bundle(DOMAIN rows') /\ Bundle(pendingIntents')
      BY <2>2, BundleOfPart
  <2>4. DOMAIN pendingTxs' = {} /\ IsFiniteSet({})
      BY <2>1, FS_EmptySet
  <2> QED
      BY <2>1, <2>3, <2>4 DEF Txs
<1>12. CASE LoseExcluded
    BY <1>3, <1>12 DEF LoseExcluded, FinalizeFails, dbVars, trackerVars, syncVars, chainVars
<1>13. CASE Dropping \/ DropFails
  <2>1. UNCHANGED <<job, sent, pendingTxs>> /\ pendingIntents' \in SUBSET pendingIntents
      BY <1>13 DEF Dropping, FindStale, MarkCancelled, RemovePending, DropFails, trackerVars,
                   syncVars, chainVars
  <2>2. DOMAIN rows' = DOMAIN rows
      BY <1>13 DEF Dropping, FindStale, MarkCancelled, RemovePending, DropFails, dbVars
  <2>3. Bundle(pendingIntents')
      BY <2>1, BundleOfPart
  <2> QED
      BY <1>1, <2>1, <2>2, <2>3
<1>14. CASE ConsistencyCheck \/ Tick \/ \E i \in Intents : CheckCancel(i)
    BY <1>3, <1>14 DEF ConsistencyCheck, MarkFinalized, Tick, CheckCancel, dbVars, trackerVars,
                       syncVars, chainVars
<1>15. CASE RecordFails
  <2>1. UNCHANGED <<rows, pendingIntents, sent, pendingTxs>> /\ job' = <<>>
      BY <1>15 DEF RecordFails, trackerVars, syncVars, chainVars
  <2> QED
      BY <2>1 DEF Txs
<1> QED
    BY <1>2, <1>4, <1>5, <1>6, <1>7, <1>8, <1>9, <1>10, <1>11, <1>12, <1>13, <1>14, <1>15
       DEF NextAdmission, Elsewhere

\* LimitInit: before the first step nothing is stored, pending or sent.
LEMMA LimitInit == ASSUME InitAdmission PROVE FinalInv /\ IndexInv /\ LimitInv
<1>1. Init
    BY DEF InitAdmission
<1>2. Bundle({})
    BY FS_EmptySet DEF Bundle
<1>3. LimitInv
    BY <1>1, <1>2 DEF Init, LimitInv, BundlesOK, UsesPlaced, FinShape, NoncesAgree, HeldOK, Txs,
                      Bundle
<1> QED
    BY <1>1, <1>3, FinalInit, IndexInit

\* LimitStep: every step keeps the invariants of the pool and LimitInv.
LEMMA LimitStep ==
    NonceInv /\ WholeInv /\ FinalInv /\ IndexInv /\ LimitInv /\ [NextAdmission]_allVars
      => FinalInv' /\ IndexInv' /\ LimitInv'
    BY PoolStep, BundlesStep, PlacedStep, ShapeStep, ChainNonces DEF LimitInv

\* LimitInvHolds: the invariants of the pool, and LimitInv, are invariants with the
\* requests, too.
THEOREM LimitInvHolds == SpecAdmission => [](FinalInv /\ IndexInv /\ LimitInv)
    BY LimitInit, LimitStep, NonceInvHolds, WholeInvHolds, PTL DEF SpecAdmission

\* LimitSeesPoolHolds: for any requests and users, the length that a new post is checked
\* with counts every intent of the user in the pool but those on their way out of it, or
\* not registered yet.
THEOREM LimitSeesPoolHolds == SpecAdmission => []LimitSeesPool
    BY LimitSees, LimitInvHolds, PTL
================================================================================
