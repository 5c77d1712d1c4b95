----------------------------- MODULE Client_proofs -----------------------------
(***************************************************************************)
(* A reader who follows the links through the history of an address sees   *)
(* every undisturbed intent: for rows, pages and clocks of every size.     *)
(***************************************************************************)
EXTENDS Client, Sums, SequenceTheorems

-----------------------------------------------------------------------------
(* One page *)

\* Above: the rows of u that ORDER BY di.updated_at DESC puts before row i, if that was
\* updated at c.
Above(u, i, c) == {j \in RowsOf(u) \ {i} : rows[j].at > c}

\* PlaceOf: in rows q that are sorted, a row whose updated_at no other has comes right
\* after those that were updated later.
LEMMA PlaceOf ==
    ASSUME NEW S, IsFiniteSet(S), NEW at, \A j \in S : at[j] \in Int,
           NEW q \in SetToSeqs(S), \A m, n \in DOMAIN q : m < n => at[q[m]] >= at[q[n]],
           NEW i \in S, \A j \in S \ {i} : at[j] # at[i]
    PROVE  LET place == Cardinality({j \in S \ {i} : at[j] > at[i]}) + 1
           IN  place \in 1 .. Cardinality(S) /\ q[place] = i
<1> DEFINE n == Cardinality(S)
           above == {j \in S \ {i} : at[j] > at[i]}
<1>1. n \in Nat
  BY FS_CardinalityType
<1>2. /\ q \in [1 .. n -> S] /\ DOMAIN q = 1 .. n
      /\ \A a, b \in 1 .. n : q[a] = q[b] => a = b
  BY DEF SetToSeqs
<1> HIDE DEF n
<1>3. PICK k \in 1 .. n : q[k] = i
  <2>1. q \in Injection(1 .. n, S)
    BY <1>2 DEF Injection, IsInjective
  <2>2. Cardinality(1 .. n) = n /\ IsFiniteSet(1 .. n)
    BY <1>1, FS_Interval
  <2>3. q \in Surjection(1 .. n, S)
    BY <2>1, <2>2, FS_Injection DEF n
  <2> QED
    BY <2>3 DEF Surjection
<1>4. above = {q[m] : m \in 1 .. k - 1}
  <2>1. ASSUME NEW m \in 1 .. k - 1 PROVE q[m] \in above
    <3>1. m \in 1 .. n /\ m < k /\ q[m] \in S
      BY <1>1, <1>2
    <3>2. q[m] # i
      BY <1>2, <1>3, <3>1
    <3>3. at[q[m]] >= at[i] /\ at[q[m]] # at[i] /\ at[q[m]] \in Int /\ at[i] \in Int
      BY <1>2, <1>3, <3>1, <3>2
    <3> QED
      BY <3>1, <3>2, <3>3
  <2>2. ASSUME NEW j \in above PROVE \E m \in 1 .. k - 1 : q[m] = j
    <3>1. q \in Surjection(1 .. n, S)
      <4>1. q \in Injection(1 .. n, S)
        BY <1>2 DEF Injection, IsInjective
      <4>2. Cardinality(1 .. n) = n /\ IsFiniteSet(1 .. n)
        BY <1>1, FS_Interval
      <4> QED
        BY <4>1, <4>2, FS_Injection DEF n
    <3>2. PICK m \in 1 .. n : q[m] = j
      BY <3>1 DEF Surjection
    <3>3. m # k /\ at[j] \in Int /\ at[i] \in Int /\ at[j] > at[i]
      BY <1>3, <3>2
    <3>4. ~(k < m)
      BY <1>2, <1>3, <3>2, <3>3
    <3> QED
      BY <1>1, <3>2, <3>3, <3>4
  <2> QED
    BY <2>1, <2>2
<1>5. Cardinality(above) = k - 1
  <2> DEFINE D == 1 .. k - 1
             f == [m \in D |-> q[m]]
  <2>1. IsFiniteSet(D) /\ Cardinality(D) = k - 1
    BY <1>1, FS_Interval
  <2>2. \A a, b \in D : q[a] = q[b] => a = b
    <3>1. D \subseteq 1 .. n
      BY <1>1
    <3> QED
      BY <1>2, <3>1
  <2> HIDE DEF D
  <2>3. f \in Bijection(D, above)
    BY <1>4, <2>2 DEF Bijection, Injection, Surjection, IsInjective, D
  <2>4. ExistsBijection(D, above)
    BY <2>3 DEF ExistsBijection
  <2> QED
    BY <2>1, <2>4, FS_Bijection
<1> QED
  BY <1>1, <1>3, <1>5 DEF n

-----------------------------------------------------------------------------
(* Rows and requests *)

Row == [from : Users, price : Nat, at : Nat, cancelled : BOOLEAN, finalized : BOOLEAN,
        tx : {"none", "pending", "mined"}]

\* A signed request has a user, a price and an instant.
IsPost(post) ==
    post.intent.from \in Users /\ post.intent.max_blob_gas_price \in Nat /\ post.nonce \in Nat

RunOK(r, run) ==
    /\ {"step", "left"} \subseteq DOMAIN run
    /\ run.left \in 1 .. Len(Chunks[r])
    /\ run.step = "posted" => IsPost(run.request)

TypeInv ==
    /\ now \in Nat /\ price \in Prices
    /\ rows \in Seq(Row) /\ \A i \in DOMAIN rows : rows[i].at <= now
    /\ (\E V : cli \in [Runs -> V]) /\ \A r \in Runs : RunOK(r, cli[r])

\* RowsGrow: rows are only added, and their updated_at never goes back.
RowsGrow ==
    /\ DOMAIN rows \subseteq DOMAIN rows'
    /\ \A i \in DOMAIN rows : rows'[i].from = rows[i].from /\ rows'[i].at >= rows[i].at

\* Merged: the fields of one record over those of another.
LEMMA Merged ==
    ASSUME NEW f, NEW g
    PROVE  /\ DOMAIN Over(f, g) = DOMAIN f \union DOMAIN g
           /\ \A x \in DOMAIN f : Over(f, g)[x] = f[x]
           /\ \A x \in DOMAIN g \ DOMAIN f : Over(f, g)[x] = g[x]
BY DEF Over

\* GoKeeps: a run that goes on to a step with what that step needs.
LEMMA GoKeeps ==
    ASSUME TypeInv, NEW r \in Runs, NEW from, NEW to, Go(r, from, to),
           "step" \in DOMAIN to, "left" \in DOMAIN to => to.left \in 1 .. Len(Chunks[r]),
           to.step = "posted" => "request" \in DOMAIN to /\ IsPost(to.request)
    PROVE  (\E V : cli' \in [Runs -> V]) /\ \A s \in Runs : RunOK(s, cli'[s])
<1> DEFINE run == Over(to, cli[r])
<1>1. PICK V : cli \in [Runs -> V]
  BY DEF TypeInv
<1>2. cli' = [cli EXCEPT ![r] = run]
  BY DEF Go
<1>3. RunOK(r, cli[r])
  BY DEF TypeInv
<1>4. /\ DOMAIN run = DOMAIN to \union DOMAIN cli[r]
      /\ \A x \in DOMAIN to : run[x] = to[x]
      /\ \A x \in DOMAIN cli[r] \ DOMAIN to : run[x] = cli[r][x]
  BY Merged
<1> HIDE DEF run
<1>5. RunOK(r, run)
  <2>1. {"step", "left"} \subseteq DOMAIN run
    BY <1>3, <1>4 DEF RunOK
  <2>2. run.left \in 1 .. Len(Chunks[r])
    <3>1. CASE "left" \in DOMAIN to
      BY <1>4, <3>1
    <3>2. CASE "left" \notin DOMAIN to
      BY <1>3, <1>4, <3>2 DEF RunOK
    <3> QED
      BY <3>1, <3>2
  <2>3. run.step = to.step
    BY <1>4
  <2>4. run.step = "posted" => IsPost(run.request)
    <3> HAVE run.step = "posted"
    <3>1. "request" \in DOMAIN to /\ IsPost(to.request)
      BY <2>3
    <3>2. run.request = to.request
      BY <1>4, <3>1
    <3> QED
      BY <3>1, <3>2
  <2> QED
    BY <2>1, <2>2, <2>4 DEF RunOK
<1>6. cli' \in [Runs -> V \union {run}]
  BY <1>1, <1>2
<1>7. ASSUME NEW s \in Runs PROVE RunOK(s, cli'[s])
  <2>1. CASE s = r
    BY <1>1, <1>2, <1>5, <2>1
  <2>2. CASE s # r
    BY <1>1, <1>2, <2>2 DEF TypeInv
  <2> QED
    BY <2>1, <2>2
<1> QED
  BY <1>6, <1>7

\* RowsTyped: the fields of a row.
LEMMA RowsTyped ==
    ASSUME TypeInv
    PROVE  \A i \in DOMAIN rows : rows[i] \in Row /\ rows[i].at \in Nat
<1>1. \A i \in DOMAIN rows : rows[i] \in Row
  BY DEF TypeInv
<1>2. \A row \in Row : row.at \in Nat
  BY DEF Row
<1> QED
  BY <1>1, <1>2

\* RowsKeep: a step that leaves the rows alone.
LEMMA RowsKeep == ASSUME TypeInv, rows' = rows PROVE RowsGrow
<1>1. \A i \in DOMAIN rows : rows[i].at \in Nat
  BY RowsTyped
<1> QED
  BY <1>1 DEF RowsGrow

\* RowUpdated: an update of one row that keeps its owner and sets its updated_at, if at
\* all, to now.
LEMMA RowUpdated ==
    ASSUME TypeInv, NEW i \in DOMAIN rows, NEW row \in Row, rows' = [rows EXCEPT ![i] = row],
           row.from = rows[i].from, row.at >= rows[i].at, row.at <= now
    PROVE  RowsGrow /\ rows' \in Seq(Row) /\ \A j \in DOMAIN rows' : rows'[j].at <= now
<1>1. rows \in Seq(Row) /\ rows' \in Seq(Row) /\ DOMAIN rows' = DOMAIN rows
  BY DEF TypeInv
<1>2. rows'[i] = row /\ \A j \in DOMAIN rows : j # i => rows'[j] = rows[j]
  BY <1>1
<1>3. \A j \in DOMAIN rows : rows[j].at \in Nat
  BY RowsTyped
<1> QED
  BY <1>1, <1>2, <1>3 DEF RowsGrow, TypeInv

\* RowsAdded: the rows of one request, all inserted at the same instant.
LEMMA RowsAdded ==
    ASSUME TypeInv, NEW count \in Nat, NEW row \in Row, row.at <= now,
           rows' = rows \o [k \in 1 .. count |-> row]
    PROVE  RowsGrow /\ rows' \in Seq(Row) /\ \A i \in DOMAIN rows' : rows'[i].at <= now
<1> DEFINE new == [k \in 1 .. count |-> row]
<1>1. new \in Seq(Row)
  OBVIOUS
<1>2. Len(new) = count /\ \A k \in 1 .. count : new[k] = row
  OBVIOUS
<1>3. rows \in Seq(Row)
  BY DEF TypeInv
<1>4. rows' = rows \o new
  OBVIOUS
<1> HIDE DEF new
<1>5. /\ rows \o new \in Seq(Row) /\ Len(rows \o new) = Len(rows) + Len(new)
      /\ \A k \in 1 .. Len(rows) : (rows \o new)[k] = rows[k]
      /\ \A k \in 1 .. Len(new) : (rows \o new)[Len(rows) + k] = new[k]
  BY ONLY <1>1, <1>3, Joined
<1>6. PICK n : n = Len(rows) /\ n \in Nat /\ DOMAIN rows = 1 .. n
  BY <1>3
<1>7. rows' \in Seq(Row) /\ DOMAIN rows' = 1 .. n + count
  BY <1>2, <1>4, <1>5, <1>6
<1>8. \A k \in 1 .. n : rows'[k] = rows[k]
  BY <1>4, <1>5, <1>6
<1>9. \A k \in 1 .. count : rows'[n + k] = row
  BY <1>2, <1>4, <1>5, <1>6
<1>10. \A i \in DOMAIN rows' : rows'[i].at <= now
  <2> SUFFICES ASSUME NEW i \in 1 .. n + count PROVE rows'[i].at <= now
    BY <1>7
  <2>1. CASE i \in 1 .. n
    BY <1>6, <1>8, <2>1 DEF TypeInv
  <2>2. CASE i \notin 1 .. n
    <3>1. i - n \in 1 .. count /\ n + (i - n) = i
      BY <1>6, <2>2
    <3> QED
      BY <1>9, <3>1
  <2> QED
    BY <2>1, <2>2
<1>11. RowsGrow
  <2>1. \A i \in DOMAIN rows : rows'[i] = rows[i] /\ rows[i].at \in Nat
    BY <1>6, <1>8, RowsTyped
  <2>2. DOMAIN rows \subseteq DOMAIN rows'
    BY <1>6, <1>7
  <2> QED
    BY <2>1, <2>2 DEF RowsGrow
<1> QED
  BY <1>7, <1>10, <1>11

\* RequestIs: the request a run makes.
LEMMA RequestIs ==
    ASSUME TypeInv, NEW r \in Runs
    PROVE  IsPost(Request(r))
<1>1. Wallet[r] \in Users
  BY ClientAssumption
<1>2. price \in Nat /\ Factor \in Nat
  BY ClientAssumption DEF TypeInv
<1>3. (Factor * price) \div 1000 \in Nat
  BY <1>2
<1>4. now \in Nat
  BY DEF TypeInv
<1> QED
  BY <1>1, <1>2, <1>3, <1>4 DEF IsPost, Request, WithSignature

\* RunStep: a step of the CLI.
LEMMA RunStep ==
    ASSUME TypeInv, NEW r \in Runs, Cli(r)
    PROVE  TypeInv' /\ RowsGrow
<1>1. ASSUME UNCHANGED <<now, rows, price>>,
             (\E V : cli' \in [Runs -> V]) /\ \A s \in Runs : RunOK(s, cli'[s])
      PROVE  TypeInv' /\ RowsGrow
  BY <1>1, RowsKeep DEF TypeInv
<1>2. NextRound(r).step # "posted" /\ "step" \in DOMAIN NextRound(r)
      /\ ("left" \in DOMAIN NextRound(r) => NextRound(r).left \in 1 .. Len(Chunks[r]))
  <2>1. cli[r].left \in 1 .. Len(Chunks[r])
    BY DEF TypeInv, RunOK
  <2>2. Len(Chunks[r]) \in Nat
    BY ClientAssumption
  <2> QED
    BY <2>1, <2>2 DEF NextRound
<1>3. CASE MaybeFundSenderAccount(r)
  <2>1. \/ Go(r, "start", [step |-> "funding", tx |-> Len(topups) + 1])
        \/ Go(r, "start", [step |-> "post"])
    BY <1>3 DEF MaybeFundSenderAccount
  <2>2. (\E V : cli' \in [Runs -> V]) /\ \A s \in Runs : RunOK(s, cli'[s])
    BY ONLY TypeInv, r \in Runs, <2>1, GoKeeps
  <2> QED
    BY <1>1, <1>3, <2>2 DEF MaybeFundSenderAccount, server
<1>4. CASE TopupAnswered(r)
  <2>1. Go(r, "funding", [step |-> "post"])
    BY <1>4 DEF TopupAnswered
  <2>2. (\E V : cli' \in [Runs -> V]) /\ \A s \in Runs : RunOK(s, cli'[s])
    BY ONLY TypeInv, r \in Runs, <2>1, GoKeeps
  <2> QED
    BY <1>1, <1>4, <2>2 DEF TopupAnswered, server
<1>5. CASE SendRequest(r)
  <2> DEFINE to == [step |-> "posted", request |-> Request(r)]
  <2>1. Go(r, "post", to)
    BY <1>5 DEF SendRequest
  <2>2. DOMAIN to = {"step", "request"} /\ to.request = Request(r)
    OBVIOUS
  <2> HIDE DEF to
  <2>3. (\E V : cli' \in [Runs -> V]) /\ \A s \in Runs : RunOK(s, cli'[s])
    BY <2>1, <2>2, RequestIs, GoKeeps
  <2> QED
    BY <1>1, <1>5, <2>3 DEF SendRequest, server
<1>6. CASE RefusePost(r)
  <2>1. Go(r, "posted", [step |-> "failed"])
    BY <1>6 DEF RefusePost
  <2>2. (\E V : cli' \in [Runs -> V]) /\ \A s \in Runs : RunOK(s, cli'[s])
    BY ONLY TypeInv, r \in Runs, <2>1, GoKeeps
  <2> QED
    BY <1>1, <1>6, <2>2 DEF RefusePost, server
<1>7. CASE PollStatus(r)
  <2>1. Go(r, "waiting", NextRound(r))
    BY <1>7 DEF PollStatus
  <2>2. (\E V : cli' \in [Runs -> V]) /\ \A s \in Runs : RunOK(s, cli'[s])
    BY <1>2, <2>1, GoKeeps
  <2> QED
    BY <1>1, <1>7, <2>2 DEF PollStatus, server
<1>8. CASE PostData(r)
  <2> DEFINE post == cli[r].request
  <2>1. IsPost(post)
    BY <1>8 DEF PostData, TypeInv, RunOK
  <2>2. PICK at \in post.nonce .. now :
          rows' = rows \o [k \in 1 .. Count(r) |->
             [from |-> post.intent.from, price |-> post.intent.max_blob_gas_price,
              at |-> at, cancelled |-> FALSE, finalized |-> FALSE, tx |-> "none"]]
    BY <1>8 DEF PostData
  <2> DEFINE row == [from |-> post.intent.from, price |-> post.intent.max_blob_gas_price,
                     at |-> at, cancelled |-> FALSE, finalized |-> FALSE, tx |-> "none"]
             new == [k \in 1 .. Count(r) |-> row]
  <2>3. at \in Nat /\ at <= now
    BY <2>1 DEF IsPost, TypeInv
  <2>4. row \in Row /\ row.at = at
    BY <2>1, <2>3 DEF IsPost, Row
  <2>5. rows' = rows \o new
    BY <2>2
  <2>6. Count(r) \in Nat
    <3>1. cli[r].left \in 1 .. Len(Chunks[r])
      BY DEF TypeInv, RunOK
    <3>2. Chunks[r] \in Seq(Nat \ {0})
      BY ClientAssumption
    <3> QED
      BY <3>1, <3>2 DEF Count
  <2>7. rows' \in Seq(Row) /\ RowsGrow /\ \A i \in DOMAIN rows' : rows'[i].at <= now
    <3> HIDE DEF row
    <3> QED
      BY <2>3, <2>4, <2>5, <2>6, RowsAdded
  <2>8. (\E V : cli' \in [Runs -> V]) /\ \A s \in Runs : RunOK(s, cli'[s])
    <3>1. \/ Go(r, "posted", IF cli[r].skip_wait THEN NextRound(r)
                             ELSE [step |-> "waiting", id |-> Len(rows) + 1])
          \/ Go(r, "posted", [step |-> "failed"])
      BY <1>8 DEF PostData
    <3>2. CASE Go(r, "posted", [step |-> "failed"])
      BY <3>2, GoKeeps
    <3>3. CASE Go(r, "posted", NextRound(r))
      BY <1>2, <3>3, GoKeeps
    <3>4. CASE Go(r, "posted", [step |-> "waiting", id |-> Len(rows) + 1])
      BY <3>4, GoKeeps
    <3> QED
      BY <3>1, <3>2, <3>3, <3>4
  <2> QED
    BY <1>8, <2>7, <2>8 DEF PostData, TypeInv
<1> QED
  BY <1>3, <1>4, <1>5, <1>6, <1>7, <1>8 DEF Cli

\* RowTx, RowTouched, RowCancelled, RowFinalized: a row whose fields are set.
LEMMA RowTx ==
    ASSUME NEW row \in Row, NEW tx \in {"none", "pending", "mined"}
    PROVE  /\ [row EXCEPT !.tx = tx] \in Row
           /\ [row EXCEPT !.tx = tx].from = row.from
           /\ [row EXCEPT !.tx = tx].at = row.at
BY DEF Row

LEMMA RowTouched ==
    ASSUME NEW row \in Row, NEW at \in Nat
    PROVE  /\ [row EXCEPT !.at = at] \in Row
           /\ [row EXCEPT !.at = at].from = row.from
           /\ [row EXCEPT !.at = at].at = at
BY DEF Row

LEMMA RowCancelled ==
    ASSUME NEW row \in Row, NEW at \in Nat
    PROVE  /\ [row EXCEPT !.cancelled = TRUE, !.at = at] \in Row
           /\ [row EXCEPT !.cancelled = TRUE, !.at = at].from = row.from
           /\ [row EXCEPT !.cancelled = TRUE, !.at = at].at = at
BY DEF Row

LEMMA RowFinalized ==
    ASSUME NEW row \in Row, NEW at \in Nat
    PROVE  /\ [row EXCEPT !.finalized = TRUE, !.at = at] \in Row
           /\ [row EXCEPT !.finalized = TRUE, !.at = at].from = row.from
           /\ [row EXCEPT !.finalized = TRUE, !.at = at].at = at
BY DEF Row

\* RowSet: an update of row i, however it is written down.
LEMMA RowSet ==
    ASSUME TypeInv, NEW i \in DOMAIN rows, NEW row, rows' = [rows EXCEPT ![i] = row],
           \/ \E tx \in {"none", "pending", "mined"} : row = [rows[i] EXCEPT !.tx = tx]
           \/ row = [rows[i] EXCEPT !.at = now]
           \/ row = [rows[i] EXCEPT !.cancelled = TRUE, !.at = now]
    PROVE  RowsGrow /\ rows' \in Seq(Row) /\ \A j \in DOMAIN rows' : rows'[j].at <= now
<1>1. rows[i] \in Row /\ rows[i].at \in Nat /\ rows[i].at <= now /\ now \in Nat
  BY RowsTyped DEF TypeInv
<1>2. row \in Row /\ row.from = rows[i].from /\ row.at \in {rows[i].at, now}
  <2>1. CASE \E tx \in {"none", "pending", "mined"} : row = [rows[i] EXCEPT !.tx = tx]
    <3>1. PICK tx \in {"none", "pending", "mined"} : row = [rows[i] EXCEPT !.tx = tx]
      BY <2>1
    <3> QED
      BY <1>1, <3>1, RowTx, Zenon
  <2>2. CASE row = [rows[i] EXCEPT !.at = now]
    BY <1>1, <2>2, RowTouched, Zenon
  <2>3. CASE row = [rows[i] EXCEPT !.cancelled = TRUE, !.at = now]
    BY <1>1, <2>3, RowCancelled, Zenon
  <2> QED
    BY <2>1, <2>2, <2>3
<1>3. row.at >= rows[i].at /\ row.at <= now
  BY <1>1, <1>2
<1> QED
  BY <1>2, <1>3, RowUpdated

\* RowStep: a step at which an intent goes on.
LEMMA RowStep ==
    ASSUME TypeInv, NEW i \in DOMAIN rows,
           Publish(i) \/ TouchFinalized(i) \/ MarkCancelled(i)
    PROVE  TypeInv' /\ RowsGrow
<1>1. UNCHANGED <<now, price, cli>>
  BY DEF Publish, TouchFinalized, MarkCancelled
<1>2. rows \in Seq(Row)
  BY DEF TypeInv
<1>3. RowsGrow /\ rows' \in Seq(Row) /\ \A j \in DOMAIN rows' : rows'[j].at <= now
  <2>1. CASE Publish(i)
    <3>1. PICK tx \in {"none", "pending", "mined"} :
            rows' = [rows EXCEPT ![i] = [rows[i] EXCEPT !.tx = tx]]
      BY <2>1 DEF Publish
    <3> DEFINE row == [rows[i] EXCEPT !.tx = tx]
    <3> QED
      BY <3>1, RowSet
  <2>2. CASE TouchFinalized(i)
    <3> DEFINE row == [rows[i] EXCEPT !.at = now]
    <3>1. rows' = [rows EXCEPT ![i] = row]
      BY <2>2 DEF TouchFinalized
    <3> QED
      BY <3>1, RowSet
  <2>3. CASE MarkCancelled(i)
    <3> DEFINE row == [rows[i] EXCEPT !.cancelled = TRUE, !.at = now]
    <3>1. rows' = [rows EXCEPT ![i] = row]
      BY <1>2, <2>3 DEF MarkCancelled
    <3> QED
      BY <3>1, RowSet
  <2> QED
    BY <2>1, <2>2, <2>3
<1> QED
  BY <1>1, <1>3 DEF TypeInv

\* FinalizeStep: the intents of a transaction are finalized.
LEMMA FinalizeStep ==
    ASSUME TypeInv, NEW ids \in SUBSET DOMAIN rows, MarkFinalized(ids)
    PROVE  TypeInv' /\ RowsGrow
<1>1. UNCHANGED <<now, price, cli>>
  BY DEF MarkFinalized
<1>2. rows' = [i \in DOMAIN rows |-> IF i \in ids
                 THEN [rows[i] EXCEPT !.finalized = TRUE, !.at = now] ELSE rows[i]]
  BY DEF MarkFinalized
<1>3. ASSUME NEW i \in DOMAIN rows
      PROVE  /\ rows'[i] \in Row /\ rows'[i].from = rows[i].from
             /\ rows'[i].at >= rows[i].at /\ rows'[i].at <= now
  <2>1. rows[i] \in Row /\ rows[i].at \in Nat /\ rows[i].at <= now /\ now \in Nat
    BY RowsTyped DEF TypeInv
  <2>2. CASE i \in ids
    <3>1. rows'[i] = [rows[i] EXCEPT !.finalized = TRUE, !.at = now]
      BY <1>2, <2>2
    <3>2. rows'[i] \in Row /\ rows'[i].from = rows[i].from /\ rows'[i].at = now
      <4>1. rows[i] \in Row /\ now \in Nat
        BY <2>1
      <4>2. /\ [rows[i] EXCEPT !.finalized = TRUE, !.at = now] \in Row
            /\ [rows[i] EXCEPT !.finalized = TRUE, !.at = now].from = rows[i].from
            /\ [rows[i] EXCEPT !.finalized = TRUE, !.at = now].at = now
        BY ONLY <4>1, RowFinalized, Zenon
      <4> QED
        BY <3>1, <4>2, Zenon
    <3> QED
      BY <2>1, <3>2
  <2>3. CASE i \notin ids
    <3>1. rows'[i] = rows[i]
      BY <1>2, <2>3
    <3> QED
      BY <2>1, <3>1
  <2> QED
    BY <2>2, <2>3
<1>4. PICK n \in Nat : DOMAIN rows = 1 .. n
  BY DEF TypeInv
<1>5. rows' = [i \in 1 .. n |-> rows'[i]] /\ DOMAIN rows' = 1 .. n
  BY <1>2, <1>4
<1>6. rows' \in Seq(Row)
  BY <1>3, <1>4, <1>5
<1> QED
  BY <1>1, <1>3, <1>4, <1>5, <1>6 DEF TypeInv, RowsGrow

\* TypeStep: every step keeps the types and lets the rows grow.
LEMMA TypeStep == TypeInv /\ [Next]_vars => TypeInv' /\ RowsGrow
<1> SUFFICES ASSUME TypeInv, [Next]_vars PROVE TypeInv' /\ RowsGrow
  OBVIOUS
<1>1. ASSUME NEW r \in Runs, Cli(r) PROVE TypeInv' /\ RowsGrow
  BY <1>1, RunStep
<1>2. ASSUME Bundler PROVE TypeInv' /\ RowsGrow
  <2>1. ASSUME NEW k \in DOMAIN topups, SyncTopup(k) PROVE TypeInv' /\ RowsGrow
    BY <2>1, RowsKeep DEF SyncTopup, TypeInv
  <2>2. ASSUME NEW i \in DOMAIN rows, Publish(i) \/ TouchFinalized(i) \/ Evict(i)
        PROVE  TypeInv' /\ RowsGrow
    BY <2>2, RowStep DEF Evict
  <2>3. ASSUME NEW ids \in SUBSET DOMAIN rows, MarkFinalized(ids)
        PROVE  TypeInv' /\ RowsGrow
    BY <2>3, FinalizeStep
  <2> QED
    BY <1>2, <2>1, <2>2, <2>3 DEF Bundler
<1>3. ASSUME NEW id, NEW path \in DOMAIN rows, NEW cancel, cancel.id = id, DeleteData(path, cancel)
      PROVE  TypeInv' /\ RowsGrow
  BY <1>3, RowStep DEF DeleteData
<1>4. ASSUME UNCHANGED <<now, rows, price, cli>> PROVE TypeInv' /\ RowsGrow
  BY <1>4, RowsKeep DEF TypeInv
<1>5. ASSUME Tick PROVE TypeInv' /\ RowsGrow
  <2>1. UNCHANGED <<rows, cli>> /\ now' = now + 1 /\ price' \in Prices /\ now \in Nat
    BY <1>5 DEF Tick, server, TypeInv
  <2>2. \A i \in DOMAIN rows : rows[i].at <= now /\ rows[i].at \in Nat
    BY RowsTyped DEF TypeInv
  <2>3. RowsGrow
    BY <2>1, RowsKeep
  <2>4. \A i \in DOMAIN rows' : rows'[i].at <= now'
    BY <2>1, <2>2
  <2>5. rows' \in Seq(Row) /\ now' \in Nat
    BY <2>1 DEF TypeInv
  <2>6. (\E V : cli' \in [Runs -> V]) /\ \A r \in Runs : RunOK(r, cli'[r])
    BY <2>1 DEF TypeInv
  <2> QED
    BY <2>1, <2>3, <2>4, <2>5, <2>6 DEF TypeInv
<1>6. CASE UNCHANGED vars
  BY <1>4, <1>6 DEF vars, server
<1>7. CASE Next
  <2>1. ASSUME NEW u \in Users, OpenHistory(u) PROVE TypeInv' /\ RowsGrow
    BY <1>4, <2>1 DEF OpenHistory, server
  <2>2. ASSUME FetchHistory \/ CountHistory \/ NextPage PROVE TypeInv' /\ RowsGrow
    BY <1>4, <2>2 DEF FetchHistory, CountHistory, NextPage, server
  <2>3. ASSUME NEW k \in DOMAIN topups, ConfirmTopup(k) PROVE TypeInv' /\ RowsGrow
    BY <1>4, <2>3 DEF ConfirmTopup, server
  <2>4. ASSUME NEW u \in Users, NEW id \in DOMAIN rows, NEW path \in DOMAIN rows,
               DeleteData(path, CancelWithSignature(u, id))
        PROVE  TypeInv' /\ RowsGrow
    <3>1. CancelWithSignature(u, id).id = id
      BY DEF CancelWithSignature
    <3> QED
      BY <1>3, <2>4, <3>1
  <2> QED
    BY <1>1, <1>2, <1>5, <1>7, <2>1, <2>2, <2>3, <2>4 DEF Next
<1> QED
  BY <1>6, <1>7

\* TypeInit: the initial states have the types.
LEMMA TypeInit == Init => TypeInv
<1> SUFFICES ASSUME Init PROVE TypeInv
  OBVIOUS
<1>1. PICK skipWait \in [Runs -> BOOLEAN] :
        cli = [r \in Runs |-> [step |-> "start", left |-> Len(Chunks[r]),
                               skip_wait |-> skipWait[r]]]
  BY DEF Init
<1>2. ASSUME NEW r \in Runs PROVE RunOK(r, cli[r])
  <2>1. Len(Chunks[r]) \in Nat /\ Len(Chunks[r]) > 0
    BY ClientAssumption
  <2> QED
    BY <1>1, <2>1 DEF RunOK
<1>3. \E V : cli \in [Runs -> V]
  <2>1. cli \in [Runs -> {cli[r] : r \in Runs}]
    BY <1>1
  <2> QED
    BY <2>1
<1>4. rows = <<>> /\ now = 1 /\ price \in Prices
  BY DEF Init
<1> QED
  BY <1>2, <1>3, <1>4 DEF TypeInv

-----------------------------------------------------------------------------
(* The walk through the pages *)

WalkFields == {"offset", "entries", "fetched", "total", "of", "open", "shown", "sure"}

\* how many rows come before what the reader has not fetched
Passed(w) == IF w.fetched THEN w.offset + PageLimit ELSE w.offset

\* Missed: the intents that still have to be shown, and are on no page so far.
Missed(w) == DOMAIN w.sure \ (w.shown \union w.entries)

\* Each of these comes after what was fetched, and if the rows were counted after the
\* page was fetched, or at the same time, then the count tells that there is more.
WalkOK(w) ==
    /\ DOMAIN w = WalkFields
    /\ w.offset \in Nat /\ w.total \in Int /\ w.fetched \in BOOLEAN /\ w.open \in BOOLEAN
    /\ DOMAIN w.sure \subseteq RowsOf(w.of) /\ \A i \in DOMAIN w.sure : w.sure[i] \in Int
    /\ ~w.fetched => w.entries = {}
    /\ w.open => \A i \in Missed(w) :
         /\ Cardinality(Above(w.of, i, w.sure[i])) >= Passed(w)
         /\ w.fetched /\ w.total # -1 => w.total > Passed(w)
    /\ ~w.open => DOMAIN w.sure \subseteq w.shown

WalkInv == walk = <<>> \/ (Len(walk) = 1 /\ walk = <<walk[1]>> /\ WalkOK(walk[1]))

\* LesserIs: the minimum of two numbers.
LEMMA LesserIs ==
    ASSUME NEW a \in Int, NEW b \in Int
    PROVE  Min({a, b}) \in {a, b} /\ Min({a, b}) <= a /\ Min({a, b}) <= b
<1>1. \E x \in {a, b} : \A y \in {a, b} : x <= y
  OBVIOUS
<1>2. Min({a, b}) \in {a, b} /\ \A y \in {a, b} : Min({a, b}) <= y
  BY <1>1 DEF Min
<1> QED
  BY <1>2

\* PageLimitIs: a page has room for an intent.
LEMMA PageLimitIs == PageLimit \in Nat /\ PageLimit > 0
<1>1. Limit \in Nat \ {0} /\ HistoryLimit \in Nat \ {0}
  BY ClientAssumption
<1>2. Min({Limit, HistoryLimit}) \in {Limit, HistoryLimit}
  BY <1>1, LesserIs
<1> QED
  BY <1>1, <1>2 DEF PageLimit

\* OnPage: what is at place k of the sorted rows is on the page with that place.
LEMMA OnPage ==
    ASSUME NEW n \in Nat, NEW S, NEW q \in [1 .. n -> S], NEW offset \in Nat, NEW limit \in Nat,
           NEW k \in 1 .. n, offset < k, k <= offset + limit
    PROVE  q[k] \in Range(SubSeq(q, offset + 1, Min({offset + limit, Len(q)})))
<1>1. q \in Seq(S) /\ Len(q) = n
  OBVIOUS
<1> DEFINE last == Min({offset + limit, Len(q)})
<1>2. last \in Int /\ k <= last /\ last <= n
  BY <1>1, LesserIs
<1> HIDE DEF last
<1> DEFINE page == SubSeq(q, offset + 1, last)
<1>3. /\ page \in Seq(S) /\ Len(page) = last - offset
      /\ \A i \in 1 .. last - offset : page[i] = q[offset + i]
  <2>1. offset + 1 \in Int /\ \A i \in offset + 1 .. last : q[i] \in S
    BY <1>2
  <2>2. /\ page \in Seq(S)
        /\ Len(page) = IF offset + 1 <= last THEN last - (offset + 1) + 1 ELSE 0
        /\ \A i \in 1 .. last - (offset + 1) + 1 : page[i] = q[offset + 1 + i - 1]
    BY <1>2, <2>1, SubSeqProperties
  <2>3. offset + 1 <= last
    BY <1>2
  <2>4. last - (offset + 1) + 1 = last - offset
    BY <1>2
  <2>5. \A i \in 1 .. last - offset : offset + 1 + i - 1 = offset + i
    BY <1>2
  <2> QED
    BY <2>2, <2>3, <2>4, <2>5
<1> HIDE DEF page
<1>4. k - offset \in 1 .. last - offset /\ page[k - offset] = q[k]
  BY <1>2, <1>3
<1>5. k - offset \in DOMAIN page
  BY <1>2, <1>3, <1>4
<1>6. q[k] \in Range(page)
  BY <1>4, <1>5 DEF Range
<1> QED
  BY <1>6 DEF page, last

\* RowsFinite: the rows of a user are a finite set.
LEMMA RowsFinite ==
    ASSUME TypeInv, NEW u
    PROVE  /\ IsFiniteSet(RowsOf(u)) /\ Cardinality(RowsOf(u)) \in Nat
           /\ \A i, c : IsFiniteSet(Above(u, i, c)) /\ Cardinality(Above(u, i, c)) \in Nat
<1>1. PICK n \in Nat : DOMAIN rows = 1 .. n
  BY DEF TypeInv
<1>2. IsFiniteSet(DOMAIN rows)
  BY <1>1, FS_Interval
<1>3. RowsOf(u) \subseteq DOMAIN rows /\ \A i, c : Above(u, i, c) \subseteq DOMAIN rows
  BY DEF RowsOf, Above
<1>4. \A S \in SUBSET DOMAIN rows : IsFiniteSet(S) /\ Cardinality(S) \in Nat
  BY <1>2, FS_Subset, FS_CardinalityType
<1> QED
  BY <1>3, <1>4

\* AboveGrows: while rows grow, what comes before a row that is not updated does too.
LEMMA AboveGrows ==
    ASSUME TypeInv, TypeInv', RowsGrow, NEW u
    PROVE  /\ RowsOf(u) \subseteq RowsOf(u)'
           /\ \A i : \A c \in Int :
                /\ Cardinality(Above(u, i, c)) <= Cardinality(Above(u, i, c)')
                /\ Cardinality(Above(u, i, c)') \in Nat
<1>1. RowsOf(u) \subseteq RowsOf(u)'
  BY DEF RowsGrow, RowsOf
<1>2. ASSUME NEW i, NEW c \in Int
      PROVE  /\ Cardinality(Above(u, i, c)) <= Cardinality(Above(u, i, c)')
             /\ Cardinality(Above(u, i, c)') \in Nat
  <2>1. ASSUME NEW j \in Above(u, i, c) PROVE j \in Above(u, i, c)'
    <3>1. j \in RowsOf(u) \ {i} /\ rows[j].at > c /\ j \in DOMAIN rows
      BY DEF Above, RowsOf
    <3>2. rows'[j].at >= rows[j].at /\ rows[j].at \in Nat /\ rows'[j].at \in Nat
      <4>1. j \in DOMAIN rows'
        BY <3>1 DEF RowsGrow
      <4>2. rows'[j] \in Row
        BY <4>1 DEF TypeInv
      <4>3. \A row \in Row : row.at \in Nat
        BY DEF Row
      <4> QED
        BY <3>1, <4>2, <4>3, RowsTyped DEF RowsGrow
    <3>3. rows'[j].at > c
      BY <3>1, <3>2
    <3>4. j \in RowsOf(u)' \ {i}
      BY <1>1, <3>1
    <3> QED
      BY <3>3, <3>4 DEF Above
  <2>2. IsFiniteSet(Above(u, i, c)')
    <3>1. PICK n \in Nat : DOMAIN rows' = 1 .. n
      BY DEF TypeInv
    <3>2. IsFiniteSet(DOMAIN rows')
      BY <3>1, FS_Interval
    <3>3. Above(u, i, c)' \subseteq DOMAIN rows'
      BY DEF Above, RowsOf
    <3> QED
      BY <3>2, <3>3, FS_Subset
  <2>3. Above(u, i, c) \subseteq Above(u, i, c)'
    BY <2>1
  <2> QED
    BY <2>2, <2>3, FS_Subset, FS_CardinalityType
<1> QED
  BY <1>1, <1>2

\* WalkKeeps: whatever becomes of the rows, what is known of the walk stays true.
LEMMA WalkKeeps ==
    ASSUME TypeInv, TypeInv', RowsGrow, WalkInv, UNCHANGED walk
    PROVE  WalkInv'
<1>1. CASE walk = <<>>
  BY <1>1 DEF WalkInv
<1>2. CASE walk # <<>>
  <2> DEFINE w == walk[1]
  <2>1. Len(walk) = 1 /\ walk = <<w>> /\ WalkOK(w)
    BY <1>2 DEF WalkInv
  <2>2. w' = w
    OBVIOUS
  <2> SUFFICES ASSUME NEW v, v = w, WalkOK(v) PROVE WalkOK(v)'
    BY <2>1, <2>2 DEF WalkInv
  <2>3. DOMAIN v.sure \subseteq RowsOf(v.of)'
    BY AboveGrows DEF WalkOK
  <2>4. ASSUME v.open, NEW i \in Missed(v)
        PROVE  Cardinality(Above(v.of, i, v.sure[i]))' >= Passed(v)
    <3>1. Cardinality(Above(v.of, i, v.sure[i])) >= Passed(v) /\ v.sure[i] \in Int
      BY <2>4 DEF WalkOK, Missed
    <3>2. Cardinality(Above(v.of, i, v.sure[i])) <= Cardinality(Above(v.of, i, v.sure[i])')
      BY <3>1, AboveGrows
    <3>3. Passed(v) \in Nat
      BY PageLimitIs DEF Passed, WalkOK
    <3>4. Cardinality(Above(v.of, i, v.sure[i])) \in Nat
      BY RowsFinite
    <3>5. Cardinality(Above(v.of, i, v.sure[i])') \in Nat
      BY <3>1, AboveGrows
    <3> QED
      BY <3>1, <3>2, <3>3, <3>4, <3>5
  <2> QED
    BY <2>3, <2>4 DEF WalkOK, Missed, Passed
<1> QED
  BY <1>1, <1>2

\* WalkGoes: a step of the reader, which leaves the rows alone.
LEMMA WalkGoes ==
    ASSUME UNCHANGED rows, NEW v, WalkOK(v), walk' = <<v>>
    PROVE  WalkInv'
<1>1. \A u : RowsOf(u)' = RowsOf(u)
  BY DEF RowsOf
<1>2. \A u, i, c : Above(u, i, c)' = Above(u, i, c)
  BY <1>1 DEF Above
<1>3. WalkOK(v)'
  BY <1>1, <1>2 DEF WalkOK, Missed, Passed
<1>4. Len(walk') = 1 /\ walk'[1] = v
  OBVIOUS
<1> QED
  BY <1>3, <1>4 DEF WalkInv

\* PageOpens: what a page of its own makes of the fields of the walk.
LEMMA PageOpens ==
    ASSUME NEW w, {"of", "open", "shown", "sure"} \subseteq DOMAIN w,
           NEW n, NEW v, v = Over(NewPage(n), w)
    PROVE  /\ v.offset = n /\ v.entries = {} /\ v.total = -1
           /\ ~v.fetched /\ v.fetched \in BOOLEAN
           /\ v.of = w.of /\ v.open = w.open /\ v.shown = w.shown /\ v.sure = w.sure
BY DEF Over, NewPage

\* PageFields: a walk has its fields on every page.
LEMMA PageFields ==
    ASSUME NEW w, NEW n, DOMAIN w \union {"offset", "entries", "fetched", "total"} = WalkFields
    PROVE  DOMAIN Over(NewPage(n), w) = WalkFields
BY DEF Over, NewPage

\* OpenStep: at the start nothing is fetched, and any row may come.
LEMMA OpenStep ==
    ASSUME TypeInv, NEW u \in Users, OpenHistory(u)
    PROVE  WalkInv'
<1> DEFINE w == [of |-> u, open |-> TRUE, shown |-> {}, sure |-> [i \in RowsOf(u) |-> rows[i].at]]
<1>1. /\ DOMAIN w = {"of", "open", "shown", "sure"}
      /\ w.of = u /\ w.open = TRUE /\ w.shown = {}
      /\ w.sure = [i \in RowsOf(u) |-> rows[i].at]
  OBVIOUS
<1>2. walk' = <<Over(NewPage(0), w)>> /\ UNCHANGED rows
  BY DEF OpenHistory, server
<1> HIDE DEF w
<1>11. PICK v : v = Over(NewPage(0), w)
  OBVIOUS
<1>3. /\ v.offset = 0 /\ v.entries = {} /\ v.total = -1
      /\ ~v.fetched /\ v.fetched \in BOOLEAN
      /\ v.of = w.of /\ v.open = w.open /\ v.shown = w.shown /\ v.sure = w.sure
  BY <1>1, <1>11, PageOpens
<1>4. DOMAIN v = WalkFields
  <2>1. DOMAIN w \union {"offset", "entries", "fetched", "total"} = WalkFields
    BY <1>1 DEF WalkFields
  <2> QED
    BY <1>11, <2>1, PageFields
<1>5. v.of = u /\ v.open = TRUE /\ v.sure = [i \in RowsOf(u) |-> rows[i].at]
  BY <1>1, <1>3
<1>6. \A i \in RowsOf(u) : rows[i].at \in Int
  BY RowsTyped DEF RowsOf
<1>7. \A i, c : Cardinality(Above(u, i, c)) >= 0
  BY RowsFinite
<1>8. \A i \in DOMAIN v.sure : v.sure[i] = rows[i].at
  BY <1>5
<1>9. Passed(v) = 0 /\ DOMAIN v.sure = RowsOf(u) /\ ~v.fetched /\ v.open
  BY <1>3, <1>5 DEF Passed
<1>10. WalkOK(v)
  <2>1. v.offset \in Nat /\ v.total \in Int
    BY <1>3
  <2>3. v.fetched \in BOOLEAN /\ v.open \in BOOLEAN
    <3>1. v.open \in BOOLEAN
      BY <1>5, Zenon
    <3> QED
      BY <1>3, <3>1
  <2>2. DOMAIN v.sure \subseteq RowsOf(v.of) /\ \A i \in DOMAIN v.sure : v.sure[i] \in Int
    BY <1>5, <1>6, <1>8, <1>9
  <2> QED
    <3>1. \A i \in Missed(v) : Cardinality(Above(v.of, i, v.sure[i])) >= Passed(v)
      <4> SUFFICES ASSUME NEW i \in Missed(v)
                   PROVE  Cardinality(Above(v.of, i, v.sure[i])) >= 0
        BY <1>9
      <4> QED
        BY <1>5, <1>7
    <3> QED
      BY <1>3, <1>4, <1>9, <2>1, <2>2, <2>3, <3>1, Zenon DEF WalkOK
<1> QED
  BY <1>2, <1>10, <1>11, WalkGoes

\* CountStep: the rows are counted.
LEMMA CountStep ==
    ASSUME TypeInv, WalkInv, CountHistory
    PROVE  WalkInv'
<1> DEFINE w == walk[1]
           n == Cardinality(RowsOf(w.of))
           v == [w EXCEPT !.total = n]
<1>1. walk' = <<v>> /\ UNCHANGED rows /\ w.open
  BY DEF CountHistory, Reading, server
<1>2. WalkOK(w)
  BY DEF WalkInv, CountHistory, Reading
<1>3. n \in Nat
  BY RowsFinite
<1> HIDE DEF n, w
<1>4. /\ DOMAIN v = WalkFields /\ v.total = n
      /\ \A field \in WalkFields \ {"total"} : v[field] = w[field]
  BY <1>2 DEF WalkOK, WalkFields
<1> HIDE DEF v
<1>5. /\ v.offset = w.offset /\ v.entries = w.entries /\ v.fetched = w.fetched /\ v.of = w.of
      /\ v.open = w.open /\ v.shown = w.shown /\ v.sure = w.sure
  BY <1>4 DEF WalkFields
<1>6. Missed(v) = Missed(w) /\ Passed(v) = Passed(w)
  BY <1>5 DEF Missed, Passed
<1>7. ASSUME NEW i \in Missed(w) PROVE n > Passed(w)
  <2> DEFINE above == Above(w.of, i, w.sure[i])
             all == RowsOf(w.of)
  <2>1. i \in all /\ Cardinality(above) >= Passed(w)
    BY <1>1, <1>2, <1>7 DEF WalkOK, Missed
  <2>2. above \subseteq all \ {i} /\ IsFiniteSet(all)
    BY RowsFinite DEF Above
  <2>3. Cardinality(all \ {i}) = n - 1 /\ IsFiniteSet(all \ {i})
    BY <2>1, <2>2, FS_RemoveElement DEF n
  <2>4. Cardinality(above) <= n - 1 /\ Cardinality(above) \in Nat
    BY <2>2, <2>3, FS_Subset, RowsFinite
  <2>5. Passed(w) \in Nat
    BY <1>2, PageLimitIs DEF Passed, WalkOK
  <2> QED
    BY <1>3, <2>1, <2>4, <2>5
<1>8. WalkOK(v)
  BY <1>1, <1>2, <1>3, <1>4, <1>5, <1>6, <1>7 DEF WalkOK
<1> QED
  BY <1>1, <1>8, WalkGoes

\* NextStep: what was not on the pages so far comes after them, and is counted, so that
\* the last page is not the last while anything is missed.
LEMMA NextStep ==
    ASSUME TypeInv, WalkInv, NextPage
    PROVE  WalkInv'
<1> DEFINE w == walk[1]
           s == [w EXCEPT !.shown = @ \union w.entries]
           next == w.offset + PageLimit
<1>1. /\ UNCHANGED rows /\ w.open /\ w.fetched /\ w.total # -1
      /\ walk' = <<IF s.offset + PageLimit < s.total THEN Over(NewPage(s.offset + PageLimit), s)
                   ELSE [s EXCEPT !.open = FALSE]>>
  BY DEF NextPage, Reading, server
<1>2. WalkOK(w)
  BY DEF WalkInv, NextPage, Reading
<1> HIDE DEF w
<1>3. /\ DOMAIN s = WalkFields /\ s.shown = w.shown \union w.entries
      /\ \A field \in WalkFields \ {"shown"} : s[field] = w[field]
  BY <1>2 DEF WalkOK, WalkFields
<1> HIDE DEF s
<1>4. /\ s.offset = w.offset /\ s.entries = w.entries /\ s.fetched = w.fetched /\ s.of = w.of
      /\ s.open = w.open /\ s.total = w.total /\ s.sure = w.sure
  BY <1>3 DEF WalkFields
<1>5. next = Passed(w) /\ next \in Nat
  BY <1>1, <1>2, PageLimitIs DEF Passed, WalkOK
<1>6. CASE next < w.total
  <2>12. PICK v : v = Over(NewPage(next), s)
    OBVIOUS
  <2>1. walk' = <<v>>
    BY <1>1, <1>4, <1>6, <2>12
  <2>2. /\ v.offset = next /\ v.entries = {} /\ v.total = -1
        /\ ~v.fetched /\ v.fetched \in BOOLEAN
        /\ v.of = s.of /\ v.open = s.open /\ v.shown = s.shown /\ v.sure = s.sure
    <3>1. {"of", "open", "shown", "sure"} \subseteq DOMAIN s
      BY <1>3 DEF WalkFields
    <3> QED
      BY <2>12, <3>1, PageOpens
  <2> HIDE DEF next
  <2>3. DOMAIN v = WalkFields
    <3>1. DOMAIN s \union {"offset", "entries", "fetched", "total"} = WalkFields
      BY <1>3 DEF WalkFields
    <3> QED
      BY <2>12, <3>1, PageFields
  <2>4. /\ v.of = w.of /\ v.open = w.open /\ v.sure = w.sure
        /\ v.shown = w.shown \union w.entries
    BY <1>3, <1>4, <2>2
  <2>5. Missed(v) = Missed(w) /\ Passed(v) = Passed(w)
    BY <1>5, <2>2, <2>4 DEF Missed, Passed
  <2>6. v.offset \in Nat /\ v.total \in Int /\ ~v.fetched
    BY <1>5, <2>2
  <2>11. v.fetched \in BOOLEAN
    BY <2>2
  <2>7. DOMAIN v.sure \subseteq RowsOf(v.of) /\ \A i \in DOMAIN v.sure : v.sure[i] \in Int
    BY <1>2, <2>4 DEF WalkOK
  <2>8. \A i \in Missed(v) : Cardinality(Above(v.of, i, v.sure[i])) >= Passed(v)
    BY <1>1, <1>2, <2>4, <2>5 DEF WalkOK
  <2>9. v.open \in BOOLEAN
    BY <1>2, <2>4 DEF WalkOK
  <2>10. WalkOK(v)
    BY <1>1, <2>2, <2>3, <2>4, <2>6, <2>7, <2>8, <2>9, <2>11, Zenon DEF WalkOK
  <2> QED
    BY <1>1, <2>1, <2>10, WalkGoes
<1>7. CASE ~(next < w.total)
  <2> DEFINE v == [s EXCEPT !.open = FALSE]
  <2>1. walk' = <<v>>
    BY <1>1, <1>4, <1>7
  <2>2. /\ DOMAIN v = WalkFields /\ v.open = FALSE
        /\ \A field \in WalkFields \ {"open"} : v[field] = s[field]
    BY <1>3 DEF WalkFields
  <2> HIDE DEF v
  <2>3. /\ v.offset = w.offset /\ v.entries = w.entries /\ v.fetched = w.fetched /\ v.of = w.of
        /\ v.total = w.total /\ v.sure = w.sure /\ v.shown = w.shown \union w.entries
    BY <1>3, <1>4, <2>2 DEF WalkFields
  <2>4. w.total \in Int
    BY <1>2 DEF WalkOK
  <2>5. Missed(w) = {}
    BY <1>1, <1>2, <1>5, <1>7, <2>4 DEF WalkOK
  <2>6. DOMAIN v.sure \subseteq v.shown
    BY <2>3, <2>5 DEF Missed
  <2>7. WalkOK(v)
    BY <1>1, <1>2, <2>2, <2>3, <2>6 DEF WalkOK
  <2> QED
    BY <1>1, <2>1, <2>7, WalkGoes
<1> QED
  BY <1>6, <1>7

\* FetchStep: a page shows the rows at its places, as they are when it is fetched.
LEMMA FetchStep ==
    ASSUME TypeInv, WalkInv, FetchHistory
    PROVE  WalkInv'
<1> DEFINE w == walk[1]
           all == RowsOf(w.of)
           n == Cardinality(all)
           kept == Undisturbed
           sure == [i \in kept |-> w.sure[i]]
<1>1. /\ UNCHANGED rows /\ w.open /\ ~w.fetched
      /\ \E entries \in HistoryPages(w.of, PageLimit, w.offset) :
           walk' = <<[w EXCEPT !.entries = entries, !.fetched = TRUE,
                               !.sure = [i \in Undisturbed |-> @[i]]]>>
  BY DEF FetchHistory, Reading, server
<1>2. WalkOK(w)
  BY DEF WalkInv, FetchHistory, Reading
<1>3. PICK q \in SetToSeqs(all) :
        /\ \A m, k \in DOMAIN q : m < k => Newest(q[m], q[k])
        /\ walk' = <<[w EXCEPT !.entries = Range(SubSeq(q, w.offset + 1,
                                                         Min({w.offset + PageLimit, Len(q)}))),
                               !.fetched = TRUE, !.sure = sure]>>
  BY <1>1 DEF HistoryPages
<1> DEFINE page == Range(SubSeq(q, w.offset + 1, Min({w.offset + PageLimit, Len(q)})))
           v == [w EXCEPT !.entries = page, !.fetched = TRUE, !.sure = sure]
<1>4. IsFiniteSet(all) /\ n \in Nat
  BY RowsFinite
<1>5. kept = IF w.total \notin {-1, n} THEN {}
             ELSE {i \in DOMAIN w.sure :
                     /\ rows[i].at = w.sure[i]
                     /\ \A j \in RowsOf(w.of) \ {i} : rows[j].at # rows[i].at}
  BY DEF Undisturbed
<1>6. walk' = <<v>>
  BY <1>3
<1> HIDE DEF w, n, kept, page, all
<1>7. /\ DOMAIN v = WalkFields
      /\ v.entries = page /\ v.fetched /\ v.fetched \in BOOLEAN /\ v.sure = sure
      /\ v.offset = w.offset /\ v.total = w.total /\ v.of = w.of /\ v.open = w.open
      /\ v.shown = w.shown
  BY <1>2 DEF WalkOK, WalkFields
<1> HIDE DEF v
<1>8. kept \subseteq DOMAIN w.sure /\ DOMAIN sure = kept /\ \A i \in kept : sure[i] = w.sure[i]
  BY <1>5
<1>9. w.offset \in Nat /\ Passed(w) = w.offset /\ Passed(v) = w.offset + PageLimit
      /\ PageLimit \in Nat
  BY <1>1, <1>2, <1>7, PageLimitIs DEF WalkOK, Passed
<1>10. ASSUME NEW i \in kept, i \notin w.shown, i \notin page
       PROVE  /\ Cardinality(Above(w.of, i, w.sure[i])) >= w.offset + PageLimit
              /\ w.total # -1 => w.total > w.offset + PageLimit
  <2> DEFINE at == [j \in all |-> rows[j].at]
             above == {j \in all \ {i} : at[j] > at[i]}
             place == Cardinality(above) + 1
  <2>1. i \in all /\ w.sure[i] = rows[i].at /\ \A j \in all \ {i} : rows[j].at # rows[i].at
    BY <1>2, <1>5, <1>8, <1>10 DEF WalkOK, all
  <2>2. w.total \in {-1, n}
    BY <1>5, <1>10
  <2>3. \A j \in all : at[j] = rows[j].at /\ at[j] \in Int
    BY RowsTyped DEF all, RowsOf
  <2> HIDE DEF at
  <2>4. Above(w.of, i, w.sure[i]) = above
    BY <2>1, <2>3 DEF Above, all
  <2>5. \A m, k \in DOMAIN q : m < k => at[q[m]] >= at[q[k]]
    <3>1. \A m \in DOMAIN q : q[m] \in all
      BY DEF SetToSeqs
    <3> QED
      BY <1>3, <2>3, <3>1 DEF Newest
  <2>6. \A j \in all \ {i} : at[j] # at[i]
    BY <2>1, <2>3
  <2>7. place \in 1 .. Cardinality(all) /\ q[place] = i
    BY <1>4, <2>1, <2>3, <2>5, <2>6, PlaceOf
  <2>8. Cardinality(above) \in Nat
    BY <2>4, RowsFinite
  <2>9. Cardinality(above) >= w.offset
    <3>1. w.entries = {}
      BY <1>1, <1>2 DEF WalkOK
    <3>2. i \in Missed(w)
      BY <1>8, <1>10, <3>1 DEF Missed
    <3> QED
      BY <1>1, <1>2, <1>9, <2>4, <3>2 DEF WalkOK
  <2> HIDE DEF above
  <2>10. ~(place <= w.offset + PageLimit)
    <3> SUFFICES ASSUME place <= w.offset + PageLimit PROVE FALSE
      OBVIOUS
    <3>1. q \in [1 .. n -> all]
      BY DEF SetToSeqs, n
    <3>2. w.offset < place
      BY <1>9, <2>8, <2>9
    <3>3. q[place] \in page
      BY <1>4, <1>9, <2>7, <3>1, <3>2, OnPage DEF page, n
    <3> QED
      BY <1>10, <2>7, <3>3
  <2>11. Cardinality(above) >= w.offset + PageLimit
    BY <1>9, <2>8, <2>10
  <2>12. w.total # -1 => w.total > w.offset + PageLimit
    BY <1>4, <1>9, <2>2, <2>7, <2>8, <2>11 DEF n
  <2> QED
    BY <2>4, <2>11, <2>12
<1>11. Missed(v) \subseteq kept /\ \A i \in Missed(v) : i \notin w.shown /\ i \notin page
  BY <1>7, <1>8 DEF Missed
<1>12. WalkOK(v)
  <2>1. v.offset \in Nat /\ v.total \in Int /\ v.fetched \in BOOLEAN
    BY <1>2, <1>7 DEF WalkOK
  <2>2. v.open /\ v.open \in BOOLEAN
    BY <1>1, <1>2, <1>7 DEF WalkOK
  <2>3. DOMAIN v.sure \subseteq RowsOf(v.of) /\ \A i \in DOMAIN v.sure : v.sure[i] \in Int
    BY <1>2, <1>7, <1>8 DEF WalkOK
  <2>4. \A i \in Missed(v) :
          /\ Cardinality(Above(v.of, i, v.sure[i])) >= Passed(v)
          /\ v.fetched /\ v.total # -1 => v.total > Passed(v)
    BY <1>7, <1>8, <1>9, <1>10, <1>11
  <2> QED
    BY <1>7, <2>1, <2>2, <2>3, <2>4, Zenon DEF WalkOK
<1> QED
  BY <1>1, <1>6, <1>12, WalkGoes

\* WalkStep: every step keeps what is known of the walk.
LEMMA WalkStep == TypeInv /\ WalkInv /\ [Next]_vars => WalkInv'
<1> SUFFICES ASSUME TypeInv, WalkInv, [Next]_vars PROVE WalkInv'
  OBVIOUS
<1>1. TypeInv' /\ RowsGrow
  BY TypeStep
<1>2. ASSUME UNCHANGED walk PROVE WalkInv'
  BY <1>1, <1>2, WalkKeeps
<1>3. ASSUME NEW u \in Users, OpenHistory(u) PROVE WalkInv'
  BY <1>3, OpenStep
<1>4. CASE UNCHANGED vars
  BY <1>2, <1>4 DEF vars
<1>5. CASE Next
  <2>1. ASSUME NEW r \in Runs, Cli(r) PROVE UNCHANGED walk
    BY <2>1 DEF Cli, MaybeFundSenderAccount, TopupAnswered, SendRequest, PostData, RefusePost,
                PollStatus
  <2>2. ASSUME Bundler PROVE UNCHANGED walk
    BY <2>2 DEF Bundler, SyncTopup, Publish, TouchFinalized, Evict, MarkCancelled, MarkFinalized
  <2>3. ASSUME NEW path, NEW cancel, DeleteData(path, cancel) PROVE UNCHANGED walk
    BY <2>3 DEF DeleteData, MarkCancelled
  <2>4. ASSUME NEW k \in DOMAIN topups, ConfirmTopup(k) PROVE UNCHANGED walk
    BY <2>4 DEF ConfirmTopup
  <2>5. ASSUME Tick PROVE UNCHANGED walk
    BY <2>5 DEF Tick
  <2> QED
    BY <1>2, <1>3, <1>5, <2>1, <2>2, <2>3, <2>4, <2>5, FetchStep, CountStep, NextStep DEF Next
<1> QED
  BY <1>4, <1>5

\* ClientInvHolds: in every run the rows are typed, and what a reader has not been shown
\* comes after the pages they have fetched.
THEOREM ClientInvHolds == Spec => [](TypeInv /\ WalkInv)
<1>1. Init => TypeInv /\ WalkInv
  BY TypeInit DEF Init, WalkInv
<1>2. TypeInv /\ WalkInv /\ [Next]_vars => TypeInv' /\ WalkInv'
  BY TypeStep, WalkStep
<1> QED
  BY <1>1, <1>2, PTL DEF Spec

\* UndisturbedIsShownHolds: a reader who follows the links of the explorer's address pages
\* (AddressPageQuery, get_address, fetch_history_for_address) to the last one has been shown
\* every undisturbed intent, whatever is inserted, updated, cancelled or finalized between
\* the pages, for every page size and every history.
THEOREM UndisturbedIsShownHolds == Spec => []UndisturbedIsShown
<1>1. WalkInv => UndisturbedIsShown
  <2> SUFFICES ASSUME WalkInv, NEW w \in Range(walk), ~w.open
               PROVE  DOMAIN w.sure \subseteq w.shown
    BY DEF UndisturbedIsShown
  <2>1. walk # <<>>
    BY DEF Range
  <2>2. PICK v : v = walk[1] /\ walk = <<v>> /\ WalkOK(v)
    BY <2>1 DEF WalkInv
  <2>3. w = v
    BY <2>2 DEF Range
  <2> QED
    BY <2>2, <2>3 DEF WalkOK
<1> QED
  BY <1>1, ClientInvHolds, PTL

\* RowsGrowHolds: no step removes a row, gives it to another user or sets its updated_at
\* back.
THEOREM RowsGrowHolds == Spec => [][RowsGrow]_vars
<1>1. TypeInv /\ [Next]_vars => [RowsGrow]_vars
  BY TypeStep
<1> QED
  BY <1>1, ClientInvHolds, PTL DEF Spec
================================================================================
