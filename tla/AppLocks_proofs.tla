---------------------------- MODULE AppLocks_proofs ----------------------------
(***************************************************************************)
(* Proofs about AppLocks, for any number of tasks of any kind.  The        *)
(* argument is the one of lock ordering: a task that follows the order     *)
(* sync, tracker waits for tracker with nothing of tracker in its hands,   *)
(* and for sync with nothing in its hands, so that the holder of a lock    *)
(* nobody can get is either not waiting or out of order.                   *)
(***************************************************************************)
EXTENDS AppLocks, SequenceTheorems, TLAPS

\* The spans that take sync before tracker, and each lock once.
OrderedSpans == {ReadSync, WriteSync, ReadTracker, WriteTracker, ReadSyncThenTracker}

Requests == {"post", "sync_route"}

\* Only the two requests have other spans before them.
KindOrdered == \A t \in Tasks : Kind[t] \notin Requests => work[t] \in Seq(OrderedSpans)

LInv == TypeOK /\ KindOrdered

\* Every span is a non-empty sequence of requests for one of the two locks.
LEMMA SpanShape ==
    \A s \in Spans : Len(s) \in Nat /\ (\A i \in 1 .. Len(s) : s[i].lock \in Locks)
<1> DEFINE Request == [lock : Locks, mode : {"read", "write"}]
<1>1. /\ Read("sync") \in Request /\ Write("sync") \in Request
      /\ Read("tracker") \in Request /\ Write("tracker") \in Request
  BY DEF Read, Write, Locks
<1>2. ASSUME NEW s \in Spans
      PROVE  s \in Seq(Request)
  <2> HIDE DEF Request
  <2>1. \A a, b \in Request : <<a>> \in Seq(Request) /\ <<a, b>> \in Seq(Request)
    OBVIOUS
  <2> QED
    BY <1>1, <2>1, Zenon DEF Spans, ReadSync, WriteSync, ReadTracker, WriteTracker, ReadSyncThenTracker,
                PendingTotalDataLen, GetSync
<1>3. \A r \in Request : r.lock \in Locks
  OBVIOUS
<1> QED
  <2> HIDE DEF Request
  <2> QED
    BY <1>2, <1>3, ElementOfSeq, LenProperties

\* A sequence of ordered spans is a sequence of spans.
LEMMA OrderedAreSpans == OrderedSpans \subseteq Spans /\ Seq(OrderedSpans) \subseteq Seq(Spans)
<1>1. OrderedSpans \subseteq Spans
  BY DEF OrderedSpans, Spans
<1> QED
  BY <1>1

\* The background tasks, and the requests that are not among the two, take the locks
\* in order all along their way.
LEMMA PathsOrdered ==
    ASSUME NEW kind \in (BackgroundTasks \union Routes) \ Requests
    PROVE  Paths(kind) \subseteq Seq(OrderedSpans)
<1> DEFINE O == OrderedSpans
<1>1. /\ ReadSync \in O /\ WriteSync \in O /\ ReadTracker \in O /\ WriteTracker \in O
      /\ ReadSyncThenTracker \in O
  BY DEF OrderedSpans
<1>2. /\ Packing \in Seq(O) /\ <<PendingTxCount, GetNextAvailableNonce>> \in Seq(O)
      /\ RegisterSentBlobTx \in Seq(O) /\ <<SyncDataIntents>> \in Seq(O)
      /\ <<DetectNonceDeadlock, RegisterSentSelfTransfer>> \in Seq(O)
      /\ <<ReadSync, ReadSync, WriteSync>> \in Seq(O) /\ MaybeAdvanceAnchorBlock \in Seq(O)
  <2> HIDE DEF O
  <2> QED
    BY <1>1 DEF Packing, RegisterSentBlobTx, MaybeAdvanceAnchorBlock, AssertNodeSynced,
                SyncDataIntents, HeadGas, AvailableForPacking, PendingTxCount,
                GetNextAvailableNonce, DetectNonceDeadlock, RegisterSentSelfTransfer
<1>3. /\ EvictStaleIntents \in Seq(O) /\ ConsistencyChecks \in Seq(O)
      /\ <<HeadGas>> \in Seq(O) /\ CancelDataIntent \in Seq(O)
      /\ <<AvailableForPacking>> \in Seq(O) /\ <<BalanceOfUser>> \in Seq(O)
      /\ GetHome \in Seq(O) /\ CollectMetrics \in Seq(O)
  <2> HIDE DEF O
  <2> QED
    BY <1>1 DEF EvictStaleIntents, ConsistencyChecks, HeadGas, CancelDataIntent,
                AvailableForPacking, BalanceOfUser, GetHome, CollectMetrics
<1>4. \A a, b \in Seq(O) : a \o b \in Seq(O)
  BY ConcatProperties
<1>5. BlobTx \in Seq(O) /\ SelfTransfer \in Seq(O) /\ SyncBlock \in Seq(O)
  <2> HIDE DEF O
  <2> QED
    BY <1>2, <1>4 DEF BlobTx, SelfTransfer, SyncBlock
<1> QED
  <2> HIDE DEF O
  <2>1. Paths(kind) \subseteq Seq(O)
    BY <1>3, <1>5 DEF Paths, BackgroundTasks, Routes, Requests
  <2> QED
    BY <2>1 DEF O

\* All paths are sequences of the spans listed.
LEMMA PathsTyped ==
    ASSUME NEW kind \in BackgroundTasks \union Routes
    PROVE  Paths(kind) \subseteq Seq(Spans)
<1>1. CASE kind \notin Requests
  BY <1>1, PathsOrdered, OrderedAreSpans DEF Requests
<1>2. /\ GetSync \in Spans /\ PendingTotalDataLen \in Spans
      /\ SyncDataIntents \in Spans /\ BalanceOfUser \in Spans
  BY DEF Spans, BalanceOfUser, SyncDataIntents
<1>3. CASE kind = "sync_route"
  <2>1. Paths(kind) = {<<GetSync>>}
    BY <1>3 DEF Paths
  <2> QED
    BY <2>1, <1>2
<1>4. CASE kind = "post"
  <2>1. Paths(kind) = {<<PendingTotalDataLen, SyncDataIntents, BalanceOfUser>>}
    BY <1>4 DEF Paths, PostData
  <2> QED
    BY <2>1, <1>2
<1> QED
  BY <1>1, <1>3, <1>4 DEF Requests

-----------------------------------------------------------------------------

\* What a step leaves of the facts about a task it does not move.
LEMMA HeadOfWork ==
    ASSUME TypeOK, NEW t \in Tasks, Active(t)
    PROVE  /\ Span(t) \in Spans /\ Len(Span(t)) \in Nat
           /\ Tail(work[t]) \in Seq(Spans)
           /\ got[t] \in Nat /\ got[t] <= Len(Span(t))
<1>1. work[t] \in Seq(Spans) /\ work[t] # <<>>
  BY DEF TypeOK, Active
<1>2. Head(work[t]) \in Spans /\ Tail(work[t]) \in Seq(Spans)
  BY <1>1, HeadTailProperties
<1> QED
  BY <1>2, SpanShape DEF Span, TypeOK

\* A new round begins without guards and outside all queues.
LEMMA BeginStep ==
    ASSUME LInv, NEW t \in Tasks, Begin(t)
    PROVE  LInv'
<1>1. Kind[t] \in BackgroundTasks \union Routes
  BY KindAssumption
<1>2. PICK path \in Paths(Kind[t]) : work' = [work EXCEPT ![t] = path]
  BY DEF Begin
<1>3. path \in Seq(Spans) /\ (Kind[t] \notin Requests => path \in Seq(OrderedSpans))
  BY <1>1, PathsTyped, PathsOrdered DEF Requests
<1>4. /\ work' \in [Tasks -> Seq(Spans)] /\ work'[t] = path
      /\ \A u \in Tasks \ {t} : work'[u] = work[u]
  BY <1>2, <1>3 DEF LInv, TypeOK
<1>5. got' = got /\ queue' = queue /\ got[t] = 0 /\ ~Active(t)
  BY DEF Begin, LInv, TypeOK
<1>6. KindOrdered'
  BY <1>3, <1>4 DEF LInv, KindOrdered
<1>7. \A u \in Tasks : IF Active(u)' THEN got'[u] <= Len(Span(u)') ELSE got'[u] = 0
  <2>1. ASSUME Active(t)' PROVE 0 <= Len(Span(t)')
    <3>1. Head(path) \in Spans
      BY <1>3, <1>4, <2>1, HeadTailProperties DEF Active
    <3> QED
      BY <3>1, <1>4, SpanShape DEF Span
  <2>2. \A u \in Tasks \ {t} : (Active(u)' <=> Active(u)) /\ Span(u)' = Span(u)
    BY <1>4 DEF Active, Span
  <2> QED
    BY <1>5, <2>1, <2>2 DEF LInv, TypeOK
<1>8. \A l \in Locks : \A u \in Range(queue'[l]) :
        Active(u)' /\ got'[u] < Len(Span(u)') /\ Wanted(u)'.lock = l
  <2> SUFFICES ASSUME NEW l \in Locks, NEW u \in Range(queue[l])
               PROVE  Active(u)' /\ got'[u] < Len(Span(u)') /\ Wanted(u)'.lock = l
    BY <1>5
  <2>1. Active(u) /\ got[u] < Len(Span(u)) /\ Wanted(u).lock = l
    BY DEF LInv, TypeOK
  <2>2. u \in Tasks
    BY RangeOfSeq DEF LInv, TypeOK
  <2>3. u # t
    BY <1>5, <2>1
  <2>4. work'[u] = work[u] /\ got'[u] = got[u]
    BY <1>4, <1>5, <2>2, <2>3
  <2> QED
    BY <2>1, <2>4 DEF Active, Span, Wanted
<1> QED
  BY <1>4, <1>5, <1>6, <1>7, <1>8 DEF LInv, TypeOK

\* A task that is in no queue joins one, that of the lock it wants.
LEMMA AskStep ==
    ASSUME LInv, NEW t \in Tasks, Ask(t)
    PROVE  LInv'
<1> DEFINE w == Wanted(t).lock
<1>1. /\ work' = work /\ got' = got /\ Active(t) /\ got[t] < Len(Span(t))
      /\ \A l \in Locks : t \notin Range(queue[l])
      /\ queue' = [queue EXCEPT ![w] = Append(@, t)]
  BY DEF Ask, Waiting
<1>2. w \in Locks
  <2>1. Span(t) \in Spans /\ Len(Span(t)) \in Nat /\ got[t] \in Nat
    BY <1>1, HeadOfWork DEF LInv
  <2>2. got[t] + 1 \in 1 .. Len(Span(t))
    BY <1>1, <2>1
  <2> QED
    BY <2>1, <2>2, SpanShape DEF Wanted
<1> HIDE DEF w
<1>3. /\ queue' \in [Locks -> Seq(Tasks)]
      /\ queue'[w] = Append(queue[w], t)
      /\ \A l \in Locks \ {w} : queue'[l] = queue[l]
  BY <1>1, <1>2 DEF LInv, TypeOK
<1>4. queue[w] \in Seq(Tasks) /\ IsInjective(queue[w])
  BY <1>2 DEF LInv, TypeOK
<1>5. Range(queue'[w]) = Range(queue[w]) \union {t} /\ IsInjective(queue'[w])
  BY <1>1, <1>2, <1>3, <1>4, AppendProperties DEF Range, IsInjective
<1>6. ASSUME NEW l \in Locks
      PROVE  /\ IsInjective(queue'[l])
             /\ \A u \in Range(queue'[l]) :
                  Active(u) /\ got[u] < Len(Span(u)) /\ Wanted(u).lock = l
  <2>1. CASE l = w
    <3>1. Wanted(t).lock = l
      BY <2>1 DEF w
    <3> QED
      BY <1>1, <1>5, <2>1, <3>1 DEF LInv, TypeOK
  <2>2. CASE l # w
    BY <1>3, <2>2 DEF LInv, TypeOK
  <2> QED
    BY <2>1, <2>2
<1> QED
  BY <1>1, <1>3, <1>6 DEF LInv, TypeOK, KindOrdered, Active, Span, Wanted

\* The first of a queue leaves it with one guard more; it is in no other queue.
LEMMA GrantStep ==
    ASSUME LInv, NEW l \in Locks, Grant(l)
    PROVE  LInv'
<1> DEFINE t == Head(queue[l])
<1>1. /\ work' = work /\ queue[l] # <<>>
      /\ got' = [got EXCEPT ![t] = @ + 1]
      /\ queue' = [queue EXCEPT ![l] = Tail(@)]
  BY DEF Grant, Grantable
<1>2. queue[l] \in Seq(Tasks) /\ IsInjective(queue[l])
  BY DEF LInv, TypeOK
<1>3. /\ t \in Tasks /\ t \in Range(queue[l]) /\ t \notin Range(Tail(queue[l]))
      /\ Range(Tail(queue[l])) \subseteq Range(queue[l])
      /\ Tail(queue[l]) \in Seq(Tasks) /\ IsInjective(Tail(queue[l]))
  BY <1>1, <1>2, HeadTailProperties DEF Range, IsInjective
<1>4. Active(t) /\ got[t] < Len(Span(t)) /\ Wanted(t).lock = l
  BY <1>3 DEF LInv, TypeOK
<1>5. got[t] \in Nat /\ Len(Span(t)) \in Nat
  BY <1>3, <1>4, HeadOfWork DEF LInv
<1> HIDE DEF t
<1>6. /\ got' \in [Tasks -> Nat] /\ got'[t] = got[t] + 1
      /\ \A u \in Tasks \ {t} : got'[u] = got[u]
  BY <1>1, <1>3, <1>5 DEF LInv, TypeOK
<1>7. /\ queue' \in [Locks -> Seq(Tasks)] /\ queue'[l] = Tail(queue[l])
      /\ \A k \in Locks \ {l} : queue'[k] = queue[k]
  BY <1>1, <1>3 DEF LInv, TypeOK
<1>8. ASSUME NEW k \in Locks
      PROVE  /\ IsInjective(queue'[k])
             /\ Range(queue'[k]) \subseteq Range(queue[k]) \ {t}
  <2>1. CASE k = l
    BY <1>3, <1>7, <2>1
  <2>2. CASE k # l
    <3>1. t \notin Range(queue[k])
      BY <1>4, <2>2 DEF LInv, TypeOK
    <3> QED
      BY <1>7, <2>2, <3>1 DEF LInv, TypeOK
  <2> QED
    BY <2>1, <2>2
<1>9. ASSUME NEW k \in Locks, NEW u \in Range(queue'[k])
      PROVE  Active(u)' /\ got'[u] < Len(Span(u)') /\ Wanted(u)'.lock = k
  <2>1. u \in Range(queue[k]) /\ u # t
    BY <1>8
  <2>2. u \in Tasks /\ queue[k] \in Seq(Tasks)
    BY <2>1, RangeOfSeq DEF LInv, TypeOK
  <2>3. Active(u) /\ got[u] < Len(Span(u)) /\ Wanted(u).lock = k
    BY <2>1 DEF LInv, TypeOK
  <2> QED
    BY <1>1, <1>6, <2>1, <2>2, <2>3 DEF Active, Span, Wanted
<1>10. \A u \in Tasks : IF Active(u)' THEN got'[u] <= Len(Span(u)') ELSE got'[u] = 0
  BY <1>1, <1>4, <1>5, <1>6 DEF LInv, TypeOK, Active, Span
<1> QED
  BY <1>1, <1>6, <1>7, <1>8, <1>9, <1>10 DEF LInv, TypeOK, KindOrdered

\* A finished span leaves a task without guards, at the start of its next one or idle.
LEMMA FinishStep ==
    ASSUME LInv, NEW t \in Tasks, Finish(t)
    PROVE  LInv'
<1>1. PICK rest \in {<<>>, Tail(work[t])} : work' = [work EXCEPT ![t] = rest]
  BY DEF Finish
<1>2. /\ Active(t) /\ queue' = queue /\ got' = [got EXCEPT ![t] = 0]
      /\ \A l \in Locks : t \notin Range(queue[l])
  BY DEF Finish, Waiting
<1>3. rest \in Seq(Spans)
  BY <1>2, HeadOfWork, EmptySeq DEF LInv
<1>4. Kind[t] \notin Requests => rest \in Seq(OrderedSpans)
  <2> SUFFICES ASSUME Kind[t] \notin Requests PROVE rest \in Seq(OrderedSpans)
    OBVIOUS
  <2>1. work[t] \in Seq(OrderedSpans) /\ work[t] # <<>>
    BY <1>2 DEF LInv, KindOrdered, Active
  <2> QED
    BY <2>1, HeadTailProperties, EmptySeq
<1>5. /\ work' \in [Tasks -> Seq(Spans)] /\ work'[t] = rest
      /\ \A u \in Tasks \ {t} : work'[u] = work[u] /\ got'[u] = got[u]
      /\ got' \in [Tasks -> Nat] /\ got'[t] = 0
  BY <1>1, <1>2, <1>3 DEF LInv, TypeOK
<1>6. ASSUME NEW u \in Tasks
      PROVE  IF Active(u)' THEN got'[u] <= Len(Span(u)') ELSE got'[u] = 0
  <2>1. CASE u # t
    BY <1>5, <2>1 DEF LInv, TypeOK, Active, Span
  <2>2. CASE u = t /\ rest # <<>>
    <3>1. Head(rest) \in Spans
      BY <1>3, <2>2, HeadTailProperties
    <3> QED
      BY <1>5, <2>2, <3>1, SpanShape DEF Span
  <2>3. CASE u = t /\ rest = <<>>
    BY <1>5, <2>3 DEF Active
  <2> QED
    BY <2>1, <2>2, <2>3
<1>7. ASSUME NEW l \in Locks, NEW u \in Range(queue'[l])
      PROVE  Active(u)' /\ got'[u] < Len(Span(u)') /\ Wanted(u)'.lock = l
  <2>1. u \in Range(queue[l]) /\ u # t /\ queue[l] \in Seq(Tasks)
    BY <1>2 DEF LInv, TypeOK
  <2>2. u \in Tasks
    BY <2>1, RangeOfSeq
  <2>3. Active(u) /\ got[u] < Len(Span(u)) /\ Wanted(u).lock = l
    BY <2>1 DEF LInv, TypeOK
  <2> QED
    BY <1>5, <2>1, <2>2, <2>3 DEF Active, Span, Wanted
<1>8. KindOrdered'
  BY <1>4, <1>5 DEF LInv, KindOrdered
<1> QED
  BY <1>2, <1>5, <1>6, <1>7, <1>8 DEF LInv, TypeOK

\* LInv is inductive.
THEOREM LInvHolds == Spec => []LInv
<1>1. Init => LInv
  <2> SUFFICES ASSUME Init PROVE LInv
    OBVIOUS
  <2>1. \A t \in Tasks : work[t] = <<>> /\ got[t] = 0
    BY DEF Init
  <2>2. \A l \in Locks : queue[l] = <<>> /\ IsInjective(queue[l]) /\ Range(queue[l]) = {}
    BY DEF Init, Range, IsInjective
  <2>3. TypeOK
    BY <2>1, <2>2, EmptySeq DEF Init, TypeOK, Active
  <2>4. KindOrdered
    BY <2>1, EmptySeq DEF KindOrdered
  <2> QED
    BY <2>3, <2>4 DEF LInv
<1>2. LInv /\ [Next]_vars => LInv'
  <2> SUFFICES ASSUME LInv, [Next]_vars PROVE LInv'
    OBVIOUS
  <2>1. ASSUME NEW t \in Tasks, Begin(t) PROVE LInv'
    BY <2>1, BeginStep
  <2>2. ASSUME NEW t \in Tasks, Ask(t) PROVE LInv'
    BY <2>2, AskStep
  <2>3. ASSUME NEW t \in Tasks, Finish(t) PROVE LInv'
    BY <2>3, FinishStep
  <2>4. ASSUME NEW l \in Locks, Grant(l) PROVE LInv'
    BY <2>4, GrantStep
  <2>5. CASE UNCHANGED vars
    BY <2>5 DEF LInv, TypeOK, KindOrdered, vars, Active, Span, Wanted
  <2> QED
    BY <2>1, <2>2, <2>3, <2>4, <2>5 DEF Next
<1> QED
  BY <1>1, <1>2, PTL DEF Spec

\* TypeOK of AppLocks: a task waits in one queue at most, for the lock it wants next.
THEOREM TypeCorrect == Spec => []TypeOK
<1>1. LInv => TypeOK
  BY DEF LInv
<1> QED
  BY <1>1, LInvHolds, PTL

-----------------------------------------------------------------------------

\* A task whose span is ordered, and that waits, holds nothing of the lock it wants
\* and nothing of tracker.
LEMMA OrderedWaits ==
    ASSUME LInv, NEW t \in Tasks, Kind[t] \notin Requests
    PROVE  ~OutOfOrder(t)
<1> SUFFICES ASSUME Waiting(t), NEW g \in Held(t)
             PROVE  g.lock # Wanted(t).lock /\ g.lock # "tracker"
  BY DEF OutOfOrder
<1>1. Active(t) /\ got[t] < Len(Span(t))
  BY DEF Waiting, LInv, TypeOK
<1>2. Span(t) \in OrderedSpans
  <2>1. work[t] \in Seq(OrderedSpans) /\ work[t] # <<>>
    BY <1>1 DEF LInv, KindOrdered, Active
  <2> QED
    BY <2>1, HeadTailProperties DEF Span
<1>3. got[t] \in Nat /\ Len(Span(t)) \in Nat
  BY <1>1, HeadOfWork DEF LInv
<1>4. PICK i \in 1 .. got[t] : g = Span(t)[i]
  BY <1>1 DEF Held
<1>5. Span(t) = ReadSyncThenTracker /\ got[t] = 1 /\ i = 1
  <2>1. Len(Span(t)) # 1
    <3>1. Len(Span(t)) > 1
      BY <1>1, <1>3, <1>4
    <3>2. \A n \in Nat : n > 1 => n # 1
      OBVIOUS
    <3> QED
      BY <1>3, <3>1, <3>2
  <2>2. /\ Len(ReadSync) = 1 /\ Len(WriteSync) = 1 /\ Len(ReadTracker) = 1
        /\ Len(WriteTracker) = 1 /\ Len(ReadSyncThenTracker) = 2
    BY DEF ReadSync, WriteSync, ReadTracker, WriteTracker, ReadSyncThenTracker
  <2>3. Span(t) = ReadSyncThenTracker
    BY <1>2, <2>1, <2>2, Zenon DEF OrderedSpans
  <2>4. Len(Span(t)) = 2
    BY <2>2, <2>3
  <2>5. got[t] = 1 /\ i = 1
    BY <1>1, <1>3, <1>4, <2>4
  <2> QED
    BY <2>3, <2>5
<1>6. g = Read("sync") /\ Wanted(t) = Read("tracker")
  BY <1>4, <1>5 DEF Wanted, ReadSyncThenTracker
<1> QED
  BY <1>6 DEF Read

\* In a state without an out-of-order task, some task can go on.
LEMMA OrderedGoesOn ==
    ASSUME LInv, \A t \in Tasks : ~OutOfOrder(t)
    PROVE  ~Hung
<1> SUFFICES ASSUME Hung PROVE FALSE
  OBVIOUS
<1>1. ASSUME NEW l \in Locks, queue[l] # <<>>
      PROVE  \E u \in Tasks : Waiting(u) /\ \E g \in Held(u) : g.lock = l
  <2>1. PICK u \in Tasks : \E g \in Held(u) : g.lock = l
    BY <1>1 DEF Hung, Grantable, Free
  <2>2. Active(u)
    BY <2>1 DEF Held
  <2> QED
    BY <2>1, <2>2 DEF Hung
<1>2. queue["tracker"] = <<>>
  <2> SUFFICES ASSUME queue["tracker"] # <<>> PROVE FALSE
    OBVIOUS
  <2>1. PICK u \in Tasks : Waiting(u) /\ \E g \in Held(u) : g.lock = "tracker"
    BY <1>1 DEF Locks
  <2> QED
    BY <2>1 DEF OutOfOrder
<1>3. ASSUME NEW u \in Tasks, Waiting(u)
      PROVE  Wanted(u).lock = "sync" /\ queue["sync"] # <<>>
  <2>1. u \notin Range(queue["tracker"])
    BY <1>2 DEF Range
  <2>2. u \in Range(queue["sync"])
    BY <1>3, <2>1 DEF Waiting, Locks
  <2>3. Wanted(u).lock = "sync"
    BY <2>2 DEF LInv, TypeOK, Locks
  <2> QED
    BY <2>2, <2>3 DEF Range
<1>4. PICK t \in Tasks : Waiting(t)
  BY DEF Hung
<1>5. PICK u \in Tasks : Waiting(u) /\ \E g \in Held(u) : g.lock = "sync"
  BY <1>1, <1>3, <1>4 DEF Locks
<1> QED
  BY <1>3, <1>5 DEF OutOfOrder

\* HangNeedsRequest: for any number of background tasks and requests, the locks are
\* deadlocked only under a request to post or for the sync status that waits for a
\* lock of sync while it holds a guard.
THEOREM HangNeedsRequestHolds == Spec => []HangNeedsRequest
<1>1. LInv => HangNeedsRequest
  <2> SUFFICES ASSUME LInv, Hung
               PROVE  \E t \in Tasks : Kind[t] \in Requests /\ OutOfOrder(t)
    BY DEF HangNeedsRequest, Requests
  <2>1. PICK t \in Tasks : OutOfOrder(t)
    BY OrderedGoesOn
  <2> QED
    BY <2>1, OrderedWaits
<1> QED
  BY <1>1, LInvHolds, PTL

================================================================================
