-------------------------- MODULE ScanStreamProofs --------------------------
(***************************************************************************)
(* ScanStream for every partition, limit and channel capacity: the types,  *)
(* the order of the rows, the bound on the channel, the metrics, the       *)
(* errors, and the implementation of RowStream.                            *)
(*                                                                         *)
(* The inductive invariant follows a row from the task that selects it     *)
(* (WhereTheTaskStands) through the limit (WhatTheLimitKeeps) and the      *)
(* queue (WhatTheQueueHolds) to the engine (WhatTheStreamSaid).            *)
(***************************************************************************)
EXTENDS ScanStream, TLAPS

Streaming == mode = "streaming"
Buffered == mode = "buffered"
Ended == prod \in {"sendFinished", "sendFailed", "exit", "joined"}

WhereTheTaskStands ==
  /\ prod = "send" => /\ ~stopped /\ task > 0
                      /\ batch.lo = materialized
                      /\ batch.hi = Cut(materialized, EndOf(task))
                      /\ materialized = EndOf(task - 1)
  /\ prod \in {"files", "decode"} /\ ~stopped => materialized = EndOf(task)
  /\ prod = "decode" => ~stopped /\ task < Len(scan.ends)
  /\ materialized <= Total
  /\ failed => prod \in {"sendFailed", "exit", "joined"}
  /\ prod = "sendFailed" => failed
  /\ prod \in {"sendFinished", "sendFailed"} => Streaming

\* While the stream has a reader, the limit less what was handed to the queue
\* is what remains of it.
WhatTheLimitKeeps ==
  /\ Buffered => fetch = NoLimit
  /\ remaining = NoLimit <=> fetch = NoLimit
  /\ remaining = 0 => stopped
  /\ cons # "dropped" =>
       IF fetch = NoLimit THEN ~stopped
       ELSE /\ remaining = fetch - materialized
            /\ stopped <=> remaining = 0
  /\ Buffered => ~stopped
  /\ cons # "dropped" /\ Ended /\ ~failed =>
       materialized = Wanted /\ recorded = materialized

IsBatch(i) == queue[i].kind = "batch"
LastBatch == IF Len(queue) > 0 /\ ~IsBatch(Len(queue)) THEN Len(queue) - 1
                                                        ELSE Len(queue)

WhatTheQueueHolds ==
  /\ \A i \in 1..Len(queue) :
       ~IsBatch(i) => /\ i = Len(queue)
                      /\ prod \in {"exit", "joined"} /\ Streaming
                      /\ failed <=> queue[i] = Failed
  /\ cons # "dropped" =>
       /\ materialized = IF LastBatch = 0 THEN delivered
                                          ELSE queue[LastBatch].hi
       /\ \A i \in 1..Len(queue) : IsBatch(i) => queue[i].hi <= materialized

WhatTheStreamSaid ==
  /\ cons = "eof" => prod \in {"exit", "joined"} /\ ~failed
                     /\ delivered = materialized
  /\ cons = "error" => prod \in {"exit", "joined"}
  /\ Buffered /\ delivered > 0 => prod = "joined" /\ ~failed

IInv == /\ TypeOK /\ InOrder /\ Backpressure /\ MetricsAtEof /\ ErrorAfterRows
        /\ WhereTheTaskStands /\ WhatTheLimitKeeps
        /\ WhatTheQueueHolds /\ WhatTheStreamSaid

\* Row totals are numbers and do not decrease from task to task.
LEMMA RowTotals ==
  ASSUME TypeOK
  PROVE  /\ Len(scan.ends) \in Nat
         /\ Total \in Nat
         /\ \A i \in 0..Len(scan.ends) : EndOf(i) \in Nat /\ EndOf(i) <= Total
         /\ \A i \in 1..Len(scan.ends) : EndOf(i - 1) <= EndOf(i)
<1>1. /\ Len(scan.ends) \in Nat
      /\ \A i \in 1..Len(scan.ends) : scan.ends[i] \in Nat
      /\ \A i, j \in 1..Len(scan.ends) : i <= j => scan.ends[i] <= scan.ends[j]
  BY ScansWellFormed DEF TypeOK
<1> DEFINE n == Len(scan.ends)
<1>2. \A i \in 0..n : EndOf(i) \in Nat
  BY <1>1 DEF EndOf
<1>3. \A i \in 0..n : EndOf(i) <= EndOf(n)
  BY <1>1, <1>2 DEF EndOf
<1>4. \A i \in 1..n : EndOf(i - 1) <= EndOf(i)
  BY <1>1, <1>2 DEF EndOf
<1> QED
  BY <1>1, <1>2, <1>3, <1>4 DEF Total

\* What append and tail do to each element.
LEMMA AppendTo ==
  ASSUME NEW S, NEW s \in Seq(S), NEW x \in S
  PROVE  /\ Append(s, x) \in Seq(S)
         /\ Len(Append(s, x)) = Len(s) + 1
         /\ \A i \in 1..Len(s) : Append(s, x)[i] = s[i]
         /\ Append(s, x)[Len(s) + 1] = x
  OBVIOUS

LEMMA TailOf ==
  ASSUME NEW S, NEW s \in Seq(S), s # <<>>
  PROVE  /\ Len(s) \in Nat /\ Len(s) > 0
         /\ Head(s) = s[1]
         /\ Tail(s) \in Seq(S)
         /\ Len(Tail(s)) = Len(s) - 1
         /\ \A i \in 1..Len(s) - 1 : Tail(s)[i] = s[i + 1]
  OBVIOUS

\* The number of rows owed is a number.
LEMMA WantedNat ==
  ASSUME TypeOK
  PROVE  Wanted \in Nat /\ fetch \in Nat \cup {NoLimit}
  BY RowTotals, LimitsNat DEF TypeOK, Wanted

\* NoLimit is no number.
LEMMA NoLimitApart == \A n \in Nat : NoLimit # n
  BY LimitsNat

\* The queue holds batches and last events, told apart by their kind.
Events == Batches \cup {Finished, Failed}

LEMMA QueueElements ==
  ASSUME TypeOK
  PROVE  /\ Len(queue) \in Nat
         /\ \A i \in 1..Len(queue) :
              /\ queue[i] \in Events
              /\ IsBatch(i) => /\ queue[i] \in Batches
                               /\ queue[i].lo \in Nat /\ queue[i].hi \in Nat
                               /\ queue[i].lo < queue[i].hi
              /\ ~IsBatch(i) => queue[i] \in {Finished, Failed}
  BY DEF TypeOK, Events, IsBatch, Batches, Finished, Failed

(* The initial states satisfy the invariant.                                *)
LEMMA InitInv == Init => IInv
<1> SUFFICES ASSUME Init PROVE IInv
  OBVIOUS
<1>1. TypeOK
  <2>1. Len(scan.ends) \in Nat
    BY ScansWellFormed DEF Init
  <2>2. mode \in Modes
    BY DEF Init, ChooseMode, Modes
  <2>3. remaining \in Nat \cup {NoLimit}
    BY LimitsNat DEF Init
  <2>4. queue \in Seq(Batches \cup {Finished, Failed})
    BY DEF Init
  <2>5. stopped \in BOOLEAN
    BY DEF Init
  <2>6. /\ scan \in Scans /\ fetch \in Limits \cup {NoLimit} /\ prod = "files"
        /\ task = 0 /\ batch = Nothing /\ materialized = 0 /\ recorded = -1
        /\ failed = FALSE /\ cons = "open" /\ delivered = 0
    BY DEF Init
  <2>7. /\ prod \in {"files", "decode", "send", "sendFinished", "sendFailed",
                     "exit", "joined"}
        /\ task \in 0..Len(scan.ends) /\ prod # "send"
    BY <2>1, <2>6
  <2>8. /\ materialized \in Nat /\ recorded \in Nat \cup {-1}
        /\ failed \in BOOLEAN /\ delivered \in Nat
        /\ cons \in {"open", "eof", "error", "dropped"}
    BY <2>6
  <2> QED
    BY <2>2, <2>3, <2>4, <2>5, <2>6, <2>7, <2>8 DEF TypeOK
<1>2. InOrder /\ Backpressure /\ MetricsAtEof /\ ErrorAfterRows
  BY CapacityPositive
     DEF Init, InOrder, Backpressure, MetricsAtEof, ErrorAfterRows
<1>3. WhereTheTaskStands
  BY <1>1, RowTotals DEF Init, WhereTheTaskStands, EndOf
<1>4. WhatTheLimitKeeps
  <2>1. fetch = NoLimit \/ fetch \in Nat
    BY LimitsNat DEF Init
  <2>2. CASE fetch = NoLimit
    <3>1. remaining = NoLimit /\ remaining # 0 /\ ~stopped
      <4>1. remaining = NoLimit /\ remaining # 0
        BY <2>2, NoLimitApart DEF Init
      <4>2. stopped <=> remaining = 0
        BY Zenon DEF Init
      <4> QED
        BY <4>1, <4>2
    <3>2. prod = "files" /\ cons = "open"
      BY DEF Init
    <3> QED
      BY <2>2, <3>1, <3>2
         DEF WhatTheLimitKeeps, Streaming, Buffered, Ended
  <2>3. CASE fetch \in Nat
    <3>1. mode = "streaming"
      BY <2>3, LimitsNat DEF Init, ChooseMode
    <3>2. remaining = fetch /\ fetch # NoLimit /\ (stopped <=> remaining = 0)
      BY <2>3, <3>1, LimitsNat DEF Init
    <3>3. prod = "files" /\ cons = "open" /\ materialized = 0
      BY DEF Init
    <3> QED
      BY <2>3, <3>1, <3>2, <3>3, LimitsNat
         DEF WhatTheLimitKeeps, Streaming, Buffered, Ended
  <2> QED
    BY <2>1, <2>2, <2>3
<1>5. WhatTheQueueHolds
  BY DEF Init, WhatTheQueueHolds, LastBatch, IsBatch
<1>6. WhatTheStreamSaid
  BY DEF Init, WhatTheStreamSaid, Buffered
<1> QED
  BY <1>1, <1>2, <1>3, <1>4, <1>5, <1>6 DEF IInv

(* Every step keeps it, one action at a time.                               *)
LEMMA NextInv == IInv /\ [Next]_vars => IInv'
<1> SUFFICES ASSUME IInv, [Next]_vars PROVE IInv'
  OBVIOUS
<1> USE DEF IInv, input, task_vars, Streaming, Buffered, Ended, Modes
<1>1. CASE NextFile
  <2> USE <1>1 DEF NextFile, MoreFiles
  <2>1. TypeOK'
    BY DEF TypeOK
  <2>2. InOrder'
    BY DEF TypeOK, InOrder
  <2>3. Backpressure'
    BY DEF TypeOK, Backpressure
  <2>4. MetricsAtEof'
    BY DEF TypeOK, MetricsAtEof
  <2>5. ErrorAfterRows'
    BY DEF TypeOK, ErrorAfterRows
  <2>6. WhereTheTaskStands'
    BY DEF TypeOK, WhereTheTaskStands, EndOf, Total, Cut
  <2>7. WhatTheLimitKeeps'
    BY DEF TypeOK, WhatTheLimitKeeps, Wanted, Total, EndOf
  <2>8. WhatTheQueueHolds'
    BY DEF TypeOK, WhatTheQueueHolds, LastBatch, IsBatch
  <2>9. WhatTheStreamSaid'
    BY DEF TypeOK, WhatTheStreamSaid
  <2> QED
    BY <2>1, <2>2, <2>3, <2>4, <2>5, <2>6, <2>7, <2>8, <2>9
<1>2. CASE NoMoreFiles
  <2> USE <1>2 DEF NoMoreFiles, MoreFiles, Finish
  <2>1. TypeOK'
    BY DEF TypeOK
  <2>2. InOrder'
    BY DEF TypeOK, InOrder
  <2>3. Backpressure'
    BY DEF TypeOK, Backpressure
  <2>4. MetricsAtEof'
    BY DEF TypeOK, MetricsAtEof, WhatTheStreamSaid
  <2>5. ErrorAfterRows'
    BY DEF TypeOK, ErrorAfterRows
  <2>6. WhereTheTaskStands'
    BY DEF TypeOK, WhereTheTaskStands, EndOf, Total, Cut
  <2>7. WhatTheLimitKeeps'
    <3>1. /\ task \in 0..Len(scan.ends) /\ Len(scan.ends) \in Nat
          /\ Total \in Nat /\ Total = EndOf(Len(scan.ends))
          /\ materialized \in Nat /\ materialized <= Total
          /\ Wanted' = Wanted
      BY RowTotals DEF TypeOK, WhereTheTaskStands, Wanted, Total, EndOf
    <3>2. cons # "dropped" => materialized = Wanted
      <4> SUFFICES ASSUME cons # "dropped" PROVE materialized = Wanted
        OBVIOUS
      <4>1. CASE ~stopped
        <5>1. task = Len(scan.ends) /\ materialized = Total
          BY <3>1, <4>1 DEF WhereTheTaskStands
        <5>2. fetch = NoLimit \/ Total <= fetch
          BY <3>1, <4>1, <5>1, LimitsNat DEF WhatTheLimitKeeps, TypeOK
        <5> QED
          BY <5>1, <5>2 DEF Wanted
      <4>2. CASE stopped
        <5>1. fetch \in Nat /\ materialized = fetch
          BY <3>1, <4>2, LimitsNat DEF WhatTheLimitKeeps, TypeOK
        <5> QED
          BY <3>1, <5>1, LimitsNat DEF Wanted
      <4> QED
        BY <4>1, <4>2
    <3> QED
      BY <3>1, <3>2 DEF WhatTheLimitKeeps, TypeOK
  <2>8. WhatTheQueueHolds'
    BY DEF TypeOK, WhatTheQueueHolds, LastBatch, IsBatch
  <2>9. WhatTheStreamSaid'
    BY DEF TypeOK, WhatTheStreamSaid
  <2> QED
    BY <2>1, <2>2, <2>3, <2>4, <2>5, <2>6, <2>7, <2>8, <2>9
<1>3. CASE DecodeNothing
  <2> USE <1>3 DEF DecodeNothing, AfterTask
  <2>1. TypeOK'
    BY RowTotals DEF TypeOK, WhereTheTaskStands, Nothing
  <2>2. InOrder'
    BY DEF TypeOK, InOrder
  <2>3. Backpressure'
    BY DEF TypeOK, Backpressure
  <2>4. MetricsAtEof'
    BY DEF TypeOK, MetricsAtEof
  <2>5. ErrorAfterRows'
    BY DEF TypeOK, ErrorAfterRows
  <2>6. WhereTheTaskStands'
    BY DEF TypeOK, WhereTheTaskStands, EndOf, Total, Cut
  <2>7. WhatTheLimitKeeps'
    BY DEF TypeOK, WhatTheLimitKeeps, Wanted, Total, EndOf
  <2>8. WhatTheQueueHolds'
    BY DEF TypeOK, WhatTheQueueHolds, LastBatch, IsBatch
  <2>9. WhatTheStreamSaid'
    BY DEF TypeOK, WhatTheStreamSaid
  <2> QED
    BY <2>1, <2>2, <2>3, <2>4, <2>5, <2>6, <2>7, <2>8, <2>9
<1>4. CASE DecodeBatch
  <2> USE <1>4 DEF DecodeBatch, Cut
  <2>1. TypeOK'
    <3>1. /\ Len(scan.ends) \in Nat /\ task + 1 \in 1..Len(scan.ends)
          /\ EndOf(task) \in Nat /\ EndOf(task + 1) \in Nat
      BY RowTotals DEF TypeOK, WhereTheTaskStands
    <3>2. remaining = NoLimit \/ (remaining \in Nat /\ remaining > 0)
      BY LimitsNat DEF TypeOK, WhereTheTaskStands, WhatTheLimitKeeps
    <3>3. batch' \in Batches
      BY <3>1, <3>2 DEF Batches, Batch
    <3> QED
      BY <3>1, <3>3 DEF TypeOK
  <2>2. InOrder'
    BY DEF TypeOK, InOrder
  <2>3. Backpressure'
    BY DEF TypeOK, Backpressure
  <2>4. MetricsAtEof'
    BY DEF TypeOK, MetricsAtEof
  <2>5. ErrorAfterRows'
    BY DEF TypeOK, ErrorAfterRows
  <2>6. WhereTheTaskStands'
    BY DEF TypeOK, WhereTheTaskStands, EndOf, Total, Cut, Batch
  <2>7. WhatTheLimitKeeps'
    BY DEF TypeOK, WhatTheLimitKeeps, Wanted, Total, EndOf
  <2>8. WhatTheQueueHolds'
    BY DEF TypeOK, WhatTheQueueHolds, LastBatch, IsBatch
  <2>9. WhatTheStreamSaid'
    BY DEF TypeOK, WhatTheStreamSaid
  <2> QED
    BY <2>1, <2>2, <2>3, <2>4, <2>5, <2>6, <2>7, <2>8, <2>9
<1>5. CASE SendBatch
  <2> USE <1>5 DEF SendBatch, Limit, AfterTask, Room, Cut
  <2>a. /\ batch \in Batches /\ batch.lo \in Nat /\ batch.hi \in Nat
        /\ batch.lo < batch.hi /\ batch.lo = materialized
        /\ materialized' = batch.hi /\ materialized \in Nat
    BY DEF TypeOK, WhereTheTaskStands, Batches
  <2>b. /\ queue' \in Seq(Batches \cup {Finished, Failed})
        /\ Len(queue) \in Nat /\ Len(queue') = Len(queue) + 1
        /\ \A i \in 1..Len(queue) : queue'[i] = queue[i]
        /\ queue'[Len(queue) + 1] = batch
    BY <2>a, AppendTo, QueueElements DEF TypeOK
  <2>c. /\ task \in 1..Len(scan.ends) /\ EndOf(task) \in Nat /\ Total \in Nat
        /\ EndOf(task) <= Total /\ EndOf(task)' = EndOf(task) /\ Total' = Total
    BY RowTotals DEF TypeOK, WhereTheTaskStands, EndOf, Total
  <2>d0. task # 0 /\ batch.hi = Cut(materialized, EndOf(task))
    BY <2>c DEF WhereTheTaskStands
  <2>d1. remaining = NoLimit \/ (remaining \in Nat /\ remaining > 0)
    BY LimitsNat DEF TypeOK, WhereTheTaskStands, WhatTheLimitKeeps
  <2>d. \/ remaining = NoLimit /\ batch.hi = EndOf(task) /\ remaining' = NoLimit
           /\ (stopped' <=> stopped)
        \/ /\ remaining \in Nat /\ remaining' \in Nat
           /\ batch.hi - batch.lo <= remaining
           /\ remaining' = remaining - (batch.hi - batch.lo)
           /\ batch.hi = EndOf(task) \/ remaining' = 0
           /\ stopped' <=> remaining' = 0
    <3>1. CASE remaining = NoLimit
      <4>1. remaining # 0 /\ remaining' = NoLimit /\ batch.hi = EndOf(task)
        BY <2>d0, <3>1, NoLimitApart
      <4>2. stopped' <=> stopped
        <5>1. stopped' = (stopped \/ remaining' = 0 \/ FALSE)
          BY <4>1
        <5> QED
          BY <4>1, <5>1, NoLimitApart DEF TypeOK
      <4> QED
        BY <3>1, <4>1, <4>2
    <3>2. CASE remaining \in Nat /\ remaining > 0
      <4>1. remaining # NoLimit
        BY <3>2, LimitsNat
      <4>2. \/ batch.hi = EndOf(task) /\ batch.hi - batch.lo <= remaining
            \/ batch.hi = batch.lo + remaining
        BY <2>a, <2>c, <2>d0, <3>2, <4>1
      <4>3. remaining' = remaining - (batch.hi - batch.lo)
        BY <2>a, <2>c, <3>2, <4>1, <4>2
      <4>4. remaining' \in Nat /\ batch.hi - batch.lo <= remaining
        BY <2>a, <3>2, <4>2, <4>3
      <4>5. batch.hi = EndOf(task) \/ remaining' = 0
        BY <2>a, <2>c, <3>2, <4>2, <4>3
      <4>6. stopped' <=> remaining' = 0
        BY <4>3, <4>4 DEF TypeOK, WhereTheTaskStands
      <4> QED
        BY <3>2, <4>3, <4>4, <4>5, <4>6
    <3> QED
      BY <2>d1, <3>1, <3>2
  <2>e. \A i \in 1..Len(queue) : IsBatch(i)
    BY DEF WhatTheQueueHolds
  <2>f. cons # "dropped" =>
          materialized = IF Len(queue) = 0 THEN delivered
                                           ELSE queue[Len(queue)].hi
    BY <2>b, <2>e DEF WhatTheQueueHolds, LastBatch
  <2>1. TypeOK'
    BY <2>a, <2>b, <2>d DEF TypeOK
  <2>2. InOrder'
    <3> SUFFICES ASSUME cons # "dropped", NEW i \in 1..Len(queue'),
                         queue'[i].kind = "batch"
                  PROVE  queue'[i].lo = IF i = 1 THEN delivered
                                                 ELSE queue'[i - 1].hi
      BY DEF InOrder
    <3>1. CASE i \in 1..Len(queue)
      BY <2>b, <3>1 DEF InOrder
    <3>2. CASE i = Len(queue) + 1
      BY <2>a, <2>b, <2>f, <3>2
    <3> QED
      BY <2>b, <3>1, <3>2
  <2>3. Backpressure'
    BY <2>b, CapacityPositive DEF TypeOK, Backpressure
  <2>4. MetricsAtEof'
    BY DEF MetricsAtEof
  <2>5. ErrorAfterRows'
    BY DEF ErrorAfterRows, WhatTheStreamSaid
  <2>6. WhereTheTaskStands'
    BY <2>a, <2>c, <2>d DEF TypeOK, WhereTheTaskStands
  <2>7. WhatTheLimitKeeps'
    <3>0. /\ ~stopped /\ prod' \in {"files", "decode"} /\ stopped' \in BOOLEAN
          /\ UNCHANGED <<fetch, mode, cons, failed, recorded>>
      BY DEF WhereTheTaskStands
    <3>1. ~(prod' \in {"sendFinished", "sendFailed", "exit", "joined"})
      BY <3>0
    <3>2. CASE remaining = NoLimit
      <4>1. fetch = NoLimit /\ remaining' = NoLimit
        BY <2>d, <3>2, NoLimitApart DEF WhatTheLimitKeeps
      <4>2. ~stopped' /\ remaining' # 0
        BY <2>d, <3>0, <3>2, <4>1, NoLimitApart
      <4> HIDE <1>5
      <4> QED
        BY <3>0, <3>1, <4>1, <4>2 DEF WhatTheLimitKeeps
    <3>3. CASE remaining # NoLimit
      <4>1. fetch # NoLimit /\ mode # "buffered"
        BY <3>3 DEF WhatTheLimitKeeps
      <4>2. /\ remaining' \in Nat /\ (stopped' <=> remaining' = 0)
            /\ remaining' = remaining - (batch.hi - batch.lo)
        BY <2>d, <3>3
      <4>3. remaining' # NoLimit
        BY <4>2, NoLimitApart
      <4>4. cons # "dropped" => remaining' = fetch - materialized'
        <5>1. cons # "dropped" => remaining = fetch - materialized
          BY <4>1 DEF WhatTheLimitKeeps
        <5>2. cons # "dropped" => fetch \in Nat
          BY <4>1, LimitsNat DEF TypeOK
        <5> QED
          BY <2>a, <4>2, <5>1, <5>2
      <4> HIDE <1>5
      <4> QED
        BY <3>0, <3>1, <4>1, <4>2, <4>3, <4>4 DEF WhatTheLimitKeeps
    <3> QED
      BY <3>2, <3>3
  <2>8. WhatTheQueueHolds'
    <3>1. \A i \in 1..Len(queue') : queue'[i].kind = "batch"
      BY <2>a, <2>b, <2>e DEF IsBatch, Batches
    <3>2. LastBatch' = Len(queue')
      BY <2>b, <3>1 DEF LastBatch, IsBatch
    <3>3. queue'[Len(queue')].hi = materialized' /\ Len(queue') > 0
      BY <2>a, <2>b
    <3>4. cons # "dropped" => \A i \in 1..Len(queue') : queue'[i].hi <= materialized'
      BY <2>a, <2>b, <2>e, QueueElements DEF WhatTheQueueHolds, IsBatch
    <3> QED
      BY <2>b, <3>1, <3>2, <3>3, <3>4 DEF WhatTheQueueHolds, IsBatch
  <2>9. WhatTheStreamSaid'
    BY DEF TypeOK, WhatTheStreamSaid
  <2> QED
    BY <2>1, <2>2, <2>3, <2>4, <2>5, <2>6, <2>7, <2>8, <2>9
<1>6. CASE SendRefused
  <2> USE <1>6 DEF SendRefused, Limit, AfterTask, Cut
  <2>1. TypeOK'
    BY LimitsNat DEF TypeOK, WhereTheTaskStands, Batches
  <2>2. InOrder'
    BY DEF TypeOK, InOrder
  <2>3. Backpressure'
    BY DEF TypeOK, Backpressure
  <2>4. MetricsAtEof'
    BY DEF TypeOK, MetricsAtEof
  <2>5. ErrorAfterRows'
    BY DEF TypeOK, ErrorAfterRows
  <2>6. WhereTheTaskStands'
    BY DEF TypeOK, WhereTheTaskStands, EndOf, Total, Cut
  <2>7. WhatTheLimitKeeps'
    <3>1. batch.lo \in Nat /\ batch.hi \in Nat /\ batch.lo < batch.hi
      BY DEF TypeOK, Batches
    <3>2. remaining = NoLimit \/ (remaining \in Nat /\ remaining # NoLimit)
      BY LimitsNat DEF TypeOK
    <3>3. remaining = NoLimit <=> remaining' = NoLimit
      BY <3>1, <3>2, NoLimitApart
    <3>4. stopped'
      OBVIOUS
    <3> QED
      BY <3>3, <3>4 DEF WhatTheLimitKeeps, TypeOK
  <2>8. WhatTheQueueHolds'
    BY DEF TypeOK, WhatTheQueueHolds, LastBatch, IsBatch
  <2>9. WhatTheStreamSaid'
    BY DEF TypeOK, WhatTheStreamSaid
  <2> QED
    BY <2>1, <2>2, <2>3, <2>4, <2>5, <2>6, <2>7, <2>8, <2>9
<1>7. CASE SendLast
  <2> USE <1>7 DEF SendLast, Room
  <2>a. CASE UNCHANGED queue
    <3>1. TypeOK'
      BY <2>a DEF TypeOK
    <3>2. InOrder' /\ Backpressure' /\ MetricsAtEof' /\ ErrorAfterRows'
      BY <2>a DEF InOrder, Backpressure, MetricsAtEof, ErrorAfterRows
    <3>3. WhereTheTaskStands'
      BY <2>a DEF TypeOK, WhereTheTaskStands, EndOf, Total, Cut
    <3>4. WhatTheLimitKeeps'
      BY <2>a DEF TypeOK, WhatTheLimitKeeps, Wanted, Total, EndOf
    <3>5. WhatTheQueueHolds'
      BY <2>a DEF TypeOK, WhatTheQueueHolds, LastBatch, IsBatch
    <3>6. WhatTheStreamSaid'
      BY <2>a DEF TypeOK, WhatTheStreamSaid
    <3> QED
      BY <3>1, <3>2, <3>3, <3>4, <3>5, <3>6
  <2> DEFINE event == IF prod = "sendFinished" THEN Finished ELSE Failed
  <2> SUFFICES ASSUME cons # "dropped", Room, queue' = Append(queue, event)
               PROVE  IInv'
    BY <2>a
  <2>b. /\ queue' \in Seq(Batches \cup {Finished, Failed})
        /\ Len(queue) \in Nat /\ Len(queue') = Len(queue) + 1
        /\ \A i \in 1..Len(queue) : queue'[i] = queue[i]
        /\ queue'[Len(queue) + 1] = event
    BY AppendTo, QueueElements DEF TypeOK
  <2>c. /\ event.kind # "batch" /\ (event = Failed <=> failed)
        /\ prod' = "exit" /\ mode = "streaming" /\ mode' = mode
    BY DEF Finished, Failed, WhereTheTaskStands
  <2> HIDE DEF event
  <2>e. \A i \in 1..Len(queue) : IsBatch(i)
    BY DEF WhatTheQueueHolds
  <2>f. /\ LastBatch = Len(queue)
        /\ materialized = IF Len(queue) = 0 THEN delivered
                                            ELSE queue[Len(queue)].hi
    BY <2>b, <2>e DEF WhatTheQueueHolds, LastBatch
  <2>g. LastBatch' = Len(queue)
    BY <2>b, <2>c DEF LastBatch, IsBatch
  <2>1. TypeOK'
    BY <2>b DEF TypeOK
  <2>2. InOrder'
    BY <2>b, <2>c DEF InOrder
  <2>3. Backpressure'
    BY <2>b, CapacityPositive DEF Backpressure, TypeOK
  <2>4. MetricsAtEof'
    BY DEF TypeOK, MetricsAtEof
  <2>5. ErrorAfterRows'
    BY DEF TypeOK, ErrorAfterRows
  <2>6. WhereTheTaskStands'
    BY <2>c DEF TypeOK, WhereTheTaskStands, EndOf, Total, Cut
  <2>7. WhatTheLimitKeeps'
    BY DEF TypeOK, WhatTheLimitKeeps, Wanted, Total, EndOf
  <2>8. WhatTheQueueHolds'
    <3>1. \A i \in 1..Len(queue') :
            ~IsBatch(i)' => i = Len(queue') /\ queue'[i] = event
      BY <2>b, <2>e DEF IsBatch
    <3>2. Len(queue) > 0 => queue'[LastBatch'].hi = queue[LastBatch].hi
      BY <2>b, <2>f, <2>g
    <3>3. \A i \in 1..Len(queue') : IsBatch(i)' => queue'[i].hi <= materialized'
      BY <2>b, <2>c, <2>e DEF WhatTheQueueHolds, IsBatch
    <3> QED
      BY <2>b, <2>c, <2>f, <2>g, <3>1, <3>2, <3>3 DEF WhatTheQueueHolds
  <2>9. WhatTheStreamSaid'
    BY DEF TypeOK, WhatTheStreamSaid
  <2> QED
    BY <2>1, <2>2, <2>3, <2>4, <2>5, <2>6, <2>7, <2>8, <2>9
<1>8. CASE Join
  <2> USE <1>8 DEF Join
  <2>1. TypeOK'
    BY DEF TypeOK
  <2>2. InOrder'
    BY DEF TypeOK, InOrder
  <2>3. Backpressure'
    BY DEF TypeOK, Backpressure
  <2>4. MetricsAtEof'
    BY DEF TypeOK, MetricsAtEof
  <2>5. ErrorAfterRows'
    BY DEF TypeOK, ErrorAfterRows
  <2>6. WhereTheTaskStands'
    BY DEF TypeOK, WhereTheTaskStands, EndOf, Total, Cut
  <2>7. WhatTheLimitKeeps'
    BY DEF TypeOK, WhatTheLimitKeeps, Wanted, Total, EndOf
  <2>8. WhatTheQueueHolds'
    BY DEF TypeOK, WhatTheQueueHolds, LastBatch, IsBatch
  <2>9. WhatTheStreamSaid'
    BY DEF TypeOK, WhatTheStreamSaid
  <2> QED
    BY <2>1, <2>2, <2>3, <2>4, <2>5, <2>6, <2>7, <2>8, <2>9
<1>9. CASE DecodeError
  <2> USE <1>9 DEF DecodeError
  <2>1. TypeOK'
    BY DEF TypeOK
  <2>2. InOrder'
    BY DEF TypeOK, InOrder
  <2>3. Backpressure'
    BY DEF TypeOK, Backpressure
  <2>4. MetricsAtEof'
    BY DEF TypeOK, MetricsAtEof
  <2>5. ErrorAfterRows'
    BY DEF TypeOK, ErrorAfterRows
  <2>6. WhereTheTaskStands'
    BY DEF TypeOK, WhereTheTaskStands, EndOf, Total, Cut
  <2>7. WhatTheLimitKeeps'
    BY DEF TypeOK, WhatTheLimitKeeps, Wanted, Total, EndOf
  <2>8. WhatTheQueueHolds'
    BY DEF TypeOK, WhatTheQueueHolds, LastBatch, IsBatch
  <2>9. WhatTheStreamSaid'
    BY DEF TypeOK, WhatTheStreamSaid
  <2> QED
    BY <2>1, <2>2, <2>3, <2>4, <2>5, <2>6, <2>7, <2>8, <2>9
<1>10. CASE Panic
  <2> USE <1>10 DEF Panic
  <2>1. TypeOK'
    BY DEF TypeOK
  <2>2. InOrder'
    BY DEF TypeOK, InOrder
  <2>3. Backpressure'
    BY DEF TypeOK, Backpressure
  <2>4. MetricsAtEof'
    BY DEF TypeOK, MetricsAtEof
  <2>5. ErrorAfterRows'
    BY DEF TypeOK, ErrorAfterRows
  <2>6. WhereTheTaskStands'
    BY DEF TypeOK, WhereTheTaskStands, EndOf, Total, Cut
  <2>7. WhatTheLimitKeeps'
    BY DEF TypeOK, WhatTheLimitKeeps, Wanted, Total, EndOf
  <2>8. WhatTheQueueHolds'
    BY DEF TypeOK, WhatTheQueueHolds, LastBatch, IsBatch
  <2>9. WhatTheStreamSaid'
    BY DEF TypeOK, WhatTheStreamSaid
  <2> QED
    BY <2>1, <2>2, <2>3, <2>4, <2>5, <2>6, <2>7, <2>8, <2>9
<1>11. CASE PollBatch
  <2> USE <1>11 DEF PollBatch, Ready
  <2>a. /\ queue \in Seq(Events) /\ Len(queue) \in Nat /\ Len(queue) > 0
        /\ Head(queue) = queue[1] /\ queue' \in Seq(Events)
        /\ Len(queue') = Len(queue) - 1
        /\ \A i \in 1..Len(queue') : queue'[i] = queue[i + 1]
    BY TailOf DEF TypeOK, Events
  <2>b. /\ IsBatch(1) /\ queue[1].lo \in Nat /\ queue[1].hi \in Nat
        /\ queue[1].lo < queue[1].hi
        /\ queue[1].lo = delivered /\ delivered' = queue[1].hi
    BY <2>a, QueueElements DEF IsBatch, InOrder, TypeOK
  <2>u. UNCHANGED <<task_vars, cons>> /\ cons = "open"
        /\ (mode = "streaming" \/ (prod = "joined" /\ ~failed))
    OBVIOUS
  <2> HIDE <1>11
  <2> USE <2>u
  <2>c. LastBatch \in 1..Len(queue) /\ LastBatch' = LastBatch - 1
    BY <2>a, <2>b DEF LastBatch, IsBatch
  <2>d. \A i \in 1..Len(queue') : IsBatch(i)' <=> IsBatch(i + 1)
    BY <2>a DEF IsBatch
  <2>1. TypeOK'
    BY <2>a, <2>b DEF TypeOK, Events
  <2>2. InOrder'
    <3> SUFFICES ASSUME NEW i \in 1..Len(queue'), queue'[i].kind = "batch"
                  PROVE  queue'[i].lo = IF i = 1 THEN delivered'
                                                 ELSE queue'[i - 1].hi
      BY DEF InOrder
    <3>1. /\ i + 1 \in 1..Len(queue) /\ queue'[i] = queue[i + 1]
          /\ i # 1 => queue'[i - 1] = queue[i]
      BY <2>a
    <3>2. queue[i + 1].lo = queue[i].hi
      BY <3>1 DEF InOrder
    <3> QED
      BY <2>b, <3>1, <3>2
  <2>3. Backpressure'
    BY <2>a, CapacityPositive DEF Backpressure
  <2>4. MetricsAtEof'
    BY DEF TypeOK, MetricsAtEof
  <2>5. ErrorAfterRows'
    BY DEF TypeOK, ErrorAfterRows
  <2>6. WhereTheTaskStands'
    BY DEF TypeOK, WhereTheTaskStands, EndOf, Total, Cut
  <2>7. WhatTheLimitKeeps'
    BY DEF TypeOK, WhatTheLimitKeeps, Wanted, Total, EndOf
  <2>8. WhatTheQueueHolds'
    <3>1. \A i \in 1..Len(queue') :
            ~IsBatch(i)' => /\ i = Len(queue')
                            /\ prod \in {"exit", "joined"} /\ mode = "streaming"
                            /\ failed <=> queue'[i] = Failed
      <4> SUFFICES ASSUME NEW i \in 1..Len(queue'), ~IsBatch(i)'
                      PROVE  /\ i = Len(queue')
                             /\ prod \in {"exit", "joined"} /\ mode = "streaming"
                             /\ failed <=> queue'[i] = Failed
          OBVIOUS
        <4>1. i + 1 \in 1..Len(queue) /\ ~IsBatch(i + 1)
          BY <2>a, <2>d
        <4>2. /\ i + 1 = Len(queue)
              /\ prod \in {"exit", "joined"} /\ mode = "streaming"
              /\ failed <=> queue[i + 1] = Failed
          BY <4>1 DEF WhatTheQueueHolds
        <4>3. queue'[i] = queue[i + 1]
          BY <2>a
        <4>4. i = Len(queue')
          BY <2>a, <4>2
        <4>5. failed <=> queue'[i] = Failed
          BY <4>2, <4>3
        <4> QED
          BY <4>2, <4>4, <4>5
    <3>2. materialized = IF LastBatch = 1 THEN delivered'
                                          ELSE queue'[LastBatch - 1].hi
        <4>0. cons # "dropped" /\ LastBatch # 0
          BY <2>a, <2>c
        <4>1. materialized = queue[LastBatch].hi
          BY <4>0 DEF WhatTheQueueHolds
        <4>2. CASE LastBatch = 1
          BY <2>b, <4>1, <4>2
        <4>3. CASE LastBatch # 1
          <5> HIDE DEF LastBatch
          <5>1. /\ LastBatch \in Int /\ LastBatch - 1 \in 1..Len(queue')
                /\ (LastBatch - 1) + 1 = LastBatch
            BY <2>a, <2>c, <4>3
          <5>2. queue'[LastBatch - 1] = queue[(LastBatch - 1) + 1]
            BY <2>a, <5>1
          <5> QED
            BY <4>1, <4>3, <5>1, <5>2
        <4> QED
          BY <4>2, <4>3
    <3>3. \A i \in 1..Len(queue') : IsBatch(i)' => queue'[i].hi <= materialized
        <4> SUFFICES ASSUME NEW i \in 1..Len(queue'), IsBatch(i)'
                     PROVE  queue'[i].hi <= materialized
          OBVIOUS
        <4>1. i + 1 \in 1..Len(queue) /\ IsBatch(i + 1)
          BY <2>a, <2>d
        <4> QED
          BY <2>a, <4>1 DEF WhatTheQueueHolds
    <3> QED
      BY <2>c, <3>1, <3>2, <3>3 DEF WhatTheQueueHolds
  <2>9. WhatTheStreamSaid'
    BY DEF TypeOK, WhatTheStreamSaid
  <2> QED
    BY <2>1, <2>2, <2>3, <2>4, <2>5, <2>6, <2>7, <2>8, <2>9
<1>12. CASE PollLast
  <2> USE <1>12 DEF PollLast, Ready, ended
  <2>a. /\ Len(queue) \in Nat /\ Len(queue) > 0 /\ Head(queue) = queue[1]
        /\ ~IsBatch(1) /\ Len(queue') = Len(queue) - 1
        /\ queue' \in Seq(Events)
    BY TailOf DEF TypeOK, Events, IsBatch
  <2>b. /\ Len(queue) = 1 /\ Len(queue') = 0
        /\ prod \in {"exit", "joined"} /\ mode = "streaming"
        /\ failed <=> queue[1] = Failed
    <3>1. 1 \in 1..Len(queue)
      BY <2>a
    <3>2. /\ 1 = Len(queue) /\ prod \in {"exit", "joined"}
          /\ mode = "streaming" /\ (failed <=> queue[1] = Failed)
      BY <2>a, <3>1 DEF WhatTheQueueHolds
    <3>3. Len(queue') = 0
      <4> HIDE <1>12
      <4>1. Len(queue) = 1
        BY <3>2
      <4>2. Len(queue') = Len(queue) - 1
        BY <2>a
      <4> QED
        BY <4>1, <4>2
    <3> QED
      BY <3>2, <3>3
  <2>u. UNCHANGED task_vars
    OBVIOUS
  <2>c. /\ cons' = IF failed THEN "error" ELSE "eof"
        /\ delivered' = delivered /\ materialized = delivered
        /\ cons = "open"
    BY <2>a, <2>b, QueueElements
       DEF WhatTheQueueHolds, LastBatch, Finished, Failed
  <2> HIDE <1>12
  <2> USE <2>u
  <2>1. TypeOK'
    BY <2>a, <2>c DEF TypeOK, Events
  <2>2. InOrder'
    BY <2>b DEF InOrder
  <2>3. Backpressure'
    BY <2>b, CapacityPositive DEF Backpressure
  <2>4. MetricsAtEof'
    BY <2>b, <2>c DEF MetricsAtEof, WhatTheLimitKeeps
  <2>5. ErrorAfterRows'
    BY <2>b, <2>c DEF ErrorAfterRows
  <2>6. WhereTheTaskStands'
    BY DEF TypeOK, WhereTheTaskStands, EndOf, Total, Cut
  <2>7. WhatTheLimitKeeps'
    BY <2>c DEF TypeOK, WhatTheLimitKeeps, Wanted, Total, EndOf
  <2>8. WhatTheQueueHolds'
    <3>1. LastBatch' = 0
      BY <2>b DEF LastBatch
    <3>2. materialized' = delivered' /\ \A i \in 1..Len(queue') : FALSE
      BY <2>b, <2>c
    <3> QED
      BY <3>1, <3>2 DEF WhatTheQueueHolds
  <2>9. WhatTheStreamSaid'
    BY <2>b, <2>c DEF WhatTheStreamSaid
  <2> QED
    BY <2>1, <2>2, <2>3, <2>4, <2>5, <2>6, <2>7, <2>8, <2>9
<1>13. CASE PollJoined
  <2> USE <1>13 DEF PollJoined, Ready, ended
  <2>a. /\ cons' = IF failed THEN "error" ELSE "eof"
        /\ cons = "open" /\ prod = "joined"
    OBVIOUS
  <2>b. queue = <<>> => materialized = delivered
    BY DEF WhatTheQueueHolds, LastBatch
  <2>1. TypeOK'
    BY DEF TypeOK
  <2>2. InOrder'
    BY DEF TypeOK, InOrder
  <2>3. Backpressure'
    BY DEF TypeOK, Backpressure
  <2>4. MetricsAtEof'
    BY <2>a, <2>b DEF MetricsAtEof, WhatTheLimitKeeps
  <2>5. ErrorAfterRows'
    <3>1. TypeOK /\ (mode = "buffered" /\ failed => delivered = 0)
      BY DEF TypeOK, WhatTheStreamSaid
    <3>2. mode = "streaming" \/ mode = "buffered"
      BY DEF TypeOK
    <3> QED
      BY <2>a, <2>b, <3>1, <3>2 DEF ErrorAfterRows
  <2>6. WhereTheTaskStands'
    BY DEF TypeOK, WhereTheTaskStands, EndOf, Total, Cut
  <2>7. WhatTheLimitKeeps'
    BY <2>a DEF TypeOK, WhatTheLimitKeeps, Wanted, Total, EndOf
  <2>8. WhatTheQueueHolds'
    BY DEF TypeOK, WhatTheQueueHolds, LastBatch, IsBatch
  <2>9. WhatTheStreamSaid'
    BY <2>a, <2>b DEF TypeOK, WhatTheStreamSaid
  <2> QED
    BY <2>1, <2>2, <2>3, <2>4, <2>5, <2>6, <2>7, <2>8, <2>9
<1>14. CASE DropStream
  <2> USE <1>14 DEF DropStream, ended
  <2>1. TypeOK'
    BY DEF TypeOK
  <2>2. InOrder'
    BY DEF TypeOK, InOrder
  <2>3. Backpressure'
    BY CapacityPositive DEF TypeOK, Backpressure
  <2>4. MetricsAtEof'
    BY DEF TypeOK, MetricsAtEof
  <2>5. ErrorAfterRows'
    BY DEF TypeOK, ErrorAfterRows
  <2>6. WhereTheTaskStands'
    BY DEF TypeOK, WhereTheTaskStands, EndOf, Total, Cut
  <2>7. WhatTheLimitKeeps'
    BY DEF TypeOK, WhatTheLimitKeeps, Wanted, Total, EndOf
  <2>8. WhatTheQueueHolds'
    BY DEF TypeOK, WhatTheQueueHolds, LastBatch, IsBatch
  <2>9. WhatTheStreamSaid'
    BY DEF TypeOK, WhatTheStreamSaid
  <2> QED
    BY <2>1, <2>2, <2>3, <2>4, <2>5, <2>6, <2>7, <2>8, <2>9
<1>15. CASE UNCHANGED vars
  <2> USE <1>15 DEF vars
  <2>1. TypeOK'
    BY DEF TypeOK
  <2>2. InOrder'
    BY DEF InOrder
  <2>3. Backpressure'
    BY DEF Backpressure
  <2>4. MetricsAtEof'
    BY DEF MetricsAtEof
  <2>5. ErrorAfterRows'
    BY DEF ErrorAfterRows
  <2>6. WhereTheTaskStands'
    BY DEF WhereTheTaskStands, EndOf, Total, Cut
  <2>7. WhatTheLimitKeeps'
    BY DEF WhatTheLimitKeeps, Wanted, Total, EndOf
  <2>8. WhatTheQueueHolds'
    BY DEF WhatTheQueueHolds, LastBatch, IsBatch
  <2>9. WhatTheStreamSaid'
    BY DEF WhatTheStreamSaid
  <2> QED
    BY <2>1, <2>2, <2>3, <2>4, <2>5, <2>6, <2>7, <2>8, <2>9
<1> QED
  BY <1>1, <1>2, <1>3, <1>4, <1>5, <1>6, <1>7, <1>8, <1>9, <1>10, <1>11, <1>12, <1>13, <1>14, <1>15
     DEF Next, Producer, Faults, Poll, Terminated

-----------------------------------------------------------------------------
(* The inductive invariant holds in every reachable state.                  *)
THEOREM Invariance == Spec => []IInv
  BY InitInv, NextInv, PTL DEF Spec

(* The types of the state of the task, its sinks, the channel and the       *)
(* stream.                                                                  *)
THEOREM TypeCorrect == Spec => []TypeOK
<1>1. IInv => TypeOK
  BY DEF IInv
<1> QED
  BY <1>1, Invariance, PTL

(* The batches waiting for the engine continue the rows it has, in the row  *)
(* order decode.rs promises, whatever the capacity of the channel.          *)
THEOREM RowsInOrder == Spec => []InOrder
<1>1. IInv => InOrder
  BY DEF IInv
<1> QED
  BY <1>1, Invariance, PTL

(* The bounded channel never holds more than it was made for, whatever the  *)
(* engine does with the stream.                                             *)
THEOREM ChannelBounded == Spec => []Backpressure
<1>1. IInv => Backpressure
  BY DEF IInv
<1> QED
  BY <1>1, Invariance, PTL

(* At the end of the stream the recorded metrics count the rows delivered.  *)
THEOREM MetricsTrue == Spec => []MetricsAtEof
<1>1. IInv => MetricsAtEof
  BY DEF IInv
<1> QED
  BY <1>1, Invariance, PTL

(* A failure is reported after the rows decoded before it, or instead of    *)
(* all of them, and only if there was one.                                  *)
THEOREM ErrorsHonest == Spec => []ErrorAfterRows
<1>1. IInv => ErrorAfterRows
  BY DEF IInv
<1> QED
  BY <1>1, Invariance, PTL

(* Once the sink wants no more rows no task is decoded.                     *)
THEOREM NoWastedTask == Spec => StopsDecoding
<1>1. IInv /\ [Next]_vars => [stopped => task' = task]_vars
  <2> SUFFICES ASSUME IInv, Next, stopped PROVE task' = task
    OBVIOUS
  <2>1. prod # "decode"
    BY DEF IInv, WhereTheTaskStands
  <2> QED
    BY <2>1 DEF Next, Producer, Faults, Poll, Terminated, vars, task_vars,
         NextFile, NoMoreFiles, Finish, DecodeNothing, DecodeBatch, SendBatch,
         SendRefused, SendLast, Join, DecodeError, Panic, PollBatch, PollLast,
         PollJoined, DropStream
<1> QED
  BY <1>1, Invariance, PTL DEF Spec, StopsDecoding

-----------------------------------------------------------------------------
(* ScanStream implements RowStream.                                         *)

LEMMA InitPromise == Init => Promise!Init
<1> SUFFICES ASSUME Init PROVE Promise!Init
  OBVIOUS
<1>1. Wanted \in Nat
  BY InitInv, WantedNat DEF IInv
<1> QED
  BY <1>1 DEF Init, Promise!Init

\* The stream is never ahead of the rows it owes.
LEMMA NeverAhead ==
  ASSUME IInv, cons # "dropped"
  PROVE  materialized <= Wanted
<1>1. materialized \in Nat /\ Total \in Nat /\ materialized <= Total
  BY RowTotals DEF IInv, TypeOK, WhereTheTaskStands
<1>2. CASE fetch = NoLimit
  BY <1>1, <1>2 DEF Wanted
<1>3. CASE fetch # NoLimit
  <2>1. fetch \in Nat /\ remaining \in Nat /\ remaining = fetch - materialized
    BY <1>3, WantedNat, LimitsNat DEF IInv, TypeOK, WhatTheLimitKeeps
  <2> QED
    BY <1>1, <2>1 DEF Wanted
<1> QED
  BY <1>2, <1>3

LEMMA StepPromise == IInv /\ IInv' /\ [Next]_vars => [Promise!Next]_(Promise!vars)
<1> SUFFICES ASSUME IInv, IInv', [Next]_vars
             PROVE  Promise!Next \/ UNCHANGED <<Wanted, delivered, cons>>
  BY DEF Promise!vars
<1>1. Wanted' = Wanted
  <2>1. UNCHANGED <<scan, fetch>>
    BY DEF Next, Producer, Faults, Poll, Terminated, vars, task_vars, input,
         NextFile, NoMoreFiles, Finish, DecodeNothing, DecodeBatch, SendBatch,
         SendRefused, SendLast, Join, DecodeError, Panic, PollBatch, PollLast,
         PollJoined, DropStream
  <2> QED
    BY <2>1 DEF Wanted, Total, EndOf
<1>2. CASE PollBatch
  <2>1. Len(queue) \in Nat /\ Len(queue) > 0 /\ Head(queue) = queue[1]
    BY <1>2, TailOf DEF PollBatch, IInv, TypeOK
  <2>2. /\ IsBatch(1) /\ queue[1].lo = delivered /\ cons = "open"
        /\ queue[1].hi \in Nat /\ queue[1].lo < queue[1].hi
    BY <1>2, <2>1, QueueElements DEF PollBatch, IInv, InOrder, IsBatch
  <2>3. queue[1].hi <= materialized /\ materialized <= Wanted
    BY <2>1, <2>2, NeverAhead DEF IInv, WhatTheQueueHolds
  <2>4. delivered \in Nat /\ materialized \in Nat /\ Wanted \in Nat
    BY WantedNat DEF IInv, TypeOK
  <2>5. delivered' = queue[1].hi /\ cons' = cons
    BY <1>2, <2>1, <2>2, <2>4 DEF PollBatch
  <2> QED
    BY <1>1, <2>2, <2>3, <2>4, <2>5 DEF Promise!Next, Promise!Deliver
<1>3. ASSUME cons = "open", cons' = "eof", UNCHANGED delivered
      PROVE  Promise!Next
  <2>1. materialized' = Wanted' /\ delivered' = materialized'
    BY <1>3 DEF IInv, WhatTheStreamSaid, WhatTheLimitKeeps, Ended
  <2> QED
    BY <1>1, <1>3, <2>1 DEF Promise!Next, Promise!End
<1>4. ASSUME cons = "open", cons' \in {"error", "dropped"}, UNCHANGED delivered
      PROVE  Promise!Next
  BY <1>1, <1>4 DEF Promise!Next, Promise!Fail, Promise!Drop
<1>5. CASE PollLast \/ PollJoined \/ DropStream
  <2>1. cons = "open" /\ cons' \in {"eof", "error", "dropped"} /\ UNCHANGED delivered
    BY <1>5 DEF PollLast, PollJoined, DropStream, ended
  <2> QED
    BY <1>3, <1>4, <2>1
<1>6. CASE Producer \/ Faults \/ Terminated \/ UNCHANGED vars
  <2>1. UNCHANGED <<delivered, cons>>
    BY <1>6 DEF Producer, Faults, Terminated, vars,
         NextFile, NoMoreFiles, Finish, DecodeNothing, DecodeBatch, SendBatch,
         SendRefused, SendLast, Join, DecodeError, Panic
  <2> QED
    BY <1>1, <2>1
<1> QED
  BY <1>2, <1>5, <1>6 DEF Next, Poll

(* The stream keeps its promise: the rows of the partition in order, each   *)
(* once, up to the limit, and an end only when none is missing.             *)
THEOREM Implements == Spec => KeepsPromise
<1>1. Spec => [][Promise!Next]_(Promise!vars)
  BY Invariance, StepPromise, PTL DEF Spec
<1> QED
  BY <1>1, InitPromise, PTL DEF Spec, KeepsPromise, Promise!Spec
=============================================================================
