------------------------------ MODULE ScanStream ------------------------------
(***************************************************************************)
(* One partition of a scan on its way from the pages to the query engine:  *)
(* the CoveRecordBatchStream of adapter_v53/stream.rs, the sinks of        *)
(* decode.rs and the decode loop that feeds them.                          *)
(*                                                                         *)
(* In streaming mode a blocking task decodes and sends batches through a   *)
(* bounded channel that the stream polls; in buffered mode the task        *)
(* collects every batch and the stream takes the whole vector when the     *)
(* task ends.  The engine may drop the stream at any time, a page may be   *)
(* corrupt and the task may panic.                                         *)
(*                                                                         *)
(* A scan is given by its row totals: task i selects the rows numbered     *)
(* from ends[i-1] + 1 to ends[i], possibly none, and belongs to file[i].   *)
(* A batch is the interval of the rows after `lo` up to `hi`.              *)
(***************************************************************************)
EXTENDS Integers, Sequences

CONSTANTS Scans,     \* the scans to choose from: [ends |-> ..., file |-> ...]
          Limits,    \* the pushed-down limits to choose from
          NoLimit,   \* no limit was pushed down
          Capacity   \* DECODE_BATCH_CHANNEL_CAPACITY

ASSUME ScansWellFormed ==
  \A s \in Scans :
     /\ s.ends \in Seq(Nat) /\ s.file \in Seq(Nat)
     /\ Len(s.file) = Len(s.ends)
     /\ \A i, j \in 1..Len(s.ends) : i <= j => s.ends[i] <= s.ends[j]
ASSUME LimitsNat == Limits \subseteq Nat /\ NoLimit \notin Nat
ASSUME CapacityPositive == Capacity \in Nat \ {0}

VARIABLES scan, fetch, mode,       \* the partition, its limit, how it is run
          prod,                    \* where the decode task stands
          task,                    \* tasks begun so far
          remaining, stopped,      \* FetchLimitedDecodeSink
          batch,                   \* the batch handed to the channel sink
          materialized,            \* DecodeStats::rows_materialized
          recorded,                \* what the metrics say, -1 before
          queue,                   \* the channel, or the collected vector
          failed,                  \* the decode task met an error or panicked
          cons,                    \* what the last poll of the stream said
          delivered                \* rows handed to the engine

input == <<scan, fetch, mode>>
vars == <<scan, fetch, mode, prod, task, remaining, stopped, batch,
          materialized, recorded, queue, failed, cons, delivered>>

Modes == {"streaming", "buffered"}
Tasks == 1..Len(scan.ends)
EndOf(i) == IF i = 0 THEN 0 ELSE scan.ends[i]
Total == EndOf(Len(scan.ends))
Wanted == IF fetch = NoLimit \/ Total <= fetch THEN Total ELSE fetch

Batch(lo, hi) == [kind |-> "batch", lo |-> lo, hi |-> hi]
Finished == [kind |-> "finished"]
Failed == [kind |-> "failed"]
Nothing == [kind |-> "nothing"]

\* Mutation: the mode is chosen without looking at the limit.
ChooseModeIgnoringLimit(f) == Modes

\* CoveMaterializationMode::choose: a limit always streams; without one, the
\* filters, the top-n hint and the size of the tasks decide.
ChooseMode(f) == IF f # NoLimit THEN {"streaming"} ELSE Modes

Init ==
  /\ scan \in Scans
  /\ fetch \in Limits \cup {NoLimit}
  /\ mode \in ChooseMode(fetch)
  /\ prod = "files"
  /\ task = 0
  /\ remaining = IF mode = "streaming" THEN fetch ELSE NoLimit
  /\ stopped = (remaining = 0)
  /\ batch = Nothing
  /\ materialized = 0
  /\ recorded = -1
  /\ queue = <<>>
  /\ failed = FALSE
  /\ cons = "open"
  /\ delivered = 0

------------------------------------------------------------------------------
(* The decode task: spawn_blocking's closure.                               *)

\* Ok(stats): the metrics are recorded first, then Finished is sent.
Finish ==
  /\ recorded' = materialized
  /\ prod' = IF mode = "streaming" THEN "sendFinished" ELSE "exit"
  /\ UNCHANGED <<input, task, remaining, stopped, batch, materialized, queue,
                 failed, cons, delivered>>

\* Mutation: the sink is asked once, before the first file.
MoreFilesUnasked == (~stopped \/ task > 0) /\ task < Len(scan.ends)

\* The loop over the files: it ends when there is no task left or the sink
\* wants no more rows, which is asked before the first file and after each.
MoreFiles == ~stopped /\ task < Len(scan.ends)

NextFile ==
  /\ prod = "files" /\ MoreFiles
  /\ prod' = "decode"
  /\ UNCHANGED <<input, task, remaining, stopped, batch, materialized,
                 recorded, queue, failed, cons, delivered>>

NoMoreFiles == prod = "files" /\ ~MoreFiles /\ Finish

\* The loop over the tasks of a file is left after its last task, task i, and
\* as soon as the sink says Stop.
AfterTask(i, stop) ==
  IF stop \/ i = Len(scan.ends) \/ scan.file[i + 1] # scan.file[i]
  THEN "files" ELSE "decode"

\* Mutation: a batch is built even when the selection is empty.
DecodeEmptyBatch ==
  /\ prod = "decode"
  /\ EndOf(task + 1) = EndOf(task)
  /\ task' = task + 1
  /\ batch' = Batch(EndOf(task), EndOf(task + 1))
  /\ prod' = "send"
  /\ UNCHANGED <<input, remaining, stopped, materialized, recorded, queue,
                 failed, cons, delivered>>

\* A task whose morsel is pruned, hidden or selects no row emits nothing.
DecodeNothing ==
  /\ prod = "decode"
  /\ EndOf(task + 1) = EndOf(task)
  /\ task' = task + 1
  /\ prod' = AfterTask(task + 1, FALSE)
  /\ UNCHANGED <<input, remaining, stopped, batch, materialized, recorded,
                 queue, failed, cons, delivered>>

\* FetchLimitedDecodeSink cuts the batch to what remains of the limit.
Cut(lo, hi) == IF remaining # NoLimit /\ hi - lo > remaining
               THEN lo + remaining ELSE hi

DecodeBatch ==
  /\ prod = "decode"
  /\ EndOf(task + 1) > EndOf(task)
  /\ task' = task + 1
  /\ batch' = Batch(EndOf(task), Cut(EndOf(task), EndOf(task + 1)))
  /\ prod' = "send"
  /\ UNCHANGED <<input, remaining, stopped, materialized, recorded, queue,
                 failed, cons, delivered>>

\* What the limiting sink keeps and answers once the inner sink has answered.
Limit(rows, stop) ==
  LET left == IF remaining = NoLimit THEN NoLimit
              ELSE IF rows >= remaining THEN 0 ELSE remaining - rows
  IN  /\ remaining' = left
      /\ stopped' = (stopped \/ left = 0 \/ stop)
      /\ prod' = AfterTask(task, left = 0 \/ stop)

\* Mutation: the channel is unbounded.
RoomAlways == TRUE

Room == Len(queue) < Capacity \/ mode = "buffered"

\* Mutation: the rows decoded are counted, not the rows of the cut batch.
SendBatchCountingDecoded ==
  /\ prod = "send"
  /\ cons # "dropped" \/ mode = "buffered"
  /\ Room
  /\ queue' = Append(queue, batch)
  /\ materialized' = EndOf(task)
  /\ Limit(batch.hi - batch.lo, FALSE)
  /\ batch' = Nothing
  /\ UNCHANGED <<input, task, recorded, failed, cons, delivered>>

\* blocking_send, or Vec::push: the batch is accepted and counted.
SendBatch ==
  /\ prod = "send"
  /\ cons # "dropped" \/ mode = "buffered"
  /\ Room
  /\ queue' = Append(queue, batch)
  /\ materialized' = materialized + (batch.hi - batch.lo)
  /\ Limit(batch.hi - batch.lo, FALSE)
  /\ batch' = Nothing
  /\ UNCHANGED <<input, task, recorded, failed, cons, delivered>>

\* Mutation: a refused batch is sent again.
SendRetried ==
  prod = "send" /\ cons = "dropped" /\ mode = "streaming" /\ UNCHANGED vars

\* blocking_send finds the receiver gone: not an error, the sink says Stop.
SendRefused ==
  /\ prod = "send"
  /\ cons = "dropped" /\ mode = "streaming"
  /\ Limit(batch.hi - batch.lo, TRUE)
  /\ batch' = Nothing
  /\ UNCHANGED <<input, task, materialized, recorded, queue, failed, cons,
                 delivered>>

\* Any step of the decode loops may find corruption.
DecodeError ==
  /\ prod = "decode"
  /\ failed' = TRUE
  /\ prod' = IF mode = "streaming" THEN "sendFailed" ELSE "exit"
  /\ UNCHANGED <<input, task, remaining, stopped, batch, materialized,
                 recorded, queue, cons, delivered>>

\* A panic in the decode loops unwinds the closure and drops both senders.
Panic ==
  /\ prod = "decode"
  /\ failed' = TRUE
  /\ prod' = "exit"
  /\ UNCHANGED <<input, task, remaining, stopped, batch, materialized,
                 recorded, queue, cons, delivered>>

\* The last event; its send error is dropped with `let _`.
SendLast ==
  /\ prod \in {"sendFinished", "sendFailed"}
  /\ \/ /\ cons # "dropped" /\ Room
        /\ queue' = Append(queue, IF prod = "sendFinished" THEN Finished
                                                           ELSE Failed)
     \/ /\ cons = "dropped"
        /\ UNCHANGED queue
  /\ prod' = "exit"
  /\ UNCHANGED <<input, task, remaining, stopped, batch, materialized,
                 recorded, failed, cons, delivered>>

\* The closure returned and its senders are gone; the join handle follows.
Join ==
  /\ prod = "exit"
  /\ prod' = "joined"
  /\ UNCHANGED <<input, task, remaining, stopped, batch, materialized,
                 recorded, queue, failed, cons, delivered>>

Producer == \/ NextFile \/ NoMoreFiles \/ DecodeNothing \/ DecodeBatch
            \/ SendBatch \/ SendRefused \/ SendLast \/ Join
Faults == DecodeError \/ Panic

------------------------------------------------------------------------------
(* The stream: poll_next.  A poll that is not ready changes nothing.        *)

ended(s) == cons' = s /\ UNCHANGED delivered
task_vars == <<input, prod, task, remaining, stopped, batch, materialized,
               recorded, failed>>

\* The buffered stream sees the vector only when the task has ended well.
Ready == mode = "streaming" \/ (prod = "joined" /\ ~failed)

\* Mutation: the newest batch is taken, pop_back for pop_front.
PollNewest ==
  /\ cons = "open" /\ Ready
  /\ queue # <<>> /\ Head(queue).kind = "batch"
  /\ LET newest == queue[Len(queue)]
     IN  /\ newest.kind = "batch"
         /\ delivered' = delivered + (newest.hi - newest.lo)
  /\ queue' = SubSeq(queue, 1, Len(queue) - 1)
  /\ UNCHANGED <<task_vars, cons>>

PollBatch ==
  /\ cons = "open" /\ Ready
  /\ queue # <<>> /\ Head(queue).kind = "batch"
  /\ delivered' = delivered + (Head(queue).hi - Head(queue).lo)
  /\ queue' = Tail(queue)
  /\ UNCHANGED <<task_vars, cons>>

PollLast ==
  /\ cons = "open" /\ Ready
  /\ queue # <<>> /\ Head(queue).kind \in {"finished", "failed"}
  /\ queue' = Tail(queue)
  /\ ended(IF Head(queue).kind = "finished" THEN "eof" ELSE "error")
  /\ UNCHANGED task_vars

\* Mutation: a failed task is reported without draining the channel.
PollJoinedEarly ==
  /\ cons = "open"
  /\ prod = "joined"
  /\ queue = <<>> \/ failed
  /\ ended(IF failed THEN "error" ELSE "eof")
  /\ UNCHANGED <<task_vars, queue>>

\* Mutation: only a clean end of the task ends the stream.
PollJoinedClean ==
  /\ cons = "open"
  /\ prod = "joined" /\ ~failed
  /\ queue = <<>>
  /\ ended("eof")
  /\ UNCHANGED <<task_vars, queue>>

\* The channel is empty and closed, or the vector is used up: the join handle
\* tells a clean end from an error or a panic.
PollJoined ==
  /\ cons = "open"
  /\ prod = "joined"
  /\ queue = <<>> \/ (mode = "buffered" /\ failed)
  /\ ended(IF failed THEN "error" ELSE "eof")
  /\ UNCHANGED <<task_vars, queue>>

Poll == PollBatch \/ PollLast \/ PollJoined

\* The engine drops the stream: the receiver closes and drains the channel;
\* the task is detached and goes on until a send is refused.
DropStream ==
  /\ cons = "open"
  /\ ended("dropped")
  /\ queue' = IF mode = "streaming" THEN <<>> ELSE queue
  /\ UNCHANGED task_vars

Terminated == prod = "joined" /\ cons # "open" /\ UNCHANGED vars

Next == Producer \/ Faults \/ Poll \/ DropStream \/ Terminated

Spec == Init /\ [][Next]_vars
\* The blocking pool runs the task, and an engine that has not dropped the
\* stream polls it again.
FairSpec == Spec /\ WF_vars(Producer) /\ WF_vars(Poll)

------------------------------------------------------------------------------
(* Properties                                                               *)

Batches == {b \in [kind : {"batch"}, lo : Nat, hi : Nat] : b.lo < b.hi}

\* The states the code can name; a batch that is emitted has rows.
TypeOK ==
  /\ scan \in Scans /\ fetch \in Limits \cup {NoLimit} /\ mode \in Modes
  /\ prod \in {"files", "decode", "send", "sendFinished", "sendFailed", "exit",
               "joined"}
  /\ task \in 0..Len(scan.ends)
  /\ remaining \in Nat \cup {NoLimit} /\ stopped \in BOOLEAN
  /\ IF prod = "send" THEN batch \in Batches ELSE batch = Nothing
  /\ materialized \in Nat /\ recorded \in Nat \cup {-1}
  /\ queue \in Seq(Batches \cup {Finished, Failed})
  /\ failed \in BOOLEAN
  /\ cons \in {"open", "eof", "error", "dropped"}
  /\ delivered \in Nat

\* The batches the engine is about to be handed continue the rows it has, with
\* no gap and no repetition, across tasks and files: the row order that
\* decode.rs promises, through the channel and through the vector.
InOrder ==
  cons # "dropped" =>
    \A i \in 1..Len(queue) :
       queue[i].kind = "batch" =>
         queue[i].lo = IF i = 1 THEN delivered ELSE queue[i - 1].hi

\* A slow engine holds the decode task back: whatever the interleaving, no more
\* than the capacity of the channel is decoded ahead, besides the batch in hand.
Backpressure == mode = "streaming" => Len(queue) <= Capacity

\* The engine may read the metrics as soon as the stream has ended: they count
\* the rows it was handed, although the decode task records them on its own
\* thread.
MetricsAtEof == cons = "eof" => recorded = delivered

\* An error is reported after every batch decoded before it (streaming) or
\* instead of all of them (buffered), never for a scan that did not fail.
ErrorAfterRows ==
  cons = "error" => /\ failed
                    /\ delivered = IF mode = "streaming" THEN materialized ELSE 0

\* Once the sink wants no more rows - the limit is reached or the engine is
\* gone - no further task is decoded, in this file or in the next.
StopsDecoding == [][stopped => task' = task]_vars

\* Every stream the engine does not drop ends, with every interleaving of
\* failures and panics.
StreamEnds == <>(cons # "open")

\* The blocking thread is given back, also when the engine has left while the
\* task waits for room in the channel.
TaskEnds == <>(prod = "joined")

\* What the engine was promised: RowStream.
Promise == INSTANCE RowStream WITH wanted <- Wanted, delivered <- delivered,
                                   status <- cons
KeepsPromise == Promise!Spec
==============================================================================
