----------------------------- MODULE AuditBuffer ----------------------------
(***************************************************************************)
(* The bounded, asynchronous path from the check surface to the audit      *)
(* chain: Record on every request, one flusher, and a chain writer that    *)
(* may refuse a row, or commit one and fail to say so (AppendLog.tla).     *)
(*                                                                         *)
(* Every critical section under the buffer's mutex is an action; the       *)
(* flusher calls the writer between them. Events are numbered as they are  *)
(* recorded. The buffer is memory: the model ends with the process.        *)
(***************************************************************************)
EXTENDS Integers, Sequences, FiniteSets, Functions

CONSTANTS
    Capacity, BatchSize, Threshold,   \* AuditConfig
    MaxEvents,                        \* bound: events recorded
    MaxFailures                       \* bound: writes that fail or whose commit is lost

ASSUME BufferAssumption ==
    /\ {Capacity, BatchSize, Threshold} \subseteq Nat \ {0}
    /\ {MaxEvents, MaxFailures} \subseteq Nat

VARIABLES
    recorded,      \* how many events were handed to Record
    queue,         \* events waiting
    pendingLost,   \* losses not yet marked in the chain
    dropped,       \* losses in all
    alerting,
    flusher,       \* "idle", "gap" or "batch"
    lost, batch,   \* what the flusher took out under the lock
    leaves,        \* chain: events under some batch root
    marked,        \* chain: sum of the gap markers
    unseen,        \* how many commits landed without the writer saying so
    failures

buffer == <<queue, pendingLost, dropped, alerting>>
chain == <<leaves, marked, unseen>>
bufferVars == <<recorded, buffer, flusher, lost, batch, chain, failures>>

InitBuffer ==
    /\ recorded = 0 /\ queue = <<>> /\ pendingLost = 0 /\ dropped = 0 /\ alerting = FALSE
    /\ flusher = "idle" /\ lost = 0 /\ batch = <<>>
    /\ leaves = {} /\ marked = 0 /\ unseen = 0 /\ failures = 0

(* dropLocked.                                                             *)
Drop(n) ==
    /\ dropped' = dropped + n
    /\ pendingLost' = pendingLost + n
    /\ alerting' = (alerting \/ dropped' >= Threshold)

Record ==
    /\ recorded < MaxEvents
    /\ recorded' = recorded + 1
    /\ IF Len(queue) >= Capacity
       THEN Drop(1) /\ UNCHANGED queue
       ELSE queue' = Append(queue, recorded') /\ UNCHANGED <<pendingLost, dropped, alerting>>
    /\ UNCHANGED <<flusher, lost, batch, chain, failures>>

(* The outcomes of AppendCheckGap and AppendCheckBatch.                    *)
Outcomes == {"ok", "lost", "failed"}
Written(outcome) == /\ outcome # "ok" => failures < MaxFailures
                    /\ failures' = IF outcome = "ok" THEN failures ELSE failures + 1
                    /\ unseen' = IF outcome = "lost" THEN unseen + 1 ELSE unseen

-----------------------------------------------------------------------------
(* Flush, on the ticker and once more at shutdown.                         *)

FlushTake ==
    /\ flusher = "idle"
    /\ batch' = queue /\ queue' = <<>>
    /\ lost' = pendingLost /\ pendingLost' = 0
    /\ flusher' = IF lost' > 0 THEN "gap" ELSE "batch"
    /\ UNCHANGED <<recorded, dropped, alerting, chain, failures>>

(* Mutant: a marker that was refused is forgotten.                         *)
FlushGapForgets(outcome) ==
    /\ flusher = "gap" /\ Written(outcome)
    /\ marked' = IF outcome = "failed" THEN marked ELSE marked + lost
    /\ lost' = 0
    /\ flusher' = "batch"
    /\ UNCHANGED <<recorded, queue, pendingLost, dropped, alerting, batch, leaves>>

(* AppendCheckGap; a marker that was refused goes back to the buffer.      *)
FlushGap(outcome) ==
    /\ flusher = "gap" /\ Written(outcome)
    /\ marked' = IF outcome = "failed" THEN marked ELSE marked + lost
    /\ pendingLost' = IF outcome = "ok" THEN pendingLost ELSE pendingLost + lost
    /\ lost' = 0
    /\ flusher' = "batch"
    /\ UNCHANGED <<recorded, queue, dropped, alerting, batch, leaves>>

Chunk == SubSeq(batch, 1, IF Len(batch) < BatchSize THEN Len(batch) ELSE BatchSize)

(* One turn of the loop: AppendCheckBatch on the next chunk; a chunk that  *)
(* was refused is dropped and counted.                                     *)
FlushBatch(outcome) ==
    /\ flusher = "batch" /\ batch # <<>> /\ Written(outcome)
    /\ leaves' = IF outcome = "failed" THEN leaves ELSE leaves \cup Range(Chunk)
    /\ IF outcome = "ok" THEN UNCHANGED <<pendingLost, dropped, alerting>> ELSE Drop(Len(Chunk))
    /\ batch' = SubSeq(batch, Len(Chunk) + 1, Len(batch))
    /\ UNCHANGED <<recorded, queue, flusher, lost, marked>>

(* Mutant: the alert clears as soon as the queue is short.                 *)
FlushEndEarly ==
    /\ flusher = "batch" /\ batch = <<>>
    /\ alerting' = (alerting /\ ~(Len(queue) <= Capacity \div 2))
    /\ flusher' = "idle"
    /\ UNCHANGED <<recorded, queue, pendingLost, dropped, lost, batch, chain, failures>>

(* Mutant: the alert waits for the losses in all, which never fall.        *)
FlushEndNever ==
    /\ flusher = "batch" /\ batch = <<>>
    /\ alerting' = (alerting /\ ~(dropped = 0 /\ Len(queue) <= Capacity \div 2))
    /\ flusher' = "idle"
    /\ UNCHANGED <<recorded, queue, pendingLost, dropped, lost, batch, chain, failures>>

(* The alert clears once the loss is in the chain and the queue is short.  *)
FlushEnd ==
    /\ flusher = "batch" /\ batch = <<>>
    /\ alerting' = (alerting /\ ~(pendingLost = 0 /\ Len(queue) <= Capacity \div 2))
    /\ flusher' = "idle"
    /\ UNCHANGED <<recorded, queue, pendingLost, dropped, lost, batch, chain, failures>>

-----------------------------------------------------------------------------
Flush == FlushTake \/ FlushEnd \/ \E outcome \in Outcomes : FlushGap(outcome) \/ FlushBatch(outcome)
NextBuffer == Record \/ Flush

SpecBuffer == InitBuffer /\ [][NextBuffer]_bufferVars

(* Run keeps its ticker. Nothing is assumed of requests, and the writer    *)
(* fails at most MaxFailures times.                                        *)
FairBuffer == SpecBuffer /\ WF_bufferVars(Flush)

(* Types.                                                                  *)
BufferTypeOK ==
    /\ recorded \in Nat /\ pendingLost \in Nat /\ dropped \in Nat /\ lost \in Nat
    /\ marked \in Nat /\ unseen \in Nat /\ failures \in Nat
    /\ queue \in Seq(1 .. recorded) /\ batch \in Seq(1 .. recorded)
    /\ leaves \subseteq 1 .. recorded
    /\ alerting \in BOOLEAN /\ flusher \in {"idle", "gap", "batch"}

-----------------------------------------------------------------------------
(* Properties.                                                             *)

Waiting == Range(queue) \cup Range(batch)
Missing == (1 .. recorded) \ (Waiting \cup leaves)
Accounted == marked + pendingLost + lost

(* AuditBuffer: "every event either becomes a leaf of a batch root or is   *)
(* counted into a gap marker". The chain may over-report (a commit nobody  *)
(* saw), never under-report, and is exact when every commit was seen.      *)
NoSilentLoss ==
    /\ Accounted >= Cardinality(Missing)
    /\ unseen = 0 => Accounted = Cardinality(Missing)

(* FailClosed: once the losses reached the threshold the surface refuses   *)
(* "until the loss has been written into the chain as a gap marker",       *)
(* through flushes that take the counter out, fail and put it back.        *)
RefusesUntilMarked ==
    (dropped >= Threshold /\ pendingLost + lost > 0) => alerting

(* A loss is not left in the buffer: some later flush gets its marker into *)
(* the chain, however many failed before, and the alert clears (Run, Flush).*)
LossesGetMarked == pendingLost > 0 ~> (pendingLost + lost = 0 /\ ~alerting)
=============================================================================
