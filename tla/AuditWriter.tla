----------------------------- MODULE AuditWriter ----------------------------
(***************************************************************************)
(* One segment of the audit chain and the processes that claim it: the     *)
(* advisory lock, appends whose commit may be lost sight of, the conflict  *)
(* the next append runs into, and the reconciliation that repairs it.      *)
(*                                                                         *)
(* An audited transaction is one action: it holds the process's mutex and  *)
(* the primary key decides between processes. A hash is the sequence of    *)
(* contents it covers, so hashes are equal only for equal histories.       *)
(***************************************************************************)
EXTENDS Integers, Sequences

CONSTANTS
    Processes,   \* incarnations configured with this writer id
    Entries,     \* what callers append, one call each
    Marker,      \* the writer.reconciled entry
    Unclaimed,   \* nobody holds the advisory lock
    MaxDrift,    \* maxReconcilableDrift
    MaxFaults    \* bound: lost commits, failed transactions, lost claims, deaths

ASSUME WriterAssumption ==
    /\ Marker \notin Entries /\ Unclaimed \notin Processes
    /\ MaxDrift \in Nat /\ MaxFaults \in Nat

VARIABLES
    log,      \* audit_log rows of the segment: [by, entry, prev, hash]
    lock,     \* who holds the advisory lock
    head,     \* headSeq and headHash, by process
    broken,   \* the conflict flag, by process
    pc, call, \* where the process's one running InTx is, and for whom
    status,   \* what each entry's caller was told
    faults

vars == <<log, lock, head, broken, pc, call, status, faults>>

ZeroHash == <<>>
Genesis == [seq |-> 0, hash |-> ZeroHash]
NoCall == [entry |-> Marker, retry |-> FALSE, believed |-> Genesis]

Init ==
    /\ log = <<>> /\ lock = Unclaimed
    /\ head = [p \in Processes |-> Genesis] /\ broken = [p \in Processes |-> FALSE]
    /\ pc = [p \in Processes |-> "down"] /\ call = [p \in Processes |-> NoCall]
    /\ status = [e \in Entries |-> "new"]
    /\ faults = 0

-----------------------------------------------------------------------------
RecordHash(prev, p, e) == Append(prev, <<p, e>>)
Row(p, e, prev) == [by |-> p, entry |-> e, prev |-> prev, hash |-> RecordHash(prev, p, e)]

(* reloadHeadLocked: the last row of the segment.                          *)
Tip == IF log = <<>> THEN Genesis ELSE [seq |-> Len(log), hash |-> log[Len(log)].hash]

(* ClaimWriter, at startup: pg_try_advisory_lock decides.                  *)
ClaimWriter(p) ==
    /\ pc[p] = "down" /\ lock = Unclaimed
    /\ lock' = p
    /\ head' = [head EXCEPT ![p] = Tip]
    /\ broken' = [broken EXCEPT ![p] = FALSE]
    /\ pc' = [pc EXCEPT ![p] = "idle"]
    /\ UNCHANGED <<log, call, status, faults>>

(* The call ends with what its caller is told.                             *)
Return(p, told) ==
    /\ pc' = [pc EXCEPT ![p] = "idle"]
    /\ call' = [call EXCEPT ![p] = NoCall]
    /\ status' = [status EXCEPT ![call[p].entry] = told]

(* Mutant: a conflict is retried as long as it lasts.                      *)
ConflictedForever(p) ==
    IF call[p].retry
    THEN pc' = [pc EXCEPT ![p] = "begin"] /\ UNCHANGED <<call, status>>
    ELSE Return(p, "error")

(* Append retries once, and only on ErrChainConflict; InTx never does.     *)
Conflicted(p) ==
    IF call[p].retry
    THEN /\ pc' = [pc EXCEPT ![p] = "begin"]
         /\ call' = [call EXCEPT ![p].retry = FALSE]
         /\ UNCHANGED status
    ELSE Return(p, "error")

Fault == faults < MaxFaults /\ faults' = faults + 1

-----------------------------------------------------------------------------
(* InTx, for Append (retry) or for a caller's own transaction.             *)
Begin(p, e, retry) ==
    /\ pc[p] = "idle" /\ status[e] = "new"
    /\ pc' = [pc EXCEPT ![p] = "begin"]
    /\ call' = [call EXCEPT ![p] = [NoCall EXCEPT !.entry = e, !.retry = retry]]
    /\ status' = [status EXCEPT ![e] = "running"]
    /\ UNCHANGED <<log, lock, head, broken, faults>>

Enter(p) ==
    /\ pc[p] = "begin"
    /\ pc' = [pc EXCEPT ![p] = IF broken[p] THEN "hold" ELSE "tx"]
    /\ UNCHANGED <<log, lock, head, broken, call, status, faults>>

(* inTxLocked and Appender.Append: INSERT at headSeq + 1. The head moves   *)
(* only when the commit is observed; a taken sequence number rolls back    *)
(* and stops the writer.                                                   *)
Free(p) == head[p].seq = Len(log)
Insert(p, e) == log' = Append(log, Row(p, e, head[p].hash))
Advanced(p) == [head EXCEPT ![p] = [seq |-> @.seq + 1, hash |-> log'[Len(log')].hash]]

Commit(p) ==
    /\ pc[p] = "tx" /\ Free(p)
    /\ Insert(p, call[p].entry)
    /\ head' = Advanced(p)
    /\ Return(p, "ok")
    /\ UNCHANGED <<lock, broken, faults>>

(* Mutant: an unobserved commit reloads the head and is retried.           *)
CommitLostRetried(p) ==
    /\ pc[p] = "tx" /\ Free(p) /\ Fault
    /\ Insert(p, call[p].entry)
    /\ head' = Advanced(p)
    /\ Conflicted(p)
    /\ UNCHANGED <<lock, broken>>

CommitLost(p) ==
    /\ pc[p] = "tx" /\ Free(p) /\ Fault
    /\ Insert(p, call[p].entry)
    /\ Return(p, "error")
    /\ UNCHANGED <<lock, head, broken>>

RolledBack(p) ==
    /\ pc[p] = "tx" /\ Fault
    /\ Return(p, "error")
    /\ UNCHANGED <<log, lock, head, broken>>

Conflict(p) ==
    /\ pc[p] = "tx" /\ ~Free(p)
    /\ broken' = [broken EXCEPT ![p] = TRUE]
    /\ Conflicted(p)
    /\ UNCHANGED <<log, lock, head, faults>>

-----------------------------------------------------------------------------
(* reconcileLocked.                                                        *)

VerifyHold(p) ==
    /\ pc[p] = "hold"
    /\ IF lock = p
       THEN pc' = [pc EXCEPT ![p] = "tail"] /\ UNCHANGED <<call, status>>
       ELSE Conflicted(p)
    /\ UNCHANGED <<log, lock, head, broken, faults>>

(* Every row past the believed head re-chains from it and hashes to its    *)
(* contents.                                                               *)
Rechains(p) ==
    \A i \in head[p].seq + 1 .. Len(log) :
        /\ log[i].prev = IF i = head[p].seq + 1 THEN head[p].hash ELSE log[i - 1].hash
        /\ log[i].hash = RecordHash(log[i].prev, log[i].by, log[i].entry)

(* Mutant: the new sequence number is adopted with the believed hash.      *)
ReadTailSeqOnly(p) ==
    /\ pc[p] = "tail"
    /\ LET drift == Len(log) - head[p].seq
       IN  IF drift \in 1 .. MaxDrift /\ Rechains(p)
           THEN /\ call' = [call EXCEPT ![p].believed = head[p]]
                /\ head' = [head EXCEPT ![p].seq = Len(log)]
                /\ pc' = [pc EXCEPT ![p] = "mark"]
                /\ UNCHANGED status
           ELSE Conflicted(p) /\ UNCHANGED head
    /\ UNCHANGED <<log, lock, broken, faults>>

ReadTail(p) ==
    /\ pc[p] = "tail"
    /\ LET drift == Len(log) - head[p].seq
       IN  IF drift \in 1 .. MaxDrift /\ Rechains(p)
           THEN /\ call' = [call EXCEPT ![p].believed = head[p]]
                /\ head' = [head EXCEPT ![p] = Tip]
                /\ pc' = [pc EXCEPT ![p] = "mark"]
                /\ UNCHANGED status
           ELSE Conflicted(p) /\ UNCHANGED head
    /\ UNCHANGED <<log, lock, broken, faults>>

(* The marker has to commit, and be seen to, before the writer is healthy; *)
(* otherwise the head goes back and the check is repeated later.           *)
Mark(p) ==
    /\ pc[p] = "mark" /\ Free(p)
    /\ Insert(p, Marker)
    /\ head' = Advanced(p)
    /\ broken' = [broken EXCEPT ![p] = FALSE]
    /\ pc' = [pc EXCEPT ![p] = "tx"]
    /\ UNCHANGED <<lock, call, status, faults>>

MarkFails(p) ==
    /\ pc[p] = "mark"
    /\ \/ ~Free(p) /\ UNCHANGED <<log, faults>>
       \/ Fault /\ UNCHANGED log
       \/ Fault /\ Free(p) /\ Insert(p, Marker)
    /\ head' = [head EXCEPT ![p] = call[p].believed]
    /\ Conflicted(p)
    /\ UNCHANGED <<lock, broken>>

-----------------------------------------------------------------------------
(* The lock's connection drops. The process does not notice: nothing on    *)
(* the append path looks at it.                                            *)
LoseClaim(p) ==
    /\ lock = p /\ Fault
    /\ lock' = Unclaimed
    /\ UNCHANGED <<log, head, broken, pc, call, status>>

(* Close, or the death of the process; Postgres reaps the connection.      *)
Stop(p) ==
    /\ pc[p] # "down" /\ Fault
    /\ pc' = [pc EXCEPT ![p] = "down"]
    /\ lock' = IF lock = p THEN Unclaimed ELSE lock
    /\ call' = [call EXCEPT ![p] = NoCall]
    /\ status' = IF pc[p] = "idle" THEN status ELSE [status EXCEPT ![call[p].entry] = "error"]
    /\ UNCHANGED <<log, head, broken>>

-----------------------------------------------------------------------------
Run(p) == \/ Enter(p) \/ Commit(p) \/ CommitLost(p) \/ RolledBack(p) \/ Conflict(p)
          \/ VerifyHold(p) \/ ReadTail(p) \/ Mark(p) \/ MarkFails(p)

Next == \E p \in Processes :
            \/ ClaimWriter(p) \/ Run(p) \/ LoseClaim(p) \/ Stop(p)
            \/ \E e \in Entries, retry \in BOOLEAN : Begin(p, e, retry)

Spec == Init /\ [][Next]_vars

(* A process that is running a transaction finishes it. Nothing is assumed *)
(* of callers, claims or faults.                                           *)
FairSpec == Spec /\ \A p \in Processes : WF_vars(Run(p))

-----------------------------------------------------------------------------
(* Types.                                                                  *)
Contents == Processes \X (Entries \cup {Marker})
Hashes == Seq(Contents)
Heads == [seq : Nat, hash : Hashes]
TypeOK ==
    /\ log \in Seq([by : Processes, entry : Entries \cup {Marker}, prev : Hashes, hash : Hashes])
    /\ lock \in Processes \cup {Unclaimed}
    /\ head \in [Processes -> Heads] /\ broken \in [Processes -> BOOLEAN]
    /\ pc \in [Processes -> {"down", "idle", "begin", "tx", "hold", "tail", "mark"}]
    /\ call \in [Processes -> [entry : Entries \cup {Marker}, retry : BOOLEAN, believed : Heads]]
    /\ status \in [Entries -> {"new", "running", "ok", "error"}]
    /\ faults \in Nat

-----------------------------------------------------------------------------
(* Properties.                                                             *)

(* VerifyChain finds no fault: no gap, no row that does not link to the    *)
(* one before it, whatever commits were lost, however many processes wrote *)
(* with the same writer id, and whoever reconciled.                        *)
ChainVerifies ==
    \A i \in DOMAIN log :
        /\ log[i].prev = IF i = 1 THEN ZeroHash ELSE log[i - 1].hash
        /\ log[i].hash = RecordHash(log[i].prev, log[i].by, log[i].entry)

(* No entry lands twice, retry included, and an acknowledged entry is in   *)
(* the log (Append: "it rolled back whole, so running it again writes what *)
(* it was always going to write").                                         *)
Landed == {[seq |-> i, entry |-> log[i].entry] : i \in {j \in DOMAIN log : log[j].entry # Marker}}
Contract == INSTANCE AppendLog WITH landed <- Landed
ImplementsAppendLog == Contract!Spec

(* A call ends: the retry and the reconciliation inside it cannot chase    *)
(* each other for ever.                                                    *)
EveryCallReturns == \A e \in Entries : status[e] = "running" ~> status[e] \in {"ok", "error"}

=============================================================================
