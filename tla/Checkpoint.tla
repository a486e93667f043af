----------------------------- MODULE Checkpoint -----------------------------
(***************************************************************************)
(* Signed checkpoints of the audit chain: every process records one from   *)
(* time to time, publishes it to the sink on its own host, repairs that    *)
(* sink from the database, and an auditor verifies a sink against the      *)
(* database and the log while all of that goes on.                         *)
(*                                                                         *)
(* A segment of the log is its length (AuditWriter.tla shows its chain     *)
(* holds); a checkpoint's digest is the series of head vectors it covers.  *)
(***************************************************************************)
EXTENDS Integers, SequencesExt

CONSTANTS
    Hosts,       \* processes with a checkpoint loop, one file sink each
    Writers,     \* segments of the audit log
    Auditors,    \* runs of `stamp audit verify`
    MaxRows,     \* bound: rows per segment
    MaxSeries,   \* bound: checkpoints recorded
    MaxFaults    \* bound: deliveries that fail, restarts

ASSUME CheckpointAssumption == {MaxRows, MaxSeries, MaxFaults} \subseteq Nat

VARIABLES
    rows,       \* the length of each segment
    stored,     \* audit_checkpoints
    sink,       \* the checkpoint file of each host
    torn,       \* hosts whose file has a line that was cut short
    pc, todo,   \* the loop of each host, and the checkpoints it has still to publish
    have,       \* the sequence numbers Sync read in the sink
    seen,       \* the sink an auditor has read
    report,     \* the faults an auditor found
    faults

files == <<sink, torn>>
vars == <<rows, stored, files, pc, todo, have, seen, report, faults>>

Init ==
    /\ rows = [w \in Writers |-> 0]
    /\ stored = <<>> /\ sink = [h \in Hosts |-> <<>>] /\ torn = {}
    /\ pc = [h \in Hosts |-> "idle"] /\ todo = [h \in Hosts |-> {}]
    /\ have = [h \in Hosts |-> {}]
    /\ seen = [v \in Auditors |-> <<>>] /\ report = [v \in Auditors |-> {}]
    /\ faults = 0

AppendRow(w) ==
    /\ rows[w] < MaxRows
    /\ rows' = [rows EXCEPT ![w] = @ + 1]
    /\ UNCHANGED <<stored, files, pc, todo, have, seen, report, faults>>

Seqs(cps) == {cps[i].seq : i \in DOMAIN cps}

-----------------------------------------------------------------------------
(* checkpointOnce: Sync, then Checkpoint whatever became of it.            *)

(* A file with a line that does not parse cannot be read: Sync gives up.   *)
SyncReadSink(h) ==
    /\ pc[h] = "idle"
    /\ IF h \in torn
       THEN pc' = [pc EXCEPT ![h] = "record"] /\ UNCHANGED have
       ELSE /\ have' = [have EXCEPT ![h] = Seqs(sink[h])]
            /\ pc' = [pc EXCEPT ![h] = "stored"]
    /\ UNCHANGED <<rows, stored, files, todo, seen, report, faults>>

(* Mutant: everything stored is republished.                               *)
SyncReadStoredAll(h) ==
    /\ pc[h] = "stored"
    /\ todo' = [todo EXCEPT ![h] = Range(stored)]
    /\ have' = [have EXCEPT ![h] = {}]
    /\ pc' = [pc EXCEPT ![h] = "sync"]
    /\ UNCHANGED <<rows, stored, files, seen, report, faults>>

(* Mutant: only what follows the newest checkpoint of the sink is repaired.*)
SyncReadStoredNewer(h) ==
    /\ pc[h] = "stored"
    /\ todo' = [todo EXCEPT ![h] = {cp \in Range(stored) : \A s \in have[h] : cp.seq > s}]
    /\ have' = [have EXCEPT ![h] = {}]
    /\ pc' = [pc EXCEPT ![h] = "sync"]
    /\ UNCHANGED <<rows, stored, files, seen, report, faults>>

SyncReadStored(h) ==
    /\ pc[h] = "stored"
    /\ todo' = [todo EXCEPT ![h] = {cp \in Range(stored) : cp.seq \notin have[h]}]
    /\ have' = [have EXCEPT ![h] = {}]
    /\ pc' = [pc EXCEPT ![h] = "sync"]
    /\ UNCHANGED <<rows, stored, files, seen, report, faults>>

(* Sync goes through what is missing in the order of the series.           *)
First(cps) == CHOOSE cp \in cps : \A other \in cps : cp.seq <= other.seq

(* FileSink.Publish: the line is written, or the delivery fails before,    *)
(* half way through or after it (a full disk, the fsync). Nothing is ever  *)
(* cut back, so what is appended to a torn file cannot be read either.     *)
Write(h) == /\ sink' = IF h \in torn THEN sink ELSE [sink EXCEPT ![h] = Append(@, First(todo[h]))]
            /\ UNCHANGED torn
Published(h) == Write(h) /\ UNCHANGED faults
Fault == faults < MaxFaults /\ faults' = faults + 1
Undelivered(h) == /\ Fault
                  /\ \/ Write(h)
                     \/ UNCHANGED files
                     \/ torn' = torn \cup {h} /\ UNCHANGED sink

SyncPublish(h) ==
    /\ pc[h] = "sync" /\ todo[h] # {}
    /\ \/ /\ Published(h)
          /\ todo' = [todo EXCEPT ![h] = @ \ {First(@)}]
          /\ UNCHANGED pc
       \/ /\ Undelivered(h)
          /\ todo' = [todo EXCEPT ![h] = {}]
          /\ pc' = [pc EXCEPT ![h] = "record"]
    /\ UNCHANGED <<rows, stored, have, seen, report>>

SyncDone(h) ==
    /\ pc[h] = "sync" /\ todo[h] = {}
    /\ pc' = [pc EXCEPT ![h] = "record"]
    /\ UNCHANGED <<rows, stored, files, todo, have, seen, report, faults>>

(* The transaction of Checkpoint: under the series lock, the next sequence *)
(* number, the digest of the last checkpoint, and the heads as of now.     *)
LastDigest == IF stored = <<>> THEN <<>> ELSE Last(stored).digest
NewCheckpoint(heads) ==
    [seq |-> Len(stored) + 1, heads |-> heads, prev |-> LastDigest,
     digest |-> Append(LastDigest, heads)]
(* Mutant: the series is continued from the process's own sink.            *)
RecordCheckpointFromSink(h) ==
    /\ pc[h] = "record" /\ Len(stored) < MaxSeries
    /\ LET prev == IF sink[h] = <<>> THEN <<>> ELSE Last(sink[h]).digest
       IN  stored' = Append(stored, [NewCheckpoint(rows) EXCEPT !.prev = prev,
                                                                !.digest = Append(prev, rows)])
    /\ todo' = [todo EXCEPT ![h] = {Last(stored')}]
    /\ pc' = [pc EXCEPT ![h] = "publish"]
    /\ UNCHANGED <<rows, files, have, seen, report, faults>>

RecordCheckpoint(h) ==
    /\ pc[h] = "record" /\ Len(stored) < MaxSeries
    /\ stored' = Append(stored, NewCheckpoint(rows))
    /\ todo' = [todo EXCEPT ![h] = {Last(stored')}]
    /\ pc' = [pc EXCEPT ![h] = "publish"]
    /\ UNCHANGED <<rows, files, have, seen, report, faults>>

PublishCheckpoint(h) ==
    /\ pc[h] = "publish"
    /\ Published(h) \/ Undelivered(h)
    /\ todo' = [todo EXCEPT ![h] = {}]
    /\ pc' = [pc EXCEPT ![h] = "idle"]
    /\ UNCHANGED <<rows, stored, have, seen, report>>

(* The transaction fails and rolls back.                                   *)
Abandon(h) ==
    /\ pc[h] = "record"
    /\ pc' = [pc EXCEPT ![h] = "idle"]
    /\ UNCHANGED <<rows, stored, files, todo, have, seen, report, faults>>

(* The process dies anywhere in the loop; the next one starts it over.     *)
Restart(h) ==
    /\ pc[h] # "idle" /\ Fault
    /\ pc' = [pc EXCEPT ![h] = "idle"]
    /\ todo' = [todo EXCEPT ![h] = {}]
    /\ have' = [have EXCEPT ![h] = {}]
    /\ UNCHANGED <<rows, stored, files, seen, report>>

-----------------------------------------------------------------------------
(* VerifyCheckpoints: the sink is read, then the database, then each head. *)
VerifyReadSink(v, h) ==
    /\ seen[v] = <<>> /\ sink[h] # <<>> /\ h \notin torn
    /\ seen' = [seen EXCEPT ![v] = sink[h]]
    /\ UNCHANGED <<rows, stored, files, pc, todo, have, report, faults>>

(* Each checkpoint is compared with the one that sort.Slice puts before    *)
(* it, the first one with number zero and the zero hash. (No sink holds a  *)
(* number twice: how the sort breaks ties never shows.)                    *)
Origin == [seq |-> 0, digest |-> <<>>]
Sorted(ext, j, i) == ext[j].seq < ext[i].seq \/ (ext[j].seq = ext[i].seq /\ j < i)
IsPrior(ext, j, i) ==
    Sorted(ext, j, i) /\ \A k \in DOMAIN ext : Sorted(ext, k, i) => k = j \/ Sorted(ext, k, j)

(* Mutant: the checkpoints are compared in file order.                     *)
PriorInFile(ext, i) == IF i = 1 THEN Origin ELSE ext[i - 1]

Prior(ext, i) == IF \E j \in DOMAIN ext : IsPrior(ext, j, i)
                 THEN ext[CHOOSE j \in DOMAIN ext : IsPrior(ext, j, i)]
                 ELSE Origin

SeriesFaults(ext) ==
    {<<"gap", ext[i].seq>> : i \in {j \in DOMAIN ext : ext[j].seq # Prior(ext, j).seq + 1}}
    \cup {<<"chain", ext[i].seq>> : i \in {j \in DOMAIN ext : ext[j].prev # Prior(ext, j).digest}}
    \cup {<<"copy", ext[i].seq>> : i \in {j \in DOMAIN ext :
        ext[j].seq \in DOMAIN stored /\ stored[ext[j].seq].digest # ext[j].digest}}
    \cup {<<"head", ext[i].seq>> : i \in {j \in DOMAIN ext :
        \E w \in Writers : ext[j].heads[w] > rows[w]}}
UndeliveredFaults(ext) == {<<"undelivered", s>> : s \in DOMAIN stored \ Seqs(ext)}

VerifyCheckpoints(v) ==
    /\ seen[v] # <<>>
    /\ report' = [report EXCEPT ![v] =
           SeriesFaults(seen[v]) \cup UndeliveredFaults(seen[v])]
    /\ seen' = [seen EXCEPT ![v] = <<>>]
    /\ UNCHANGED <<rows, stored, files, pc, todo, have, faults>>

-----------------------------------------------------------------------------
Loop(h) == \/ SyncReadSink(h) \/ SyncReadStored(h) \/ SyncPublish(h) \/ SyncDone(h)
           \/ RecordCheckpoint(h) \/ Abandon(h) \/ PublishCheckpoint(h)

Next == \/ \E w \in Writers : AppendRow(w)
        \/ \E h \in Hosts : Loop(h) \/ Restart(h)
        \/ \E v \in Auditors : VerifyCheckpoints(v) \/ \E h \in Hosts : VerifyReadSink(v, h)

Spec == Init /\ [][Next]_vars

(* Each process's ticker keeps its loop going.                             *)
FairSpec == Spec /\ \A h \in Hosts : WF_vars(Loop(h))

(* Types.                                                                  *)
Checkpoints == [seq : Nat, heads : [Writers -> Nat], prev : Seq([Writers -> Nat]),
                digest : Seq([Writers -> Nat])]
Series == Seq(Checkpoints)
Kinds == {"gap", "chain", "copy", "head", "undelivered"}
TypeOK ==
    /\ rows \in [Writers -> Nat] /\ stored \in Series
    /\ sink \in [Hosts -> Series] /\ torn \subseteq Hosts
    /\ pc \in [Hosts -> {"idle", "stored", "sync", "record", "publish"}]
    /\ todo \in [Hosts -> SUBSET Checkpoints] /\ have \in [Hosts -> SUBSET Nat]
    /\ seen \in [Auditors -> Series]
    /\ report \in [Auditors -> SUBSET (Kinds \X Nat)]
    /\ faults \in Nat

-----------------------------------------------------------------------------
(* Properties.                                                             *)

(* The series is one chain over a log that only grows: numbered from one,  *)
(* each linking to the one before, and no head ever moves back, whichever  *)
(* processes recorded them (Checkpoint, under the series lock).            *)
SeriesIsChain ==
    \A i \in DOMAIN stored :
        /\ stored[i].seq = i
        /\ stored[i].prev = IF i = 1 THEN <<>> ELSE stored[i - 1].digest
        /\ \A w \in Writers : /\ i > 1 => stored[i - 1].heads[w] <= stored[i].heads[w]
                              /\ stored[i].heads[w] <= rows[w]

(* A sink holds each checkpoint once, as recorded: Sync republishes only   *)
(* what is missing, though deliveries fail half way and other processes    *)
(* record meanwhile.                                                       *)
SinkIsFaithful ==
    \A h \in Hosts : \A i \in DOMAIN sink[h] :
        /\ sink[h][i].seq \in DOMAIN stored /\ sink[h][i] = stored[sink[h][i].seq]
        /\ \A j \in DOMAIN sink[h] : sink[h][j].seq = sink[h][i].seq => j = i

(* VerifyCheckpoints raises no false alarm: without tampering, a break in  *)
(* the series it reports stands where a checkpoint is really missing from  *)
(* the sink it read, and it never accuses the log or the database copy.    *)
FaultMeansMissing == \A v \in Auditors : \A f \in report[v] :
    \/ f[1] = "undelivered"
    \/ f[1] \in {"gap", "chain"} /\ <<"undelivered", f[2] - 1>> \in report[v]

(* checkpointOnce: "The next tick repairs what this one could not deliver":*)
(* every checkpoint, the process's own and others', reaches every sink in  *)
(* the end, unless a write was cut short there.                            *)
SinkCatchesUp == \A h \in Hosts, s \in 1 .. MaxSeries :
    s \in DOMAIN stored ~> (s \in Seqs(sink[h]) \/ h \in torn)
=============================================================================
