-------------------------- MODULE CheckpointProofs --------------------------
(***************************************************************************)
(* The series is one chain, and every sink a faithful copy of part of it,  *)
(* for any number of hosts, segments, auditors, rows and failures.         *)
(*                                                                         *)
(* SinkIsFaithful is not inductive: what keeps a host from writing a       *)
(* checkpoint twice is that what it has still to publish is in the series  *)
(* (Known) and not yet in its sink (Missing), which in turn rests on what  *)
(* it remembers of the sink (Remembered): only the host itself writes it.  *)
(***************************************************************************)
EXTENDS Checkpoint, WellFoundedInduction, TLAPS

(* A nonempty set of naturals has a least element.                         *)
LEMMA NatMin ==
  ASSUME NEW S \in SUBSET Nat, S # {}
  PROVE  \E t \in S : \A u \in S : t <= u
<1>1. PICK t \in S : \A u \in S : ~(<<u, t>> \in OpToRel(<, Nat))
  BY NatLessThanWellFounded, WFMin
<1>2. \A u, v \in Nat : u < v => <<u, v>> \in OpToRel(<, Nat)
  BY Zenon DEF OpToRel
<1>3. \A u \in S : ~(u < t)
  BY <1>1, <1>2, Zenon
<1>4. QED
  BY <1>3

Tables == /\ rows \in [Writers -> Nat] /\ stored \in Seq(Checkpoints)
          /\ sink \in [Hosts -> Seq(Checkpoints)]
          /\ pc \in [Hosts -> {"idle", "stored", "sync", "record", "publish"}]
          /\ todo \in [Hosts -> SUBSET Checkpoints] /\ have \in [Hosts -> SUBSET Nat]
Known == \A h \in Hosts : \A cp \in todo[h] : cp.seq \in DOMAIN stored /\ cp = stored[cp.seq]
Missing == \A h \in Hosts : /\ pc[h] \in {"sync", "publish"} =>
                                 \A cp \in todo[h] : cp.seq \notin Seqs(sink[h])
                            /\ pc[h] = "publish" => todo[h] # {}
Remembered == \A h \in Hosts : pc[h] = "stored" => have[h] = Seqs(sink[h])

-----------------------------------------------------------------------------
(* The checkpoint Sync publishes next is one of those it has to publish.   *)
LEMMA FirstIsMember ==
    ASSUME NEW T \in SUBSET Checkpoints, T # {}
    PROVE  First(T) \in T
<1> DEFINE S == {cp.seq : cp \in T}
<1>1. S \in SUBSET Nat /\ S # {}
    BY DEF Checkpoints
<1>2. PICK t \in S : \A u \in S : t <= u
    BY <1>1, NatMin
<1>3. PICK cp \in T : cp.seq = t
    OBVIOUS
<1>4. \A other \in T : cp.seq <= other.seq
    BY <1>2, <1>3
<1> QED
    BY <1>4 DEF First

(* What Checkpoint's transaction adds to the series: the next number, the  *)
(* digest of the last checkpoint and the heads of the log as it is.        *)
LEMMA NewCheckpointType ==
    ASSUME Tables
    PROVE  /\ LastDigest \in Seq([Writers -> Nat])
           /\ NewCheckpoint(rows) \in Checkpoints
           /\ NewCheckpoint(rows).seq = Len(stored) + 1
           /\ NewCheckpoint(rows).prev = LastDigest
           /\ NewCheckpoint(rows).heads = rows
<1>1. stored # <<>> => Last(stored) \in Checkpoints
    BY DEF Tables, Last
<1>2. LastDigest \in Seq([Writers -> Nat])
    BY <1>1 DEF LastDigest, Checkpoints
<1>3. Append(LastDigest, rows) \in Seq([Writers -> Nat])
    BY <1>2 DEF Tables
<1>4. Len(stored) + 1 \in Nat
    BY DEF Tables
<1> QED
    BY <1>2, <1>3, <1>4 DEF NewCheckpoint, Checkpoints, Tables

(* Initially nothing is recorded, published or remembered.                 *)
LEMMA CheckpointInit ==
    Init => Tables /\ SeriesIsChain /\ SinkIsFaithful /\ Known /\ Missing /\ Remembered
<1> SUFFICES ASSUME Init
             PROVE  Tables /\ SeriesIsChain /\ SinkIsFaithful /\ Known /\ Missing /\ Remembered
    OBVIOUS
<1>1. Tables
    BY DEF Init, Tables
<1> QED
    BY <1>1 DEF Init, SeriesIsChain, SinkIsFaithful, Known, Missing, Remembered

(* Recording a checkpoint extends the chain.                               *)
LEMMA RecordExtendsChain ==
    ASSUME Tables, SeriesIsChain, NEW h \in Hosts, RecordCheckpoint(h)
    PROVE  SeriesIsChain'
<1> DEFINE n == Len(stored)
           cp == NewCheckpoint(rows)
<1>1. /\ stored' = Append(stored, cp) /\ rows' = rows /\ n \in Nat
      /\ DOMAIN stored = 1 .. n /\ DOMAIN stored' = 1 .. n + 1
      /\ stored'[n + 1] = cp /\ \A i \in 1 .. n : stored'[i] = stored[i]
    BY NewCheckpointType DEF Tables, RecordCheckpoint
<1>2. n # 0 => LastDigest = stored[n].digest
    BY DEF LastDigest, Last, Tables
<1>3. n = 0 => LastDigest = <<>>
    BY DEF LastDigest, Tables
<1>4. cp.seq = n + 1 /\ cp.prev = LastDigest /\ cp.heads = rows /\ rows \in [Writers -> Nat]
    BY NewCheckpointType DEF Tables
<1> HIDE DEF n, cp
<1>5. ASSUME NEW i \in 1 .. n
      PROVE  /\ stored'[i].seq = i
             /\ stored'[i].prev = IF i = 1 THEN <<>> ELSE stored'[i - 1].digest
             /\ \A w \in Writers : /\ i > 1 => stored'[i - 1].heads[w] <= stored'[i].heads[w]
                                   /\ stored'[i].heads[w] <= rows'[w]
    <2>1. i > 1 => i - 1 \in 1 .. n
        BY <1>1
    <2> QED
        BY <1>1, <2>1 DEF SeriesIsChain
<1>6. /\ stored'[n + 1].seq = n + 1
      /\ stored'[n + 1].prev = IF n + 1 = 1 THEN <<>> ELSE stored'[n + 1 - 1].digest
    <2>1. n + 1 - 1 = n /\ (n # 0 => n \in 1 .. n)
        BY <1>1
    <2> QED
        BY <1>1, <1>2, <1>3, <1>4, <2>1
<1>7. ASSUME NEW w \in Writers
      PROVE  /\ n + 1 > 1 => stored'[n + 1 - 1].heads[w] <= stored'[n + 1].heads[w]
             /\ stored'[n + 1].heads[w] <= rows'[w]
    <2>1. n # 0 => stored[n].heads[w] <= rows[w]
        BY <1>1 DEF SeriesIsChain
    <2> QED
        BY <1>1, <1>4, <2>1
<1> QED
    BY <1>1, <1>5, <1>6, <1>7 DEF SeriesIsChain

(* A log that grows keeps every recorded head within it.                   *)
LEMMA AppendRowKeepsChain ==
    ASSUME Tables, SeriesIsChain, NEW w \in Writers, AppendRow(w)
    PROVE  Tables' /\ SeriesIsChain'
<1>1. rows' \in [Writers -> Nat] /\ \A x \in Writers : rows[x] <= rows'[x] /\ rows[x] \in Nat
    BY DEF Tables, AppendRow
<1>2. \A i \in DOMAIN stored : \A x \in Writers : stored[i].heads[x] \in Nat
    <2> SUFFICES ASSUME NEW i \in DOMAIN stored, NEW x \in Writers
                 PROVE  stored[i].heads[x] \in Nat
        OBVIOUS
    <2>1. stored[i] \in Checkpoints
        BY DEF Tables
    <2> QED
        BY <2>1 DEF Checkpoints
<1>3. stored' = stored
    BY DEF AppendRow
<1>4. Tables'
    BY <1>1 DEF Tables, AppendRow, files
<1>5. ASSUME NEW i \in DOMAIN stored, NEW x \in Writers
      PROVE  stored[i].heads[x] <= rows'[x]
    <2>1. stored[i].heads[x] <= rows[x]
        BY DEF SeriesIsChain
    <2> QED
        BY <1>1, <1>2, <2>1
<1>6. SeriesIsChain'
    BY <1>3, <1>5 DEF SeriesIsChain
<1> QED
    BY <1>4, <1>6

(* Appending what is in the series and not in the sink keeps it faithful.  *)
LEMMA WriteKeepsFaith ==
    ASSUME Tables, SinkIsFaithful, NEW h \in Hosts, NEW cp \in Checkpoints,
           cp.seq \in DOMAIN stored, cp = stored[cp.seq], cp.seq \notin Seqs(sink[h]),
           sink' = [sink EXCEPT ![h] = Append(@, cp)], stored' = stored
    PROVE  /\ SinkIsFaithful' /\ sink' \in [Hosts -> Seq(Checkpoints)]
           /\ Seqs(sink[h])' = Seqs(sink[h]) \cup {cp.seq}
           /\ \A g \in Hosts \ {h} : sink'[g] = sink[g]
<1> DEFINE old == sink[h]
           new == sink'[h]
<1>1. /\ old \in Seq(Checkpoints) /\ new = Append(old, cp) /\ Len(old) \in Nat
      /\ \A g \in Hosts \ {h} : sink'[g] = sink[g]
    BY DEF Tables
<1>2. /\ new \in Seq(Checkpoints) /\ DOMAIN old = 1 .. Len(old) /\ DOMAIN new = 1 .. Len(old) + 1
      /\ new[Len(old) + 1] = cp /\ \A i \in 1 .. Len(old) : new[i] = old[i]
    BY <1>1
<1>3. sink' \in [Hosts -> Seq(Checkpoints)]
    BY <1>1, <1>2 DEF Tables
<1>4. \A i \in 1 .. Len(old) : old[i].seq # cp.seq
    BY <1>2 DEF Seqs
<1>5. Seqs(new) = Seqs(old) \cup {cp.seq}
    BY <1>1, <1>2 DEF Seqs
<1>6. \A i \in DOMAIN old : /\ old[i].seq \in DOMAIN stored /\ old[i] = stored[old[i].seq]
                            /\ \A j \in DOMAIN old : old[j].seq = old[i].seq => j = i
    BY DEF SinkIsFaithful
<1>7. ASSUME NEW i \in DOMAIN new
      PROVE  /\ new[i].seq \in DOMAIN stored /\ new[i] = stored[new[i].seq]
             /\ \A j \in DOMAIN new : new[j].seq = new[i].seq => j = i
    <2> HIDE DEF old, new
    <2>1. CASE i \in 1 .. Len(old)
        BY <2>1, <1>2, <1>4, <1>6
    <2>2. CASE i = Len(old) + 1
        BY <2>2, <1>2, <1>4
    <2> QED
        BY <2>1, <2>2, <1>1, <1>2
<1>8. SinkIsFaithful'
    BY <1>1, <1>7 DEF SinkIsFaithful
<1> QED
    BY <1>1, <1>3, <1>5, <1>8

-----------------------------------------------------------------------------
CheckpointInv == Tables /\ SeriesIsChain /\ SinkIsFaithful /\ Known /\ Missing /\ Remembered

(* SyncReadSink remembers the sink as it is.                               *)
LEMMA SyncReadSinkKeeps ==
    ASSUME CheckpointInv, NEW h \in Hosts, SyncReadSink(h)
    PROVE  CheckpointInv'
<1> USE DEF CheckpointInv
<1>1. /\ rows' = rows /\ stored' = stored /\ sink' = sink /\ todo' = todo
      /\ \A g \in Hosts \ {h} : pc'[g] = pc[g] /\ have'[g] = have[g]
      /\ pc'[h] \in {"record", "stored"} /\ (pc'[h] = "stored" => have'[h] = Seqs(sink[h]))
    BY DEF SyncReadSink, Tables, files
<1>2. Seqs(sink[h]) \in SUBSET Nat
    <2>1. \A i \in DOMAIN sink[h] : sink[h][i] \in Checkpoints
        BY DEF Tables
    <2> QED
        BY <2>1 DEF Seqs, Checkpoints
<1>3. Tables'
    BY <1>1, <1>2 DEF SyncReadSink, Tables
<1>4. SeriesIsChain' /\ SinkIsFaithful' /\ Known'
    BY <1>1 DEF SeriesIsChain, SinkIsFaithful, Known
<1>5. Missing'
    BY <1>1 DEF Missing, Seqs
<1>6. Remembered'
    BY <1>1 DEF Remembered, Seqs
<1> QED
    BY <1>3, <1>4, <1>5, <1>6

(* SyncReadStored leaves what the series has and the sink has not.         *)
LEMMA SyncReadStoredKeeps ==
    ASSUME CheckpointInv, NEW h \in Hosts, SyncReadStored(h)
    PROVE  CheckpointInv'
<1> USE DEF CheckpointInv
<1> DEFINE T == {cp \in Range(stored) : cp.seq \notin have[h]}
<1>1. /\ rows' = rows /\ stored' = stored /\ sink' = sink
      /\ todo'[h] = T /\ pc'[h] = "sync" /\ have[h] = Seqs(sink[h])
      /\ \A g \in Hosts \ {h} : pc'[g] = pc[g] /\ have'[g] = have[g] /\ todo'[g] = todo[g]
    BY DEF SyncReadStored, Tables, files, Remembered
<1>2. \A cp \in T : /\ cp \in Checkpoints /\ cp.seq \in DOMAIN stored /\ cp = stored[cp.seq]
                    /\ cp.seq \notin have[h]
    <2> SUFFICES ASSUME NEW i \in DOMAIN stored
                 PROVE  stored[i] \in Checkpoints /\ stored[i].seq = i
        BY DEF Range
    <2> QED
        BY DEF Tables, SeriesIsChain
<1>3. Tables'
    BY <1>1, <1>2 DEF SyncReadStored, Tables
<1> HIDE DEF T
<1>4. SeriesIsChain' /\ SinkIsFaithful'
    BY <1>1 DEF SeriesIsChain, SinkIsFaithful
<1>5. Known'
    BY <1>1, <1>2 DEF Known
<1>6. Missing'
    BY <1>1, <1>2 DEF Missing, Seqs
<1>7. Remembered'
    BY <1>1 DEF Remembered, Seqs
<1> QED
    BY <1>3, <1>4, <1>5, <1>6, <1>7

(* A delivery that was made, or failed at any point, leaves a faithful     *)
(* sink that gained at most the first checkpoint the host had to publish.  *)
LEMMA DeliveryKeepsFaith ==
    ASSUME Tables, SinkIsFaithful, Known, Missing, NEW h \in Hosts,
           pc[h] \in {"sync", "publish"}, todo[h] # {}, stored' = stored,
           Published(h) \/ Undelivered(h)
    PROVE  /\ SinkIsFaithful' /\ sink' \in [Hosts -> Seq(Checkpoints)]
           /\ \A g \in Hosts \ {h} : sink'[g] = sink[g]
           /\ Seqs(sink[h])' \subseteq Seqs(sink[h]) \cup {First(todo[h]).seq}
<1>1. CASE sink' = sink
    BY <1>1 DEF Tables, SinkIsFaithful, Seqs
<1>2. CASE sink' = [sink EXCEPT ![h] = Append(@, First(todo[h]))]
    <2> DEFINE cp == First(todo[h])
    <2>1. cp \in todo[h] /\ cp \in Checkpoints
        BY FirstIsMember DEF Tables
    <2>2. cp.seq \in DOMAIN stored /\ cp = stored[cp.seq] /\ cp.seq \notin Seqs(sink[h])
        BY <2>1 DEF Known, Missing
    <2> HIDE DEF cp
    <2>3. sink' = [sink EXCEPT ![h] = Append(@, cp)]
        BY <1>2 DEF cp
    <2>4. /\ SinkIsFaithful' /\ sink' \in [Hosts -> Seq(Checkpoints)]
          /\ Seqs(sink[h])' = Seqs(sink[h]) \cup {cp.seq}
          /\ \A g \in Hosts \ {h} : sink'[g] = sink[g]
        BY <2>1, <2>2, <2>3, WriteKeepsFaith
    <2> QED
        BY <2>4 DEF cp
<1> QED
    BY <1>1, <1>2 DEF Published, Undelivered, Write, files

(* SyncPublish takes what it wrote off its list, or drops the list.        *)
LEMMA SyncPublishKeeps ==
    ASSUME CheckpointInv, NEW h \in Hosts, SyncPublish(h)
    PROVE  CheckpointInv'
<1> USE DEF CheckpointInv
<1> DEFINE cp == First(todo[h])
<1>1. /\ rows' = rows /\ stored' = stored /\ have' = have /\ pc[h] = "sync" /\ todo[h] # {}
      /\ Published(h) \/ Undelivered(h)
      /\ \/ pc' = pc /\ todo' = [todo EXCEPT ![h] = @ \ {cp}]
         \/ pc' = [pc EXCEPT ![h] = "record"] /\ todo' = [todo EXCEPT ![h] = {}]
    BY DEF SyncPublish
<1>2. /\ SinkIsFaithful' /\ sink' \in [Hosts -> Seq(Checkpoints)]
      /\ \A g \in Hosts \ {h} : sink'[g] = sink[g]
      /\ Seqs(sink[h])' \subseteq Seqs(sink[h]) \cup {cp.seq}
    BY <1>1, DeliveryKeepsFaith
<1>3. cp \in todo[h]
    BY <1>1, FirstIsMember DEF Tables
<1>4. \A c \in todo[h] : c.seq = cp.seq => c = cp
    BY <1>3 DEF Known
<1> HIDE DEF cp
<1>5. /\ Tables' /\ \A g \in Hosts \ {h} : pc'[g] = pc[g] /\ todo'[g] = todo[g]
      /\ pc'[h] \in {"sync", "record"} /\ todo'[h] \subseteq todo[h]
      /\ pc'[h] = "sync" => todo'[h] = todo[h] \ {cp}
    BY <1>1, <1>2 DEF Tables
<1>6. SeriesIsChain'
    BY <1>1 DEF SeriesIsChain
<1>7. Known'
    BY <1>1, <1>5 DEF Known
<1>8. Missing'
    <2> SUFFICES ASSUME NEW g \in Hosts
                 PROVE  /\ pc'[g] \in {"sync", "publish"} =>
                             \A c \in todo'[g] : c.seq \notin Seqs(sink[g])'
                        /\ pc'[g] = "publish" => todo'[g] # {}
        BY DEF Missing
    <2>1. CASE g # h
        BY <2>1, <1>2, <1>5, SMTT(30) DEF Missing, Seqs
    <2>2. CASE g = h
        <3>1. pc'[h] = "sync" => \A c \in todo'[h] : c \in todo[h] /\ c.seq # cp.seq
            BY <1>4, <1>5
        <3> QED
            BY <2>2, <3>1, <1>1, <1>2, <1>5 DEF Missing
    <2> QED
        BY <2>1, <2>2
<1>9. Remembered'
    <2> SUFFICES ASSUME NEW g \in Hosts, pc'[g] = "stored"
                 PROVE  have'[g] = Seqs(sink[g])'
        BY DEF Remembered
    <2>1. g # h /\ pc[g] = "stored" /\ sink'[g] = sink[g] /\ have'[g] = have[g]
        BY <1>1, <1>2, <1>5
    <2> QED
        BY <2>1 DEF Remembered, Seqs
<1> QED
    BY <1>2, <1>5, <1>6, <1>7, <1>8, <1>9

(* RecordCheckpoint: nobody can have the new number in its sink yet.       *)
LEMMA RecordCheckpointKeeps ==
    ASSUME CheckpointInv, NEW h \in Hosts, RecordCheckpoint(h)
    PROVE  CheckpointInv'
<1> USE DEF CheckpointInv
<1> DEFINE n == Len(stored)
           cp == NewCheckpoint(rows)
<1>1. cp \in Checkpoints /\ cp.seq = n + 1 /\ n \in Nat
    BY NewCheckpointType DEF Tables
<1>2. /\ stored' = Append(stored, cp) /\ stored' \in Seq(Checkpoints)
      /\ DOMAIN stored = 1 .. n /\ DOMAIN stored' = 1 .. n + 1
      /\ stored'[n + 1] = cp /\ \A i \in 1 .. n : stored'[i] = stored[i]
    BY <1>1 DEF Tables, RecordCheckpoint
<1>3. Last(stored') = cp
    BY <1>1, <1>2 DEF Last
<1>4. /\ rows' = rows /\ sink' = sink /\ have' = have /\ pc'[h] = "publish" /\ todo'[h] = {cp}
      /\ \A g \in Hosts \ {h} : pc'[g] = pc[g] /\ todo'[g] = todo[g]
    BY <1>3 DEF RecordCheckpoint, files, Tables
<1>5. Tables'
    BY <1>1, <1>2, <1>3 DEF RecordCheckpoint, files, Tables
<1>6. SeriesIsChain'
    BY RecordExtendsChain
<1> HIDE DEF n, cp
<1>7. SinkIsFaithful'
    BY <1>1, <1>2, <1>4 DEF SinkIsFaithful
<1>8. Known'
    BY <1>1, <1>2, <1>4 DEF Known
<1>9. n + 1 \notin Seqs(sink[h])
    BY <1>1, <1>2 DEF SinkIsFaithful, Seqs
<1>10. Missing'
    BY <1>1, <1>4, <1>9 DEF Missing, Seqs
<1>11. Remembered'
    BY <1>4 DEF Remembered, Seqs
<1> QED
    BY <1>5, <1>6, <1>7, <1>8, <1>10, <1>11

(* PublishCheckpoint delivers the checkpoint just recorded, or fails to.   *)
LEMMA PublishCheckpointKeeps ==
    ASSUME CheckpointInv, NEW h \in Hosts, PublishCheckpoint(h)
    PROVE  CheckpointInv'
<1> USE DEF CheckpointInv
<1>1. /\ rows' = rows /\ stored' = stored /\ have' = have /\ pc[h] = "publish" /\ todo[h] # {}
      /\ Published(h) \/ Undelivered(h)
      /\ pc' = [pc EXCEPT ![h] = "idle"] /\ todo' = [todo EXCEPT ![h] = {}]
    BY DEF PublishCheckpoint, Missing
<1>2. /\ SinkIsFaithful' /\ sink' \in [Hosts -> Seq(Checkpoints)]
      /\ \A g \in Hosts \ {h} : sink'[g] = sink[g]
    BY <1>1, DeliveryKeepsFaith
<1>3. /\ Tables' /\ \A g \in Hosts \ {h} : pc'[g] = pc[g] /\ todo'[g] = todo[g]
      /\ pc'[h] = "idle" /\ todo'[h] = {}
    BY <1>1, <1>2 DEF Tables
<1>4. SeriesIsChain' /\ Known'
    BY <1>1, <1>3 DEF SeriesIsChain, Known
<1>5. Missing'
    <2> SUFFICES ASSUME NEW g \in Hosts
                 PROVE  /\ pc'[g] \in {"sync", "publish"} =>
                             \A c \in todo'[g] : c.seq \notin Seqs(sink[g])'
                        /\ pc'[g] = "publish" => todo'[g] # {}
        BY DEF Missing
    <2>1. CASE g # h
        BY <2>1, <1>2, <1>3 DEF Missing, Seqs
    <2>2. CASE g = h
        BY <2>2, <1>3
    <2> QED
        BY <2>1, <2>2
<1>6. Remembered'
    <2> SUFFICES ASSUME NEW g \in Hosts, pc'[g] = "stored"
                 PROVE  have'[g] = Seqs(sink[g])'
        BY DEF Remembered
    <2>1. g # h /\ pc[g] = "stored" /\ sink'[g] = sink[g] /\ have'[g] = have[g]
        BY <1>1, <1>2, <1>3
    <2> QED
        BY <2>1 DEF Remembered, Seqs
<1> QED
    BY <1>2, <1>3, <1>4, <1>5, <1>6

(* The steps that only move a host on, or start its loop over.             *)
LEMMA OtherStepsKeep ==
    ASSUME CheckpointInv, NEW h \in Hosts, SyncDone(h) \/ Abandon(h) \/ Restart(h)
    PROVE  CheckpointInv'
<1> USE DEF CheckpointInv
<1>1. /\ rows' = rows /\ stored' = stored /\ sink' = sink
      /\ \A g \in Hosts \ {h} : pc'[g] = pc[g] /\ todo'[g] = todo[g] /\ have'[g] = have[g]
      /\ pc'[h] \in {"record", "idle"} /\ todo'[h] \subseteq todo[h]
    BY DEF SyncDone, Abandon, Restart, files, Tables
<1>2. Tables'
    BY <1>1 DEF SyncDone, Abandon, Restart, files, Tables
<1>3. SeriesIsChain' /\ SinkIsFaithful' /\ Known'
    BY <1>1 DEF SeriesIsChain, SinkIsFaithful, Known
<1>4. Missing' /\ Remembered'
    BY <1>1 DEF Missing, Remembered, Seqs
<1> QED
    BY <1>2, <1>3, <1>4

(* Every step of a host, the log or an auditor preserves the invariant.    *)
LEMMA CheckpointStep == CheckpointInv /\ [Next]_vars => CheckpointInv'
<1> SUFFICES ASSUME CheckpointInv, [Next]_vars
             PROVE  CheckpointInv'
    OBVIOUS
<1>1. ASSUME NEW w \in Writers, AppendRow(w)
      PROVE  CheckpointInv'
    <2>1. Tables' /\ SeriesIsChain'
        BY <1>1, AppendRowKeepsChain DEF CheckpointInv
    <2>2. stored' = stored /\ sink' = sink /\ todo' = todo /\ pc' = pc /\ have' = have
        BY <1>1 DEF AppendRow, files
    <2>3. SinkIsFaithful' /\ Known'
        BY <2>2, Zenon DEF CheckpointInv, SinkIsFaithful, Known
    <2>5. \A h : (Seqs(sink[h]))' = Seqs(sink[h])
        BY <2>2 DEF Seqs
    <2>4. Missing' /\ Remembered'
        BY <2>2, <2>5 DEF CheckpointInv, Missing, Remembered
    <2> QED
        BY <2>1, <2>3, <2>4 DEF CheckpointInv
<1>2. ASSUME NEW h \in Hosts, Loop(h) \/ Restart(h)
      PROVE  CheckpointInv'
    BY <1>2, SyncReadSinkKeeps, SyncReadStoredKeeps, SyncPublishKeeps, RecordCheckpointKeeps,
       PublishCheckpointKeeps, OtherStepsKeep DEF Loop
<1>3. ASSUME UNCHANGED <<rows, stored, files, pc, todo, have>>
      PROVE  CheckpointInv'
    <2>1. /\ rows' = rows /\ stored' = stored /\ sink' = sink /\ pc' = pc /\ todo' = todo
          /\ have' = have
        BY <1>3 DEF files
    <2>2. Tables' /\ SeriesIsChain'
        BY <2>1 DEF CheckpointInv, Tables, SeriesIsChain
    <2>3. SinkIsFaithful' /\ Known'
        BY <2>1, Zenon DEF CheckpointInv, SinkIsFaithful, Known
    <2>5. \A h : (Seqs(sink[h]))' = Seqs(sink[h])
        BY <2>1 DEF Seqs
    <2>4. Missing' /\ Remembered'
        BY <2>1, <2>5 DEF CheckpointInv, Missing, Remembered
    <2> QED
        BY <2>2, <2>3, <2>4 DEF CheckpointInv
<1>4. ASSUME NEW v \in Auditors, VerifyCheckpoints(v) \/ \E h \in Hosts : VerifyReadSink(v, h)
      PROVE  CheckpointInv'
    BY <1>3, <1>4 DEF VerifyCheckpoints, VerifyReadSink
<1> QED
    BY <1>1, <1>2, <1>3, <1>4 DEF Next, vars

(* Checkpoint, under the series lock: whichever processes record, the      *)
(* series is one chain over a log that only grows.                         *)
THEOREM CheckpointSeriesIsChain == Spec => []SeriesIsChain
<1>1. Init => CheckpointInv
    BY CheckpointInit DEF CheckpointInv
<1>2. CheckpointInv => SeriesIsChain
    BY DEF CheckpointInv
<1> QED
    BY <1>1, <1>2, CheckpointStep, PTL DEF Spec

(* FileSink.Publish and Sync: whatever fails, a sink holds each checkpoint *)
(* at most once, as it was recorded.                                       *)
THEOREM CheckpointSinkIsFaithful == Spec => []SinkIsFaithful
<1>1. Init => CheckpointInv
    BY CheckpointInit DEF CheckpointInv
<1>2. CheckpointInv => SinkIsFaithful
    BY DEF CheckpointInv
<1> QED
    BY <1>1, <1>2, CheckpointStep, PTL DEF Spec

-----------------------------------------------------------------------------
(* The auditor. What it read of a sink stays a faithful copy while hosts   *)
(* record and publish, and a checkpoint whose predecessor it read as well  *)
(* is compared with just that one.                                         *)
Faithful(ext) == \A i \in DOMAIN ext :
    /\ ext[i].seq \in DOMAIN stored /\ ext[i] = stored[ext[i].seq]
    /\ \A j \in DOMAIN ext : ext[j].seq = ext[i].seq => j = i
Audited == /\ seen \in [Auditors -> Seq(Checkpoints)] /\ DOMAIN report = Auditors
           /\ \A v \in Auditors : Faithful(seen[v])
           /\ FaultMeansMissing

(* Nothing is sorted before the first checkpoint of the series.            *)
LEMMA FirstHasOrigin ==
    ASSUME CheckpointInv, NEW ext \in Seq(Checkpoints), Faithful(ext),
           NEW i \in DOMAIN ext, ext[i].seq = 1
    PROVE  Prior(ext, i) = Origin
<1>1. \A j \in DOMAIN ext : ext[j].seq \in 1 .. Len(stored)
    BY DEF Faithful, CheckpointInv, Tables
<1>2. \A j \in DOMAIN ext : ext[j].seq = ext[i].seq => j = i
    BY DEF Faithful
<1>3. i \in Nat /\ Len(stored) \in Nat
    BY DEF CheckpointInv, Tables
<1>4. \A j \in DOMAIN ext : ~Sorted(ext, j, i)
    BY <1>1, <1>2, <1>3 DEF Sorted
<1> QED
    BY <1>4 DEF Prior, IsPrior

(* A predecessor that was read is the one sorted right before.             *)
LEMMA NextHasPredecessor ==
    ASSUME CheckpointInv, NEW ext \in Seq(Checkpoints), Faithful(ext),
           NEW i \in DOMAIN ext, ext[i].seq - 1 \in Seqs(ext)
    PROVE  ext[i].seq - 1 \in DOMAIN stored /\ Prior(ext, i) = stored[ext[i].seq - 1]
<1>1. PICK j \in DOMAIN ext : ext[j].seq = ext[i].seq - 1
    BY DEF Seqs
<1>2. \A k \in DOMAIN ext : ext[k].seq \in Nat /\ k \in Nat
    <2>1. \A k \in DOMAIN ext : ext[k] \in Checkpoints /\ k \in Nat
        OBVIOUS
    <2> QED
        BY <2>1 DEF Checkpoints
<1>3. \A k, l \in DOMAIN ext : ext[k].seq = ext[l].seq => k = l
    BY DEF Faithful
<1>4. ASSUME NEW k \in DOMAIN ext PROVE Sorted(ext, k, i) <=> ext[k].seq < ext[i].seq
    BY <1>2, <1>3 DEF Sorted
<1>5. ASSUME NEW k \in DOMAIN ext PROVE Sorted(ext, k, j) <=> ext[k].seq < ext[j].seq
    BY <1>2, <1>3 DEF Sorted
<1>6. IsPrior(ext, j, i)
    <2>1. Sorted(ext, j, i)
        BY <1>1, <1>2, <1>4
    <2>2. ASSUME NEW k \in DOMAIN ext, Sorted(ext, k, i) PROVE k = j \/ Sorted(ext, k, j)
        BY <1>1, <1>2, <1>3, <1>4, <1>5, <2>2
    <2> QED
        BY <2>1, <2>2 DEF IsPrior
<1>7. ASSUME NEW k \in DOMAIN ext, IsPrior(ext, k, i) PROVE k = j
    <2>1. Sorted(ext, k, i) /\ (j = k \/ Sorted(ext, j, k))
        BY <1>6, <1>7 DEF IsPrior
    <2>2. Sorted(ext, j, k) => ext[j].seq <= ext[k].seq
        BY <1>2 DEF Sorted
    <2>3. ext[k].seq < ext[i].seq
        BY <1>4, <2>1
    <2> QED
        BY <1>1, <1>2, <1>3, <2>1, <2>2, <2>3
<1>8. (CHOOSE k \in DOMAIN ext : IsPrior(ext, k, i)) = j
    BY <1>6, <1>7
<1>9. Prior(ext, i) = ext[j]
    BY <1>6, <1>8 DEF Prior
<1>10. ext[j].seq \in DOMAIN stored /\ ext[j] = stored[ext[j].seq]
    BY DEF Faithful
<1> QED
    BY <1>1, <1>9, <1>10

(* So a break at a checkpoint means its predecessor was not read, though   *)
(* the database has it.                                                    *)
LEMMA BreakMeansMissing ==
    ASSUME CheckpointInv, NEW ext \in Seq(Checkpoints), Faithful(ext), NEW i \in DOMAIN ext,
           ext[i].seq # Prior(ext, i).seq + 1 \/ ext[i].prev # Prior(ext, i).digest
    PROVE  ext[i].seq - 1 \in DOMAIN stored \ Seqs(ext)
<1> DEFINE s == ext[i].seq
<1>1. s \in DOMAIN stored /\ ext[i] = stored[s] /\ DOMAIN stored = 1 .. Len(stored) /\ Len(stored) \in Nat
    BY DEF Faithful, CheckpointInv, Tables
<1>2. stored[s].seq = s /\ stored[s].prev = IF s = 1 THEN <<>> ELSE stored[s - 1].digest
    BY <1>1 DEF CheckpointInv, SeriesIsChain
<1>3. s # 1
    <2> SUFFICES ASSUME s = 1 PROVE FALSE
        OBVIOUS
    <2>1. Prior(ext, i) = Origin
        BY FirstHasOrigin
    <2> QED
        BY <1>1, <1>2, <2>1 DEF Origin
<1>4. s - 1 \in DOMAIN stored
    BY <1>1, <1>3
<1>5. s - 1 \notin Seqs(ext)
    <2> SUFFICES ASSUME s - 1 \in Seqs(ext) PROVE FALSE
        OBVIOUS
    <2>1. Prior(ext, i) = stored[s - 1]
        BY NextHasPredecessor
    <2>2. stored[s - 1].seq = s - 1
        BY <1>4 DEF CheckpointInv, SeriesIsChain
    <2> QED
        BY <1>1, <1>2, <1>3, <2>1, <2>2
<1> QED
    BY <1>4, <1>5

(* VerifyCheckpoints: what it reports of a faithful copy.                  *)
LEMMA ReportIsRight ==
    ASSUME CheckpointInv, NEW ext \in Seq(Checkpoints), Faithful(ext),
           NEW f \in SeriesFaults(ext) \cup UndeliveredFaults(ext)
    PROVE  \/ f[1] = "undelivered"
           \/ f[1] \in {"gap", "chain"} /\ <<"undelivered", f[2] - 1>> \in UndeliveredFaults(ext)
<1>1. \A i \in DOMAIN ext : ext[i].seq \in DOMAIN stored /\ ext[i] = stored[ext[i].seq]
    BY DEF Faithful
<1>2. \A i \in DOMAIN ext : stored[ext[i].seq].digest = ext[i].digest
    BY <1>1
<1>3. ASSUME NEW i \in DOMAIN ext, NEW w \in Writers PROVE ~(ext[i].heads[w] > rows[w])
    <2>1. ext[i].heads[w] <= rows[w]
        BY <1>1 DEF CheckpointInv, SeriesIsChain
    <2>2. ext[i] \in Checkpoints /\ rows[w] \in Nat
        BY DEF CheckpointInv, Tables
    <2>3. ext[i].heads[w] \in Nat
        BY <2>2 DEF Checkpoints
    <2> QED
        BY <2>1, <2>2, <2>3
<1>4. CASE f \in UndeliveredFaults(ext)
    BY <1>4 DEF UndeliveredFaults
<1>5. CASE f \in SeriesFaults(ext)
    <2>1. PICK i \in DOMAIN ext :
              /\ f \in {<<"gap", ext[i].seq>>, <<"chain", ext[i].seq>>}
              /\ ext[i].seq # Prior(ext, i).seq + 1 \/ ext[i].prev # Prior(ext, i).digest
        BY <1>2, <1>3, <1>5, Zenon DEF SeriesFaults
    <2>2. ext[i].seq - 1 \in DOMAIN stored \ Seqs(ext)
        BY <2>1, BreakMeansMissing
    <2>3. <<"undelivered", ext[i].seq - 1>> \in UndeliveredFaults(ext)
        BY <2>2 DEF UndeliveredFaults
    <2>4. f[1] \in {"gap", "chain"} /\ f[2] = ext[i].seq
        BY <2>1
    <2> QED
        BY <2>3, <2>4
<1> QED
    BY <1>4, <1>5

(* The series only grows, so a faithful copy stays one.                    *)
LEMMA SeriesGrows ==
    ASSUME CheckpointInv, [Next]_vars
    PROVE  DOMAIN stored \subseteq DOMAIN stored' /\ \A i \in DOMAIN stored : stored'[i] = stored[i]
<1>1. ASSUME NEW h \in Hosts, RecordCheckpoint(h)
      PROVE  DOMAIN stored \subseteq DOMAIN stored' /\ \A i \in DOMAIN stored : stored'[i] = stored[i]
    <2>1. stored \in Seq(Checkpoints) /\ stored' = Append(stored, NewCheckpoint(rows))
        BY <1>1 DEF RecordCheckpoint, CheckpointInv, Tables
    <2> QED
        BY <2>1
<1>2. CASE stored' = stored
    BY <1>2
<1> QED
    BY <1>1, <1>2 DEF Next, Loop, vars, AppendRow, SyncReadSink, SyncReadStored, SyncPublish, SyncDone,
       Abandon, PublishCheckpoint, Restart, VerifyCheckpoints, VerifyReadSink

(* Every step keeps what the auditor read faithful and its reports right.  *)
LEMMA AuditedStep == CheckpointInv /\ Audited /\ [Next]_vars => Audited'
<1> SUFFICES ASSUME CheckpointInv, Audited, [Next]_vars PROVE Audited'
    OBVIOUS
<1>1. ASSUME NEW ext, Faithful(ext) PROVE Faithful(ext)'
    <2>1. DOMAIN stored \subseteq DOMAIN stored' /\ \A i \in DOMAIN stored : stored'[i] = stored[i]
        BY SeriesGrows
    <2> QED
        BY <1>1, <2>1 DEF Faithful
<1>2. CASE UNCHANGED <<seen, report>>
    <2>1. ASSUME NEW v \in Auditors PROVE Faithful(seen[v])'
        <3>1. PICK ext : ext = seen[v]
            OBVIOUS
        <3>2. Faithful(ext) /\ ext = seen'[v]
            BY <1>2, <3>1 DEF Audited
        <3>3. Faithful(ext)'
            BY <1>1, <3>2
        <3> QED
            BY <3>2, <3>3 DEF Faithful
    <2> QED
        BY <1>2, <2>1 DEF Audited, FaultMeansMissing
<1>3. ASSUME NEW v \in Auditors, NEW h \in Hosts, VerifyReadSink(v, h) PROVE Audited'
    <2>1. /\ seen' = [seen EXCEPT ![v] = sink[h]] /\ report' = report /\ stored' = stored
          /\ sink[h] \in Seq(Checkpoints)
        BY <1>3 DEF VerifyReadSink, CheckpointInv, Tables
    <2>2. Faithful(sink[h])
        BY DEF CheckpointInv, SinkIsFaithful, Faithful
    <2>3. seen' \in [Auditors -> Seq(Checkpoints)] /\ \A u \in Auditors : seen'[u] \in {seen[u], sink[h]}
        BY <2>1 DEF Audited
    <2>4. \A u \in Auditors : Faithful(seen[u])'
        BY <2>1, <2>2, <2>3 DEF Audited, Faithful
    <2> QED
        BY <2>1, <2>3, <2>4 DEF Audited, FaultMeansMissing
<1>4. ASSUME NEW v \in Auditors, VerifyCheckpoints(v) PROVE Audited'
    <2> DEFINE found == SeriesFaults(seen[v]) \cup UndeliveredFaults(seen[v])
    <2>1. /\ seen' = [seen EXCEPT ![v] = <<>>] /\ report' = [report EXCEPT ![v] = found] /\ stored' = stored
        BY <1>4 DEF VerifyCheckpoints
    <2>2. seen[v] \in Seq(Checkpoints) /\ Faithful(seen[v])
        BY DEF Audited
    <2>3. \A f \in found : \/ f[1] = "undelivered"
                           \/ f[1] \in {"gap", "chain"} /\ <<"undelivered", f[2] - 1>> \in found
        BY <2>2, ReportIsRight
    <2> HIDE DEF found
    <2>4. FaultMeansMissing'
        BY <2>1, <2>3 DEF Audited, FaultMeansMissing
    <2>5. seen' \in [Auditors -> Seq(Checkpoints)] /\ \A u \in Auditors : seen'[u] \in {seen[u], <<>>}
        BY <2>1 DEF Audited
    <2>6. \A u \in Auditors : Faithful(seen[u])'
        BY <2>1, <2>5 DEF Audited, Faithful
    <2> QED
        BY <2>1, <2>4, <2>5, <2>6 DEF Audited
<1> QED
    BY <1>2, <1>3, <1>4 DEF Next, Loop, vars, AppendRow, SyncReadSink, SyncReadStored, SyncPublish,
       SyncDone, RecordCheckpoint, Abandon, PublishCheckpoint, Restart

(* VerifyCheckpoints raises no false alarm, whatever hosts record, publish *)
(* and fail to publish between its reads of the sink, the database and     *)
(* the log.                                                                *)
THEOREM CheckpointFaultMeansMissing == Spec => []FaultMeansMissing
<1>1. Init => CheckpointInv
    BY CheckpointInit DEF CheckpointInv
<1>2. Init => Audited
    BY DEF Init, Audited, Faithful, FaultMeansMissing
<1>3. Audited => FaultMeansMissing
    BY DEF Audited
<1> QED
    BY <1>1, <1>2, <1>3, CheckpointStep, AuditedStep, PTL DEF Spec
=============================================================================
