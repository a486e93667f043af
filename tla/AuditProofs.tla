----------------------------- MODULE AuditProofs ----------------------------
(***************************************************************************)
(* The two halves of the audit path, each on its own.                      *)
(*                                                                         *)
(* AuditWriter: the segment verifies, and Append keeps its contract, for   *)
(* any number of processes that share a writer id, of entries and of       *)
(* faults, and any drift limit. ChainVerifies is not inductive: a process  *)
(* inserts with the head it remembers, not with the row before. OnLog is   *)
(* what makes the two agree: every remembered head, the one a failed       *)
(* marker goes back to included, names a row of the log by its hash, and   *)
(* rows are never changed. The contract rests on CallsOpen: whose an entry *)
(* is while its call runs.                                                 *)
(*                                                                         *)
(* AuditBuffer: the accounting of the check path holds for every capacity, *)
(* batch size and threshold, and for any number of events and failing      *)
(* writes. Exactness needs more than the count: that no event is in two    *)
(* places (Apart), or a dropped chunk would be counted twice, and that the *)
(* flusher holds nothing between two flushes (Shape), or its next take     *)
(* would forget it.                                                        *)
(***************************************************************************)
EXTENDS AuditWriter, AuditBuffer, FiniteSetTheorems, TLAPS

Names(h, rows) == /\ h.seq \in 0 .. Len(rows)
                  /\ h.hash = IF h.seq = 0 THEN ZeroHash ELSE rows[h.seq].hash
OnLog == \A p \in Processes : Names(head[p], log) /\ Names(call[p].believed, log)
Labels == {"down", "idle", "begin", "tx", "hold", "tail", "mark"}
Rows == [by : Processes, entry : Entries \cup {Marker}, prev : Hashes, hash : Hashes]
Calls == [entry : Entries \cup {Marker}, retry : BOOLEAN, believed : Heads]
Told == {"new", "running", "ok", "error"}

-----------------------------------------------------------------------------
(* The record an append builds has the type of a row (Appender.Append).    *)
LEMMA RecordType ==
    ASSUME NEW p \in Processes, NEW e \in Entries \cup {Marker}, NEW h \in Hashes
    PROVE  Row(p, e, h) \in Rows
<1>1. <<p, e>> \in Contents
    BY DEF Contents
<1>2. RecordHash(h, p, e) \in Hashes
    BY <1>1 DEF RecordHash, Hashes
<1> QED
    BY <1>2 DEF Row, Rows

(* An insert at the head keeps the segment verifiable, and every head that *)
(* named a row still names it (inTxLocked).                                *)
LEMMA InsertKeepsChain ==
    ASSUME TypeOK, ChainVerifies, NEW p \in Processes, Names(head[p], log), Free(p),
           NEW e \in Entries \cup {Marker}, Insert(p, e)
    PROVE  /\ log' \in Seq(Rows) /\ Len(log') = Len(log) + 1
           /\ log'[Len(log')].hash \in Hashes
           /\ ChainVerifies'
           /\ \A h \in Heads : Names(h, log) => Names(h, log')
<1> DEFINE new == Row(p, e, head[p].hash)
<1>1. new \in Rows /\ log \in Seq(Rows) /\ head[p] \in Heads
    BY RecordType DEF TypeOK, Rows, Heads
<1>2. /\ log' = Append(log, new) /\ log' \in Seq(Rows) /\ Len(log') = Len(log) + 1
      /\ log'[Len(log) + 1] = new /\ \A i \in 1 .. Len(log) : log'[i] = log[i]
    BY <1>1 DEF Insert
<1>3. new.prev = head[p].hash /\ new.hash = RecordHash(new.prev, new.by, new.entry)
    BY DEF Row
<1>4. log'[Len(log')].hash \in Hashes
    BY <1>1, <1>2 DEF Rows
<1>5. head[p].seq = Len(log) /\ head[p].hash = IF Len(log) = 0 THEN ZeroHash ELSE log[Len(log)].hash
    BY DEF Free, Names
<1>6. ChainVerifies'
  <2> HIDE DEF new
  <2> SUFFICES ASSUME NEW i \in 1 .. Len(log) + 1
               PROVE  /\ log'[i].prev = IF i = 1 THEN ZeroHash ELSE log'[i - 1].hash
                      /\ log'[i].hash = RecordHash(log'[i].prev, log'[i].by, log'[i].entry)
    <3>1. DOMAIN log' = 1 .. Len(log) + 1
        BY <1>2
    <3> QED
        BY <3>1 DEF ChainVerifies, ZeroHash
  <2>1. CASE i \in 1 .. Len(log)
      BY <1>1, <1>2, <2>1 DEF ChainVerifies
  <2>2. CASE i = Len(log) + 1
      BY <1>1, <1>2, <1>3, <1>5, <2>2
  <2> QED
      BY <1>1, <2>1, <2>2
<1>7. \A h \in Heads : Names(h, log) => Names(h, log')
    BY <1>1, <1>2 DEF Names, Heads, ZeroHash
<1> QED
    BY <1>2, <1>4, <1>6, <1>7

(* The tip of a log names its last row (reloadHeadLocked).                 *)
LEMMA TipNames ==
    ASSUME TypeOK
    PROVE  Tip \in Heads /\ Names(Tip, log)
<1>1. log \in Seq(Rows)
    BY DEF TypeOK, Rows
<1>2. CASE log = <<>>
    BY <1>2 DEF Tip, Genesis, ZeroHash, Heads, Hashes, Names
<1>3. CASE log # <<>>
  <2>1. Len(log) \in 1 .. Len(log) /\ log[Len(log)] \in Rows
      BY <1>1, <1>3
  <2> QED
      BY <1>3, <2>1 DEF Tip, Heads, Names, Rows
<1> QED
    BY <1>2, <1>3

-----------------------------------------------------------------------------
Inv == TypeOK /\ ChainVerifies /\ OnLog

(* Nothing but log, heads and believed heads matters to the invariant.     *)
LEMMA QuietStep ==
    ASSUME Inv, UNCHANGED <<log, head>>, TypeOK',
           \A p \in Processes : call'[p].believed \in {call[p].believed, head[p], Genesis}
    PROVE  Inv'
<1>1. Names(Genesis, log)
    BY DEF Names, Genesis, ZeroHash, Inv, TypeOK
<1>2. ChainVerifies'
    BY DEF Inv, ChainVerifies
<1>3. OnLog'
    BY <1>1 DEF Inv, OnLog, Names
<1> QED
    BY <1>2, <1>3 DEF Inv

(* Ending a call, or sending it round again, touches no head (InTx).       *)
LEMMA EndOfCall ==
    ASSUME TypeOK, NEW p \in Processes, NEW told \in Told, Return(p, told) \/ Conflicted(p)
    PROVE  /\ pc' \in [Processes -> Labels] /\ call' \in [Processes -> Calls]
           /\ status' \in [Entries -> Told]
           /\ \A q \in Processes : call'[q].believed \in {call[q].believed, Genesis}
<1>1. NoCall \in Calls /\ NoCall.believed = Genesis
    BY DEF NoCall, Calls, Genesis, ZeroHash, Heads, Hashes
<1>2. pc \in [Processes -> Labels] /\ call \in [Processes -> Calls] /\ status \in [Entries -> Told]
    BY DEF TypeOK, Labels, Calls, Told
<1>3. ASSUME NEW t \in Told, Return(p, t)
      PROVE  /\ pc' \in [Processes -> Labels] /\ call' \in [Processes -> Calls]
             /\ status' \in [Entries -> Told]
             /\ \A q \in Processes : call'[q].believed \in {call[q].believed, Genesis}
    BY <1>1, <1>2, <1>3 DEF Return, Labels
<1>4. CASE call[p].retry /\ Conflicted(p)
  <2>1. /\ [call[p] EXCEPT !.retry = FALSE] \in Calls
        /\ [call[p] EXCEPT !.retry = FALSE].believed = call[p].believed
      BY <1>2 DEF Calls
  <2>2. call' = [call EXCEPT ![p] = [call[p] EXCEPT !.retry = FALSE]]
      BY <1>4 DEF Conflicted
  <2>3. \A q \in Processes : call'[q].believed = call[q].believed
      BY <1>2, <2>1, <2>2
  <2>4. call' \in [Processes -> Calls]
      BY <1>2, <2>1, <2>2
  <2>5. pc' \in [Processes -> Labels] /\ status' = status
      BY <1>2, <1>4 DEF Conflicted, Labels
  <2> QED
      BY <1>2, <2>3, <2>4, <2>5
<1>5. CASE ~call[p].retry /\ Conflicted(p)
    BY <1>3, <1>5 DEF Conflicted, Told
<1> QED
    BY <1>3, <1>4, <1>5

(* Startup establishes the invariant (ClaimWriter's empty segment).        *)
LEMMA InitInv == Init => Inv
<1> SUFFICES ASSUME Init PROVE Inv
    OBVIOUS
<1>1. NoCall \in Calls /\ NoCall.believed = Genesis /\ Genesis \in Heads
    BY DEF NoCall, Calls, Genesis, ZeroHash, Heads, Hashes
<1>2. TypeOK
    BY <1>1 DEF Init, TypeOK, Calls
<1>3. ChainVerifies
    BY DEF Init, ChainVerifies
<1>4. OnLog
  <2>1. Names(Genesis, log)
      BY DEF Init, Names, Genesis
  <2> QED
      BY <1>1, <2>1 DEF Init, OnLog
<1> QED
    BY <1>2, <1>3, <1>4 DEF Inv

(* What an audited transaction inserts keeps the invariant, whether or not *)
(* the head advances with it (Commit, CommitLost, Mark, MarkFails).        *)
LEMMA InsertStep ==
    ASSUME Inv, NEW p \in Processes, NEW e \in Entries \cup {Marker}, Free(p), Insert(p, e),
           \/ head' = Advanced(p)
           \/ UNCHANGED head
           \/ head' = [head EXCEPT ![p] = call[p].believed],
           call' \in [Processes -> Calls],
           \A q \in Processes : call'[q].believed \in {call[q].believed, Genesis}
    PROVE  /\ head' \in [Processes -> Heads] /\ log' \in Seq(Rows)
           /\ ChainVerifies' /\ OnLog'
<1>1. /\ head \in [Processes -> Heads] /\ call \in [Processes -> Calls]
      /\ \A q \in Processes : Names(head[q], log) /\ Names(call[q].believed, log)
    BY DEF Inv, TypeOK, Calls, OnLog
<1>2. /\ log' \in Seq(Rows) /\ Len(log') = Len(log) + 1 /\ log'[Len(log')].hash \in Hashes
      /\ ChainVerifies' /\ \A h \in Heads : Names(h, log) => Names(h, log')
    BY <1>1, InsertKeepsChain DEF Inv
<1> DEFINE top == [seq |-> head[p].seq + 1, hash |-> log'[Len(log')].hash]
<1>3. log \in Seq(Rows) /\ head[p].seq = Len(log)
    BY DEF Inv, TypeOK, Rows, Free
<1>4. top \in Heads /\ Names(top, log')
  <2>1. top.seq = Len(log') /\ top.seq # 0 /\ top.seq \in Nat
      BY <1>2, <1>3
  <2>2. top.hash = log'[top.seq].hash /\ top.hash \in Hashes
      BY <1>2, <2>1
  <2> QED
      BY <2>1, <2>2 DEF Names, Heads
<1>5. head' \in [Processes -> Heads] /\ \A q \in Processes : Names(head'[q], log')
  <2> HIDE DEF top
  <2>1. CASE head' = Advanced(p)
    <3>1. head' = [head EXCEPT ![p] = top]
        BY <2>1 DEF Advanced, top
    <3> QED
        BY <1>1, <1>2, <1>4, <3>1
  <2>2. CASE UNCHANGED head
      BY <1>1, <1>2, <2>2
  <2>3. CASE head' = [head EXCEPT ![p] = call[p].believed]
    <3>1. call[p].believed \in Heads
        BY <1>1 DEF Calls
    <3> QED
        BY <1>1, <1>2, <2>3, <3>1
  <2> QED
      BY <2>1, <2>2, <2>3
<1>6. \A q \in Processes : Names(call'[q].believed, log')
  <2>1. Names(Genesis, log')
      BY <1>2 DEF Names, Genesis
  <2>2. \A q \in Processes : call[q].believed \in Heads
      BY <1>1 DEF Calls
  <2> QED
      BY <1>1, <1>2, <2>1, <2>2
<1> QED
    BY <1>2, <1>5, <1>6 DEF OnLog

-----------------------------------------------------------------------------
(* Every step keeps the invariant: one case per action.                    *)
LEMMA NextInv == Inv /\ [Next]_vars => Inv'
<1> SUFFICES ASSUME Inv, [Next]_vars PROVE Inv'
    OBVIOUS
<1>t. /\ log \in Seq(Rows) /\ lock \in Processes \cup {Unclaimed}
      /\ head \in [Processes -> Heads] /\ broken \in [Processes -> BOOLEAN]
      /\ pc \in [Processes -> Labels] /\ call \in [Processes -> Calls]
      /\ status \in [Entries -> Told] /\ faults \in Nat
    BY DEF Inv, TypeOK, Rows, Labels, Calls, Told
<1>f. Fault => faults' \in Nat
    BY <1>t DEF Fault
<1>g. NoCall \in Calls /\ NoCall.believed = Genesis
    BY DEF NoCall, Calls, Genesis, ZeroHash, Heads, Hashes
<1>1. ASSUME NEW p \in Processes, ClaimWriter(p) PROVE Inv'
  <2>1. Tip \in Heads /\ Names(Tip, log)
      BY TipNames DEF Inv
  <2>2. TypeOK'
      BY <1>t, <1>1, <2>1 DEF ClaimWriter, TypeOK, Rows, Labels, Calls, Told
  <2>3. ChainVerifies' /\ OnLog'
      BY <1>t, <1>1, <2>1 DEF ClaimWriter, Inv, ChainVerifies, OnLog
  <2> QED
      BY <2>2, <2>3 DEF Inv
<1>2. ASSUME NEW p \in Processes, NEW e \in Entries, NEW retry \in BOOLEAN, Begin(p, e, retry)
      PROVE  Inv'
  <2> DEFINE c == [NoCall EXCEPT !.entry = e, !.retry = retry]
  <2>1. c \in Calls /\ c.believed = Genesis
      BY <1>g DEF Calls
  <2>2. call' = [call EXCEPT ![p] = c]
      BY <1>2 DEF Begin
  <2> HIDE DEF c
  <2>3. /\ pc' \in [Processes -> Labels] /\ status' \in [Entries -> Told]
        /\ call' \in [Processes -> Calls]
      BY <1>t, <1>2, <2>1, <2>2 DEF Begin, Labels, Told
  <2>4. TypeOK'
      BY <1>t, <1>2, <2>3 DEF Begin, TypeOK, Rows, Labels, Calls, Told
  <2> QED
      BY <1>t, <1>2, <2>1, <2>2, <2>4, QuietStep DEF Begin
<1>3. ASSUME NEW p \in Processes, Enter(p) PROVE Inv'
  <2>1. TypeOK'
      BY <1>t, <1>3 DEF Enter, TypeOK, Rows, Labels, Calls, Told
  <2> QED
      BY <1>3, <2>1, QuietStep DEF Enter
<1>4. ASSUME NEW p \in Processes, Commit(p) \/ CommitLost(p) PROVE Inv'
  <2>1. PICK told \in Told : Return(p, told)
      BY <1>4 DEF Commit, CommitLost, Told
  <2>2. /\ pc' \in [Processes -> Labels] /\ call' \in [Processes -> Calls]
        /\ status' \in [Entries -> Told]
        /\ \A q \in Processes : call'[q].believed \in {call[q].believed, Genesis}
      BY <2>1, EndOfCall DEF Inv
  <2>3. call[p].entry \in Entries \cup {Marker}
      BY <1>t DEF Calls
  <2>4. /\ head' \in [Processes -> Heads] /\ log' \in Seq(Rows) /\ ChainVerifies' /\ OnLog'
      BY <1>4, <2>2, <2>3, InsertStep DEF Commit, CommitLost
  <2>5. UNCHANGED <<lock, broken>> /\ faults' \in Nat
      BY <1>t, <1>f, <1>4 DEF Commit, CommitLost
  <2>6. TypeOK'
      BY <1>t, <2>2, <2>4, <2>5 DEF TypeOK, Rows, Labels, Calls, Told
  <2> QED
      BY <2>4, <2>6 DEF Inv
<1>5. ASSUME NEW p \in Processes, RolledBack(p) \/ Conflict(p) PROVE Inv'
  <2>1. PICK told \in Told : Return(p, told) \/ Conflicted(p)
      BY <1>5 DEF RolledBack, Conflict, Told
  <2>2. /\ pc' \in [Processes -> Labels] /\ call' \in [Processes -> Calls]
        /\ status' \in [Entries -> Told]
        /\ \A q \in Processes : call'[q].believed \in {call[q].believed, Genesis}
      BY <2>1, EndOfCall DEF Inv
  <2>3. UNCHANGED <<log, lock, head>> /\ faults' \in Nat /\ broken' \in [Processes -> BOOLEAN]
      BY <1>t, <1>f, <1>5 DEF RolledBack, Conflict
  <2>4. TypeOK'
      BY <1>t, <2>2, <2>3 DEF TypeOK, Rows, Labels, Calls, Told
  <2> QED
      BY <2>2, <2>3, <2>4, QuietStep
<1>6. ASSUME NEW p \in Processes, VerifyHold(p) PROVE Inv'
  <2>1. CASE lock = p
    <3>1. TypeOK'
        BY <1>t, <1>6, <2>1 DEF VerifyHold, TypeOK, Rows, Labels, Calls, Told
    <3> QED
        BY <1>6, <2>1, <3>1, QuietStep DEF VerifyHold
  <2>2. CASE lock # p
    <3>1. /\ pc' \in [Processes -> Labels] /\ call' \in [Processes -> Calls]
          /\ status' \in [Entries -> Told]
          /\ \A q \in Processes : call'[q].believed \in {call[q].believed, Genesis}
        BY <1>6, <2>2, EndOfCall DEF VerifyHold, Inv, Told
    <3>2. TypeOK'
        BY <1>t, <1>6, <3>1 DEF VerifyHold, TypeOK, Rows, Labels, Calls, Told
    <3> QED
        BY <1>6, <3>1, <3>2, QuietStep DEF VerifyHold
  <2> QED
      BY <2>1, <2>2
<1>7. ASSUME NEW p \in Processes, ReadTail(p) PROVE Inv'
  <2>1. CASE Conflicted(p) /\ UNCHANGED head
    <3>1. /\ pc' \in [Processes -> Labels] /\ call' \in [Processes -> Calls]
          /\ status' \in [Entries -> Told]
          /\ \A q \in Processes : call'[q].believed \in {call[q].believed, Genesis}
        BY <2>1, EndOfCall DEF Inv, Told
    <3>2. UNCHANGED <<log, lock, broken, faults>>
        BY <1>7 DEF ReadTail
    <3>3. TypeOK'
        BY <1>t, <2>1, <3>1, <3>2 DEF TypeOK, Rows, Labels, Calls, Told
    <3> QED
        BY <2>1, <3>1, <3>2, <3>3, QuietStep
  <2>2. CASE /\ call' = [call EXCEPT ![p].believed = head[p]]
             /\ head' = [head EXCEPT ![p] = Tip]
             /\ pc' = [pc EXCEPT ![p] = "mark"]
             /\ UNCHANGED status
    <3> DEFINE c == [call[p] EXCEPT !.believed = head[p]]
    <3>1. Tip \in Heads /\ Names(Tip, log)
        BY TipNames DEF Inv
    <3>2. c \in Calls /\ c.believed = head[p]
        BY <1>t DEF Calls
    <3>3. call' = [call EXCEPT ![p] = c]
        BY <2>2
    <3> HIDE DEF c
    <3>4. UNCHANGED <<log, lock, broken, faults>>
        BY <1>7 DEF ReadTail
    <3>7. call' \in [Processes -> Calls] /\ head' \in [Processes -> Heads]
        BY <1>t, <2>2, <3>1, <3>2, <3>3
    <3>8. pc' \in [Processes -> Labels]
        BY <1>t, <2>2 DEF Labels
    <3>5. TypeOK'
        BY <1>t, <2>2, <3>4, <3>7, <3>8 DEF TypeOK, Rows, Labels, Calls, Told
    <3>6. ChainVerifies' /\ OnLog'
        BY <1>t, <2>2, <3>1, <3>2, <3>3, <3>4 DEF Inv, ChainVerifies, OnLog
    <3> QED
        BY <3>5, <3>6 DEF Inv
  <2> QED
      BY <1>7, <2>1, <2>2 DEF ReadTail
<1>8. ASSUME NEW p \in Processes, Mark(p) PROVE Inv'
  <2>1. call' \in [Processes -> Calls] /\ call' = call
      BY <1>t, <1>8 DEF Mark
  <2>2. /\ head' \in [Processes -> Heads] /\ log' \in Seq(Rows) /\ ChainVerifies' /\ OnLog'
      BY <1>8, <2>1, InsertStep DEF Mark
  <2>3. TypeOK'
      BY <1>t, <1>8, <2>1, <2>2 DEF Mark, TypeOK, Rows, Labels, Calls, Told
  <2> QED
      BY <2>2, <2>3 DEF Inv
<1>9. ASSUME NEW p \in Processes, MarkFails(p) PROVE Inv'
  <2>1. /\ pc' \in [Processes -> Labels] /\ call' \in [Processes -> Calls]
        /\ status' \in [Entries -> Told]
        /\ \A q \in Processes : call'[q].believed \in {call[q].believed, Genesis}
      BY <1>9, EndOfCall DEF MarkFails, Inv, Told
  <2>2. /\ UNCHANGED <<lock, broken>> /\ faults' \in Nat
        /\ head' = [head EXCEPT ![p] = call[p].believed]
      BY <1>t, <1>f, <1>9 DEF MarkFails
  <2>3. call[p].believed \in Heads /\ Names(call[p].believed, log)
      BY <1>t DEF Inv, OnLog, Calls
  <2>4. CASE UNCHANGED log
    <3>1. /\ head' \in [Processes -> Heads] /\ log' \in Seq(Rows) /\ ChainVerifies'
        BY <1>t, <2>2, <2>3, <2>4 DEF Inv, ChainVerifies
    <3>2. Names(Genesis, log)
        BY <1>t DEF Names, Genesis
    <3>3. OnLog'
        BY <1>t, <2>1, <2>2, <2>3, <2>4, <3>2 DEF Inv, OnLog
    <3>4. TypeOK'
        BY <1>t, <2>1, <2>2, <3>1 DEF TypeOK, Rows, Labels, Calls, Told
    <3> QED
        BY <3>1, <3>3, <3>4 DEF Inv
  <2>5. CASE Free(p) /\ Insert(p, Marker)
    <3>1. /\ head' \in [Processes -> Heads] /\ log' \in Seq(Rows) /\ ChainVerifies' /\ OnLog'
        BY <2>1, <2>2, <2>5, InsertStep
    <3>2. TypeOK'
        BY <1>t, <2>1, <2>2, <3>1 DEF TypeOK, Rows, Labels, Calls, Told
    <3> QED
        BY <3>1, <3>2 DEF Inv
  <2> QED
      BY <1>9, <2>4, <2>5 DEF MarkFails
<1>10. ASSUME NEW p \in Processes, LoseClaim(p) PROVE Inv'
  <2>1. TypeOK'
      BY <1>t, <1>f, <1>10 DEF LoseClaim, TypeOK, Rows, Labels, Calls, Told
  <2> QED
      BY <1>10, <2>1, QuietStep DEF LoseClaim
<1>11. ASSUME NEW p \in Processes, Stop(p) PROVE Inv'
  <2>1. pc' \in [Processes -> Labels] /\ lock' \in Processes \cup {Unclaimed}
      BY <1>t, <1>11 DEF Stop, Labels
  <2>2. status' \in [Entries -> Told]
      BY <1>t, <1>11 DEF Stop, Told
  <2>3. call' \in [Processes -> Calls] /\ \A q \in Processes : call'[q].believed \in {call[q].believed, Genesis}
      BY <1>t, <1>g, <1>11 DEF Stop
  <2>4. UNCHANGED <<log, head, broken>> /\ faults' \in Nat
      BY <1>f, <1>11 DEF Stop
  <2>5. TypeOK'
      BY <1>t, <2>1, <2>2, <2>3, <2>4 DEF TypeOK, Rows, Labels, Calls, Told
  <2> QED
      BY <2>3, <2>4, <2>5, QuietStep
<1>12. CASE UNCHANGED vars
  <2>1. TypeOK'
      BY <1>t, <1>12 DEF vars, TypeOK, Rows, Labels, Calls, Told
  <2> QED
      BY <1>12, <2>1, QuietStep DEF vars
<1> QED
    BY <1>1, <1>2, <1>3, <1>4, <1>5, <1>6, <1>7, <1>8, <1>9, <1>10, <1>11, <1>12
    DEF Next, Run

-----------------------------------------------------------------------------
(* The writer's state has its types, in every execution.                   *)
THEOREM WriterTypeCorrect == Spec => []TypeOK
<1>1. Inv => TypeOK
    BY DEF Inv
<1> QED
    BY <1>1, InitInv, NextInv, PTL DEF Spec

(* VerifyChain never finds a fault in a segment the writers produced,      *)
(* however many processes claimed its id and whatever was lost on the way. *)
THEOREM WriterChainVerifies == Spec => []ChainVerifies
<1>1. Inv => ChainVerifies
    BY DEF Inv
<1> QED
    BY <1>1, InitInv, NextInv, PTL DEF Spec

-----------------------------------------------------------------------------
(* The refinement of AppendLog. An entry whose call is running belongs to  *)
(* one process and is not in the log, retry and reconciliation included;   *)
(* an entry nobody has appended is not in the log either.                  *)
Busy(p) == pc[p] \notin {"down", "idle"}
InLog(e) == \E i \in DOMAIN log : log[i].entry = e
CallsOpen ==
    /\ \A p \in Processes : Busy(p) =>
          /\ call[p].entry \in Entries /\ status[call[p].entry] = "running"
          /\ ~InLog(call[p].entry)
    /\ \A p, q \in Processes : Busy(p) /\ Busy(q) /\ call[p].entry = call[q].entry => p = q
    /\ \A e \in Entries : status[e] = "new" => ~InLog(e)

(* What an insert adds to the log and to what has landed (inTxLocked).     *)
LEMMA InsertLands ==
    ASSUME TypeOK, NEW p \in Processes, NEW e \in Entries \cup {Marker}, Insert(p, e)
    PROVE  /\ \A d : InLog(d)' <=> InLog(d) \/ d = e
           /\ e = Marker => Landed' = Landed
           /\ e # Marker =>
                 \E new \in Landed' : /\ new.entry = e /\ Landed' = Landed \cup {new}
                                      /\ \A row \in Landed : row.seq < new.seq
<1> DEFINE rec == Row(p, e, head[p].hash)
<1>1. log \in Seq(Rows) /\ head[p].hash \in Hashes
    BY DEF TypeOK, Rows, Heads
<1>2. rec \in Rows /\ rec.entry = e
    BY <1>1, RecordType DEF Row
<1>3. log' = Append(log, rec)
    BY DEF Insert
<1> HIDE DEF rec
<1>4. /\ Len(log) \in Nat /\ DOMAIN log = 1 .. Len(log) /\ DOMAIN log' = 1 .. Len(log) + 1
      /\ log'[Len(log) + 1].entry = e
      /\ \A i \in 1 .. Len(log) : log'[i].entry = log[i].entry
    BY <1>1, <1>2, <1>3
<1>5. \A d : InLog(d)' <=> InLog(d) \/ d = e
    BY <1>4 DEF InLog
<1>6. CASE e = Marker
  <2>1. Landed' = Landed
      BY <1>4, <1>6 DEF Landed
  <2> QED
      BY <1>5, <1>6, <2>1
<1>7. CASE e # Marker
  <2> DEFINE new == [seq |-> Len(log) + 1, entry |-> e]
  <2>1. Landed' = Landed \cup {new}
      BY <1>4, <1>7 DEF Landed
  <2>2. \A row \in Landed : row.seq < new.seq
      BY <1>4 DEF Landed
  <2>3. new \in Landed' /\ new.entry = e
      BY <2>1
  <2> HIDE DEF new
  <2> QED
      BY <1>5, <1>7, <2>1, <2>2, <2>3
<1> QED
    BY <1>6, <1>7

(* Ending a call tells its caller and leaves all others alone, and a call  *)
(* that goes round again stays as it was (Append, InTx).                   *)
LEMMA CallEnds ==
    ASSUME TypeOK, CallsOpen, NEW p \in Processes, Busy(p), NEW told \in Told \ {"new"}, Return(p, told)
    PROVE  /\ call[p].entry \in Entries /\ status[call[p].entry] = "running"
           /\ ~InLog(call[p].entry)
           /\ status' = [status EXCEPT ![call[p].entry] = told]
           /\ ~Busy(p)'
           /\ \A q \in Processes : Busy(q)' =>
                 /\ Busy(q) /\ call'[q] = call[q] /\ call[q].entry # call[p].entry
                 /\ status'[call[q].entry] = "running"
           /\ \A e \in Entries : status'[e] = "new" => status[e] = "new" /\ e # call[p].entry
<1>1. pc \in [Processes -> Labels] /\ call \in [Processes -> Calls] /\ status \in [Entries -> Told]
    BY DEF TypeOK, Labels, Calls, Told
<1>2. /\ call[p].entry \in Entries /\ status[call[p].entry] = "running" /\ ~InLog(call[p].entry)
    BY DEF CallsOpen
<1>3. /\ pc' = [pc EXCEPT ![p] = "idle"] /\ call' = [call EXCEPT ![p] = NoCall]
      /\ status' = [status EXCEPT ![call[p].entry] = told]
    BY DEF Return
<1>4. ~Busy(p)'
    BY <1>1, <1>3 DEF Busy
<1>5. ASSUME NEW q \in Processes, Busy(q)'
      PROVE  /\ Busy(q) /\ call'[q] = call[q] /\ call[q].entry # call[p].entry
             /\ status'[call[q].entry] = "running"
  <2>1. q # p
      BY <1>4, <1>5
  <2>2. Busy(q) /\ call'[q] = call[q]
      BY <1>1, <1>3, <1>5, <2>1 DEF Busy
  <2>3. call[q].entry \in Entries /\ status[call[q].entry] = "running" /\ call[q].entry # call[p].entry
      BY <2>1, <2>2 DEF CallsOpen
  <2> QED
      BY <1>1, <1>3, <2>2, <2>3
<1>6. \A e \in Entries : status'[e] = "new" => status[e] = "new" /\ e # call[p].entry
    BY <1>1, <1>2, <1>3
<1> QED
    BY <1>2, <1>3, <1>4, <1>5, <1>6

(* A failed call is a Fail of the contract, and a retried one no step.     *)
LEMMA ConflictedRefines ==
    ASSUME TypeOK, CallsOpen, NEW p \in Processes, Busy(p), Conflicted(p) \/ Return(p, "error"),
           Landed' = Landed, \A e \in Entries : InLog(e)' => InLog(e)
    PROVE  CallsOpen' /\ [Contract!Next]_<<Landed, status>>
<1>1. pc \in [Processes -> Labels] /\ call \in [Processes -> Calls] /\ status \in [Entries -> Told]
    BY DEF TypeOK, Labels, Calls, Told
<1>2. CASE Return(p, "error")
  <2>1. "error" \in Told \ {"new"}
      BY DEF Told
  <2>2. /\ call[p].entry \in Entries /\ status[call[p].entry] = "running"
        /\ status' = [status EXCEPT ![call[p].entry] = "error"]
        /\ \A q \in Processes : Busy(q)' =>
              /\ Busy(q) /\ call'[q] = call[q] /\ status'[call[q].entry] = "running"
        /\ \A e \in Entries : status'[e] = "new" => status[e] = "new"
      BY <1>2, <2>1, CallEnds
  <2>3. CallsOpen'
      BY <2>2 DEF CallsOpen
  <2>4. Contract!Fail(call[p].entry)
      BY <2>2 DEF Contract!Fail
  <2> QED
      BY <2>2, <2>3, <2>4 DEF Contract!Next
<1>3. CASE call[p].retry /\ Conflicted(p)
  <2>1. /\ pc' = [pc EXCEPT ![p] = "begin"] /\ call' = [call EXCEPT ![p].retry = FALSE]
        /\ status' = status
      BY <1>3 DEF Conflicted
  <2>2. \A q \in Processes : call'[q].entry = call[q].entry /\ (Busy(q)' => Busy(q))
      BY <1>1, <2>1 DEF Busy, Calls
  <2>3. CallsOpen'
      BY <2>1, <2>2 DEF CallsOpen
  <2> QED
      BY <2>1, <2>3
<1> QED
    BY <1>2, <1>3 DEF Conflicted

(* A step that moves no entry and tells nobody anything.                   *)
LEMMA QuietRefines ==
    ASSUME CallsOpen, status' = status, Landed' = Landed,
           \A e \in Entries : InLog(e)' => InLog(e),
           \A q \in Processes : Busy(q)' => Busy(q) /\ call'[q].entry = call[q].entry
    PROVE  CallsOpen' /\ [Contract!Next]_<<Landed, status>>
<1>1. CallsOpen'
    BY DEF CallsOpen
<1> QED
    BY <1>1

(* Every step of the writers is one of the contract, or none.              *)
LEMMA NextRefines ==
    ASSUME TypeOK, CallsOpen, [Next]_vars
    PROVE  CallsOpen' /\ [Contract!Next]_<<Landed, status>>
<1>t. pc \in [Processes -> Labels] /\ call \in [Processes -> Calls] /\ status \in [Entries -> Told]
    BY DEF TypeOK, Labels, Calls, Told
<1>s. log' = log => Landed' = Landed /\ \A e \in Entries : InLog(e)' => InLog(e)
    BY DEF Landed, InLog
<1>1. ASSUME NEW p \in Processes, ClaimWriter(p) \/ Enter(p) \/ LoseClaim(p)
      PROVE  CallsOpen' /\ [Contract!Next]_<<Landed, status>>
  <2>1. log' = log /\ status' = status
      BY <1>1 DEF ClaimWriter, Enter, LoseClaim
  <2>2. \A q \in Processes : Busy(q)' => Busy(q) /\ call'[q].entry = call[q].entry
      BY <1>t, <1>1 DEF ClaimWriter, Enter, LoseClaim, Busy
  <2> QED
      BY <1>s, <2>1, <2>2, QuietRefines
<1>2. ASSUME NEW p \in Processes, NEW e \in Entries, NEW retry \in BOOLEAN, Begin(p, e, retry)
      PROVE  CallsOpen' /\ [Contract!Next]_<<Landed, status>>
  <2> DEFINE c == [NoCall EXCEPT !.entry = e, !.retry = retry]
  <2>1. /\ pc' = [pc EXCEPT ![p] = "begin"] /\ call' = [call EXCEPT ![p] = c]
        /\ status' = [status EXCEPT ![e] = "running"] /\ status[e] = "new" /\ log' = log
      BY <1>2 DEF Begin
  <2>2. c.entry = e
      BY DEF NoCall
  <2> HIDE DEF c
  <2>3. ~InLog(e) /\ \A q \in Processes : Busy(q) => call[q].entry \in Entries /\ call[q].entry # e
      BY <2>1 DEF CallsOpen
  <2>4. /\ call'[p].entry = e /\ status'[e] = "running"
        /\ \A q \in Processes \ {p} : call'[q] = call[q] /\ (Busy(q)' => Busy(q))
        /\ \A d \in Entries : d # e => status'[d] = status[d]
      BY <1>t, <2>1, <2>2 DEF Busy
  <2>5. \A d \in Entries : InLog(d)' => InLog(d)
      BY <1>s, <2>1
  <2>6. \A q \in Processes : Busy(q)' =>
          /\ call'[q].entry \in Entries /\ status'[call'[q].entry] = "running"
          /\ ~(InLog(call[q].entry))'
    <3> SUFFICES ASSUME NEW q \in Processes, Busy(q)'
                 PROVE  /\ call'[q].entry \in Entries /\ status'[call'[q].entry] = "running"
                        /\ ~(InLog(call[q].entry))'
        OBVIOUS
    <3>1. CASE q = p
        BY <2>3, <2>4, <2>5, <3>1
    <3>2. CASE q # p
        BY <2>3, <2>4, <2>5, <3>2 DEF CallsOpen
    <3> QED
        BY <3>1, <3>2
  <2>7. \A q, r \in Processes : Busy(q)' /\ Busy(r)' /\ call'[q].entry = call'[r].entry => q = r
      BY <2>3, <2>4 DEF CallsOpen
  <2>8. \A d \in Entries : status'[d] = "new" => ~InLog(d)'
      BY <2>4, <2>5 DEF CallsOpen
  <2>9. Contract!Call(e)
      BY <1>s, <2>1 DEF Contract!Call
  <2> QED
      BY <2>6, <2>7, <2>8, <2>9 DEF CallsOpen, Contract!Next
<1>3. ASSUME NEW p \in Processes, Commit(p) \/ CommitLost(p)
      PROVE  CallsOpen' /\ [Contract!Next]_<<Landed, status>>
  <2> DEFINE e == call[p].entry
  <2>1. PICK told \in {"ok", "error"} : Return(p, told)
      BY <1>3 DEF Commit, CommitLost
  <2>2. Busy(p) /\ Insert(p, e) /\ told \in Told \ {"new"}
      BY <1>3, <2>1 DEF Commit, CommitLost, Busy, Told
  <2>3. /\ e \in Entries /\ status[e] = "running" /\ ~InLog(e)
        /\ status' = [status EXCEPT ![e] = told]
        /\ \A q \in Processes : Busy(q)' =>
              /\ Busy(q) /\ call'[q] = call[q] /\ call[q].entry # e /\ status'[call[q].entry] = "running"
        /\ \A d \in Entries : status'[d] = "new" => status[d] = "new" /\ d # e
      BY <2>1, <2>2, CallEnds
  <2> HIDE DEF e
  <2>4. e # Marker
      BY <2>3, WriterAssumption
  <2>5. /\ \A d : InLog(d)' <=> InLog(d) \/ d = e
        /\ \E new \in Landed' : /\ new.entry = e /\ Landed' = Landed \cup {new}
                                /\ \A row \in Landed : row.seq < new.seq
      BY <2>2, <2>3, <2>4, InsertLands
  <2>6. CallsOpen'
      BY <2>3, <2>5 DEF CallsOpen
  <2>7. \A row \in Landed : row.entry # e
      BY <2>3 DEF Landed, InLog
  <2>8. Contract!Land(e)
      BY <2>1, <2>3, <2>5, <2>7 DEF Contract!Land
  <2> QED
      BY <2>3, <2>6, <2>8 DEF Contract!Next
<1>4. ASSUME NEW p \in Processes, RolledBack(p) \/ Conflict(p)
      PROVE  CallsOpen' /\ [Contract!Next]_<<Landed, status>>
  <2>1. Busy(p) /\ log' = log /\ (Conflicted(p) \/ Return(p, "error"))
      BY <1>4 DEF RolledBack, Conflict, Busy
  <2> QED
      BY <1>s, <2>1, ConflictedRefines
<1>5. ASSUME NEW p \in Processes, VerifyHold(p) \/ ReadTail(p)
      PROVE  CallsOpen' /\ [Contract!Next]_<<Landed, status>>
  <2>1. Busy(p) /\ log' = log
      BY <1>5 DEF VerifyHold, ReadTail, Busy
  <2>2. CASE Conflicted(p)
      BY <1>s, <2>1, <2>2, ConflictedRefines
  <2>3. CASE ~Conflicted(p)
    <3>1. /\ status' = status /\ \A q \in Processes : call'[q].entry = call[q].entry
          /\ \A q \in Processes : Busy(q)' => Busy(q)
        BY <1>t, <1>5, <2>1, <2>3 DEF VerifyHold, ReadTail, Busy, Calls
    <3> QED
        BY <1>s, <2>1, <3>1, QuietRefines
  <2> QED
      BY <2>2, <2>3
<1>6. ASSUME NEW p \in Processes, Mark(p)
      PROVE  CallsOpen' /\ [Contract!Next]_<<Landed, status>>
  <2>1. Insert(p, Marker) /\ status' = status /\ call' = call
      BY <1>6 DEF Mark
  <2>2. Landed' = Landed /\ \A d : InLog(d)' <=> InLog(d) \/ d = Marker
      BY <2>1, InsertLands
  <2>3. \A e \in Entries : InLog(e)' => InLog(e)
      BY <2>2, WriterAssumption
  <2>4. \A q \in Processes : Busy(q)' => Busy(q)
      BY <1>t, <1>6 DEF Mark, Busy
  <2> QED
      BY <2>1, <2>2, <2>3, <2>4, QuietRefines
<1>7. ASSUME NEW p \in Processes, MarkFails(p)
      PROVE  CallsOpen' /\ [Contract!Next]_<<Landed, status>>
  <2>1. Busy(p) /\ Conflicted(p) /\ (log' = log \/ Insert(p, Marker))
      BY <1>7 DEF MarkFails, Busy
  <2>2. Insert(p, Marker) => Landed' = Landed /\ \A d : InLog(d)' <=> InLog(d) \/ d = Marker
      BY InsertLands
  <2>3. Landed' = Landed /\ \A e \in Entries : InLog(e)' => InLog(e)
      BY <1>s, <2>1, <2>2, WriterAssumption
  <2> QED
      BY <2>1, <2>3, ConflictedRefines
<1>8. ASSUME NEW p \in Processes, Stop(p)
      PROVE  CallsOpen' /\ [Contract!Next]_<<Landed, status>>
  <2>1. /\ log' = log /\ pc' = [pc EXCEPT ![p] = "down"] /\ call' = [call EXCEPT ![p] = NoCall]
        /\ status' = IF pc[p] = "idle" THEN status ELSE [status EXCEPT ![call[p].entry] = "error"]
        /\ pc[p] # "down"
      BY <1>8 DEF Stop
  <2>2. \A q \in Processes : Busy(q)' => q # p /\ Busy(q) /\ call'[q] = call[q]
      BY <1>t, <2>1 DEF Busy
  <2>3. CASE pc[p] = "idle"
      BY <1>s, <2>1, <2>2, <2>3, QuietRefines
  <2>4. CASE pc[p] # "idle"
    <3> DEFINE e == call[p].entry
    <3>1. Busy(p) /\ status' = [status EXCEPT ![e] = "error"]
        BY <2>1, <2>4 DEF Busy
    <3>2. e \in Entries /\ status[e] = "running"
        BY <3>1 DEF CallsOpen
    <3>3. \A q \in Processes : Busy(q)' => call[q].entry # e /\ call[q].entry \in Entries
        BY <2>2, <3>1 DEF CallsOpen
    <3> HIDE DEF e
    <3>4. \A d \in Entries : d # e => status'[d] = status[d]
        BY <1>t, <3>1
    <3>5. \A d \in Entries : status'[d] = "new" => status[d] = "new"
        BY <1>t, <3>1, <3>2
    <3>6. \A d \in Entries : InLog(d)' => InLog(d)
        BY <1>s, <2>1
    <3>7. CallsOpen'
        BY <2>2, <3>3, <3>4, <3>5, <3>6 DEF CallsOpen
    <3>8. Contract!Fail(e)
        BY <1>s, <2>1, <3>1, <3>2 DEF Contract!Fail
    <3> QED
        BY <3>2, <3>7, <3>8 DEF Contract!Next
  <2> QED
      BY <2>3, <2>4
<1>9. CASE UNCHANGED vars
    BY <1>s, <1>9, QuietRefines DEF vars, Busy
<1> QED
    BY <1>1, <1>2, <1>3, <1>4, <1>5, <1>6, <1>7, <1>8, <1>9 DEF Next, Run

(* The audit writer keeps its contract: an entry lands at most once,       *)
(* behind all that landed before and never to disappear; an acknowledged   *)
(* entry has landed; an error says nothing. Retry, lost commits,           *)
(* reconciliation, restarts and several processes under one id included.   *)
THEOREM WriterImplementsAppendLog == Spec => ImplementsAppendLog
<1>1. Init => CallsOpen /\ Contract!Init
  <2> SUFFICES ASSUME Init PROVE CallsOpen /\ Contract!Init
      OBVIOUS
  <2>1. log = <<>> /\ status = [e \in Entries |-> "new"] /\ pc = [p \in Processes |-> "down"]
      BY DEF Init
  <2>2. Landed = {}
      BY <2>1 DEF Landed
  <2>3. CallsOpen
      BY <2>1 DEF CallsOpen, Busy, InLog
  <2> QED
      BY <2>1, <2>2, <2>3 DEF Contract!Init
<1>2. TypeOK /\ CallsOpen /\ [Next]_vars => CallsOpen' /\ [Contract!Next]_<<Landed, status>>
    BY NextRefines
<1> QED
    BY <1>1, <1>2, WriterTypeCorrect, PTL DEF Spec, ImplementsAppendLog, Contract!Spec

-----------------------------------------------------------------------------
(* The buffer of the check path.                                           *)
Shape == /\ flusher = "idle" => batch = <<>> /\ lost = 0
         /\ flusher = "batch" => lost = 0
Apart == /\ IsInjective(queue) /\ IsInjective(batch)
         /\ Range(queue) \cap Range(batch) = {}
         /\ leaves \cap (Range(queue) \cup Range(batch)) = {}
BufferInv == BufferTypeOK /\ Shape /\ Apart /\ RefusesUntilMarked /\ NoSilentLoss

-----------------------------------------------------------------------------
(* A sequence without repetitions has as many elements as entries.         *)
LEMMA InjectiveCount ==
    ASSUME NEW S, NEW s \in Seq(S), IsInjective(s)
    PROVE  IsFiniteSet(Range(s)) /\ Cardinality(Range(s)) = Len(s)
<1>1. Len(s) \in Nat /\ DOMAIN s = 1 .. Len(s) /\ s \in [1 .. Len(s) -> Range(s)]
    BY DEF Range
<1>2. s \in Bijection(1 .. Len(s), Range(s))
    BY <1>1 DEF Range, IsInjective, Bijection, Injection, Surjection
<1>3. ExistsBijection(1 .. Len(s), Range(s))
    BY <1>2 DEF ExistsBijection
<1> QED
    BY <1>1, <1>3, FS_CountingElements, FS_NatBijection

(* Cutting a sequence without repetitions in two separates its elements    *)
(* (the chunk loop of Flush).                                              *)
LEMMA CutInTwo ==
    ASSUME NEW n \in Nat, NEW s \in Seq(1 .. n), IsInjective(s), NEW k \in 0 .. Len(s)
    PROVE  LET a == SubSeq(s, 1, k)
               b == SubSeq(s, k + 1, Len(s))
           IN  /\ a \in Seq(1 .. n) /\ b \in Seq(1 .. n) /\ Len(a) = k
               /\ IsInjective(a) /\ IsInjective(b)
               /\ Range(s) = Range(a) \cup Range(b) /\ Range(a) \cap Range(b) = {}
<1> DEFINE a == SubSeq(s, 1, k)
           b == SubSeq(s, k + 1, Len(s))
<1>1. /\ a \in Seq(1 .. n) /\ Len(a) = k /\ DOMAIN a = 1 .. k
      /\ \A i \in 1 .. k : a[i] = s[i]
    OBVIOUS
<1>2. /\ b \in Seq(1 .. n) /\ DOMAIN b = 1 .. Len(s) - k
      /\ \A i \in 1 .. Len(s) - k : b[i] = s[k + i]
    OBVIOUS
<1>3. DOMAIN s = 1 .. Len(s) /\ Len(s) \in Nat /\ k \in Nat /\ k <= Len(s)
    OBVIOUS
<1>4. \A i, j \in 1 .. Len(s) : s[i] = s[j] => i = j
    BY <1>3 DEF IsInjective
<1>5. DOMAIN a = 1 .. k /\ \A i \in 1 .. k : a[i] = s[i]
    BY <1>1
<1>6. DOMAIN b = 1 .. Len(s) - k /\ \A i \in 1 .. Len(s) - k : b[i] = s[k + i]
    BY <1>2
<1> HIDE DEF a, b
<1>7. IsInjective(a)
    BY <1>3, <1>4, <1>5 DEF IsInjective
<1>8. IsInjective(b)
  <2> SUFFICES ASSUME NEW i \in 1 .. Len(s) - k, NEW j \in 1 .. Len(s) - k, b[i] = b[j]
               PROVE  i = j
      BY <1>6 DEF IsInjective
  <2>1. k + i \in 1 .. Len(s) /\ k + j \in 1 .. Len(s) /\ s[k + i] = s[k + j]
      BY <1>3, <1>6
  <2> QED
      BY <1>3, <1>4, <2>1
<1>9. \A x : x \in Range(a) <=> \E i \in 1 .. k : x = s[i]
    BY <1>5 DEF Range
<1>10. \A x : x \in Range(b) <=> \E i \in k + 1 .. Len(s) : x = s[i]
  <2>1. \A x : x \in Range(b) <=> \E i \in 1 .. Len(s) - k : x = s[k + i]
      BY <1>6 DEF Range
  <2>2. ASSUME NEW i \in 1 .. Len(s) - k PROVE k + i \in k + 1 .. Len(s)
      BY <1>3
  <2>3. ASSUME NEW i \in k + 1 .. Len(s) PROVE i - k \in 1 .. Len(s) - k /\ k + (i - k) = i
      BY <1>3
  <2> QED
      BY <2>1, <2>2, <2>3
<1>11. \A x : x \in Range(s) <=> \E i \in 1 .. Len(s) : x = s[i]
    BY <1>3 DEF Range
<1>12. \A i \in 1 .. Len(s) : i \in 1 .. k \/ i \in k + 1 .. Len(s)
    BY <1>3
<1>13. (\A i \in 1 .. k : i \in 1 .. Len(s)) /\ \A i \in k + 1 .. Len(s) : i \in 1 .. Len(s) /\ i \notin 1 .. k
    BY <1>3
<1>14. Range(s) = Range(a) \cup Range(b)
    BY <1>9, <1>10, <1>11, <1>12, <1>13, Zenon
<1>15. Range(a) \cap Range(b) = {}
  <2> SUFFICES ASSUME NEW x, x \in Range(a), x \in Range(b) PROVE FALSE
      OBVIOUS
  <2>1. PICK i \in 1 .. k : x = s[i]
      BY <1>9
  <2>2. PICK j \in k + 1 .. Len(s) : x = s[j]
      BY <1>10
  <2> QED
      BY <1>4, <1>13, <2>1, <2>2, Zenon
<1> QED
    BY <1>1, <1>2, <1>7, <1>8, <1>14, <1>15 DEF a, b

(* What is missing is a finite set (the events are numbered).              *)
LEMMA MissingFinite ==
    ASSUME BufferTypeOK
    PROVE  IsFiniteSet(Missing) /\ Cardinality(Missing) \in Nat
<1>1. recorded \in Nat /\ IsFiniteSet(1 .. recorded)
    BY FS_Interval DEF BufferTypeOK
<1>2. Missing \in SUBSET (1 .. recorded)
    BY DEF Missing
<1> QED
    BY <1>1, <1>2, FS_Subset, FS_CardinalityType

(* Adding one element at the end (the queue of Record).                    *)
LEMMA AppendOne ==
    ASSUME NEW n \in Nat, NEW s \in Seq(1 .. n), IsInjective(s)
    PROVE  LET t == Append(s, n + 1)
           IN  t \in Seq(1 .. n + 1) /\ IsInjective(t) /\ Range(t) = Range(s) \cup {n + 1}
<1> DEFINE t == Append(s, n + 1)
<1>1. /\ t \in Seq(1 .. n + 1) /\ DOMAIN t = 1 .. Len(s) + 1 /\ DOMAIN s = 1 .. Len(s)
      /\ t[Len(s) + 1] = n + 1 /\ \A i \in 1 .. Len(s) : t[i] = s[i] /\ s[i] \in 1 .. n
    OBVIOUS
<1> HIDE DEF t
<1>2. IsInjective(t)
  <2>1. \A i, j \in 1 .. Len(s) : s[i] = s[j] => i = j
      BY <1>1 DEF IsInjective
  <2> SUFFICES ASSUME NEW i \in 1 .. Len(s) + 1, NEW j \in 1 .. Len(s) + 1, t[i] = t[j]
               PROVE  i = j
      BY <1>1 DEF IsInjective
  <2>4. \A x \in 1 .. Len(s) : t[x] # n + 1
      BY <1>1
  <2>5. t[Len(s) + 1] = n + 1 /\ Len(s) \in Nat
      BY <1>1
  <2>2. CASE i = Len(s) + 1 \/ j = Len(s) + 1
      BY <2>2, <2>4, <2>5
  <2>3. CASE i \in 1 .. Len(s) /\ j \in 1 .. Len(s)
      BY <1>1, <2>1, <2>3
  <2>6. \A x \in 1 .. Len(s) + 1 : x = Len(s) + 1 \/ x \in 1 .. Len(s)
      BY <2>5
  <2>7. (i = Len(s) + 1 \/ i \in 1 .. Len(s)) /\ (j = Len(s) + 1 \/ j \in 1 .. Len(s))
      BY <2>6
  <2> QED
      BY <2>2, <2>3, <2>7, Zenon
<1>3. Range(t) = Range(s) \cup {n + 1}
    BY <1>1 DEF Range
<1> QED
    BY <1>1, <1>2, <1>3 DEF t

-----------------------------------------------------------------------------
(* The buffer starts with nothing to account for.                          *)
LEMMA BufferStarts == InitBuffer => BufferInv
<1> SUFFICES ASSUME InitBuffer PROVE BufferInv
    OBVIOUS
<1>1. BufferTypeOK
  <2>1. \A S : <<>> \in Seq(S)
      OBVIOUS
  <2>2. queue \in Seq(1 .. recorded) /\ batch \in Seq(1 .. recorded) /\ leaves \subseteq 1 .. recorded
      BY <2>1, Zenon DEF InitBuffer
  <2>3. alerting \in BOOLEAN /\ flusher \in {"idle", "gap", "batch"}
      BY Zenon DEF InitBuffer
  <2> QED
      BY <2>2, <2>3 DEF InitBuffer, BufferTypeOK
<1>2. Shape /\ RefusesUntilMarked
    BY DEF InitBuffer, Shape, RefusesUntilMarked
<1>3. Apart
    BY DEF InitBuffer, Apart, IsInjective, Range
<1>4. Missing = {}
    BY DEF InitBuffer, Missing
<1>5. NoSilentLoss
    BY <1>4, FS_EmptySet DEF InitBuffer, NoSilentLoss, Accounted
<1> QED
    BY <1>1, <1>2, <1>3, <1>5 DEF BufferInv

(* Record enqueues, or counts what it cannot.                              *)
LEMMA RecordKeeps ==
    ASSUME BufferInv, Record
    PROVE  BufferInv'
<1>t. /\ recorded \in Nat /\ pendingLost \in Nat /\ dropped \in Nat /\ lost \in Nat
      /\ marked \in Nat /\ unseen \in Nat /\ failures \in Nat
      /\ queue \in Seq(1 .. recorded) /\ batch \in Seq(1 .. recorded) /\ leaves \subseteq 1 .. recorded
      /\ alerting \in BOOLEAN /\ flusher \in {"idle", "gap", "batch"} /\ Threshold \in Nat
    BY BufferAssumption DEF BufferInv, BufferTypeOK
<1>1. /\ recorded' = recorded + 1 /\ UNCHANGED <<flusher, lost, batch, leaves, marked, unseen, failures>>
    BY DEF Record, chain
<1>2. /\ batch \in Seq(1 .. recorded + 1) /\ leaves \subseteq 1 .. recorded + 1
      /\ queue \in Seq(1 .. recorded + 1)
    BY <1>t
<1>3. /\ Range(queue) \subseteq 1 .. recorded /\ Range(batch) \subseteq 1 .. recorded
    BY <1>t DEF Range
<1>4. IsFiniteSet(Missing) /\ Cardinality(Missing) \in Nat /\ Missing \subseteq 1 .. recorded
    BY MissingFinite DEF BufferInv, Missing
<1>n. recorded + 1 \notin 1 .. recorded /\ 1 .. recorded + 1 = (1 .. recorded) \cup {recorded + 1}
    BY <1>t
<1>5. CASE Drop(1) /\ UNCHANGED queue
  <2>1. Missing' = Missing \cup {recorded + 1}
      BY <1>1, <1>3, <1>5, <1>n, <1>t DEF Missing, Waiting
  <2>2. Cardinality(Missing') = Cardinality(Missing) + 1
      BY <1>4, <1>n, <2>1, FS_AddElement
  <2>3. dropped' = dropped + 1 /\ pendingLost' = pendingLost + 1 /\ alerting' = (alerting \/ dropped' >= Threshold)
      BY <1>5 DEF Drop
  <2>4. NoSilentLoss'
      BY <1>t, <1>1, <1>4, <2>2, <2>3 DEF BufferInv, NoSilentLoss, Accounted
  <2>5. RefusesUntilMarked'
      BY <1>t, <1>1, <2>3 DEF BufferInv, RefusesUntilMarked
  <2>a. alerting' \in BOOLEAN
      BY <2>3, Zenon
  <2>6. BufferTypeOK'
      BY <1>t, <1>1, <1>2, <1>5, <2>3, <2>a DEF BufferTypeOK
  <2>7. Shape' /\ Apart'
      BY <1>1, <1>5 DEF BufferInv, Shape, Apart
  <2> QED
      BY <2>4, <2>5, <2>6, <2>7 DEF BufferInv
<1>6. CASE queue' = Append(queue, recorded') /\ UNCHANGED <<pendingLost, dropped, alerting>>
  <2>1. /\ queue' \in Seq(1 .. recorded + 1) /\ IsInjective(queue')
        /\ Range(queue') = Range(queue) \cup {recorded + 1}
      BY <1>t, <1>1, <1>6, AppendOne DEF BufferInv, Apart
  <2>2. Missing' = Missing
      BY <1>1, <1>3, <1>n, <1>t, <2>1 DEF Missing, Waiting
  <2>3. NoSilentLoss' /\ RefusesUntilMarked'
      BY <1>1, <1>6, <2>2 DEF BufferInv, NoSilentLoss, Accounted, RefusesUntilMarked
  <2>4. BufferTypeOK'
      BY <1>t, <1>1, <1>2, <1>6, <2>1 DEF BufferTypeOK
  <2>5. Apart'
      BY <1>1, <1>3, <1>n, <1>t, <2>1 DEF BufferInv, Apart
  <2>6. Shape'
      BY <1>1 DEF BufferInv, Shape
  <2> QED
      BY <2>3, <2>4, <2>5, <2>6 DEF BufferInv
<1> QED
    BY <1>5, <1>6 DEF Record

(* The flusher takes everything, writes or returns the marker, and clears  *)
(* the alert only on an empty account.                                     *)
LEMMA TakeGapEndKeep ==
    ASSUME BufferInv, FlushTake \/ FlushEnd \/ \E outcome \in Outcomes : FlushGap(outcome)
    PROVE  BufferInv'
<1>t. /\ recorded \in Nat /\ pendingLost \in Nat /\ dropped \in Nat /\ lost \in Nat
      /\ marked \in Nat /\ unseen \in Nat /\ failures \in Nat
      /\ queue \in Seq(1 .. recorded) /\ batch \in Seq(1 .. recorded) /\ leaves \subseteq 1 .. recorded
      /\ alerting \in BOOLEAN /\ flusher \in {"idle", "gap", "batch"}
    BY DEF BufferInv, BufferTypeOK
<1>4. Cardinality(Missing) \in Nat
    BY MissingFinite DEF BufferInv
<1>1. CASE FlushTake
  <2>1. /\ batch' = queue /\ queue' = <<>> /\ lost' = pendingLost /\ pendingLost' = 0
        /\ flusher' = IF lost' > 0 THEN "gap" ELSE "batch"
        /\ UNCHANGED <<recorded, dropped, alerting, leaves, marked, unseen, failures>>
        /\ batch = <<>> /\ lost = 0
      BY <1>1 DEF FlushTake, chain, BufferInv, Shape
  <2>2. Range(<<>>) = {} /\ IsInjective(<<>>)
      BY DEF Range, IsInjective
  <2>3. Missing' = Missing /\ Apart'
      BY <2>1, <2>2 DEF Missing, Waiting, BufferInv, Apart
  <2>4. NoSilentLoss' /\ RefusesUntilMarked'
      BY <1>t, <2>1, <2>3 DEF BufferInv, NoSilentLoss, Accounted, RefusesUntilMarked
  <2>5. BufferTypeOK'
      BY <1>t, <2>1 DEF BufferTypeOK
  <2>6. Shape'
      BY <1>t, <2>1 DEF Shape
  <2> QED
      BY <2>3, <2>4, <2>5, <2>6 DEF BufferInv
<1>2. ASSUME NEW outcome \in Outcomes, FlushGap(outcome) PROVE BufferInv'
  <2>1. /\ marked' = IF outcome = "failed" THEN marked ELSE marked + lost
        /\ pendingLost' = IF outcome = "ok" THEN pendingLost ELSE pendingLost + lost
        /\ lost' = 0 /\ flusher' = "batch"
        /\ UNCHANGED <<recorded, queue, dropped, alerting, batch, leaves>>
        /\ failures' = IF outcome = "ok" THEN failures ELSE failures + 1
        /\ unseen' = IF outcome = "lost" THEN unseen + 1 ELSE unseen
        /\ outcome \in {"ok", "lost", "failed"}
      BY <1>2 DEF FlushGap, Written, Outcomes
  <2>2. Missing' = Missing /\ Apart'
      BY <2>1 DEF Missing, Waiting, BufferInv, Apart
  <2>3. NoSilentLoss'
      BY <1>t, <1>4, <2>1, <2>2 DEF BufferInv, NoSilentLoss, Accounted
  <2>4. RefusesUntilMarked'
      BY <1>t, <2>1 DEF BufferInv, RefusesUntilMarked
  <2>5. BufferTypeOK' /\ Shape'
      BY <1>t, <2>1 DEF BufferTypeOK, Shape
  <2> QED
      BY <2>2, <2>3, <2>4, <2>5 DEF BufferInv
<1>3. CASE FlushEnd
  <2>1. /\ batch = <<>> /\ flusher = "batch" /\ lost = 0 /\ flusher' = "idle"
        /\ alerting' = (alerting /\ ~(pendingLost = 0 /\ Len(queue) <= Capacity \div 2))
        /\ UNCHANGED <<recorded, queue, pendingLost, dropped, lost, batch, leaves, marked, unseen, failures>>
      BY <1>3 DEF FlushEnd, chain, BufferInv, Shape
  <2>2. Missing' = Missing /\ Apart'
      BY <2>1 DEF Missing, Waiting, BufferInv, Apart
  <2>3. NoSilentLoss'
      BY <2>1, <2>2 DEF BufferInv, NoSilentLoss, Accounted
  <2>4. pendingLost > 0 => alerting' = alerting
      BY <1>t, <2>1
  <2>5. RefusesUntilMarked'
    <3> SUFFICES ASSUME dropped' >= Threshold, pendingLost' + lost' > 0 PROVE alerting'
        BY DEF RefusesUntilMarked
    <3>1. dropped >= Threshold /\ pendingLost + lost > 0 /\ pendingLost > 0
        BY <1>t, <2>1
    <3>2. alerting
        BY <3>1 DEF BufferInv, RefusesUntilMarked
    <3> QED
        BY <2>4, <3>1, <3>2
  <2>a. alerting' \in BOOLEAN
      BY <2>1, Zenon
  <2>6. BufferTypeOK' /\ Shape'
      BY <1>t, <2>1, <2>a DEF BufferTypeOK, Shape
  <2> QED
      BY <2>2, <2>3, <2>5, <2>6 DEF BufferInv
<1> QED
    BY <1>1, <1>2, <1>3

(* A chunk becomes leaves, or a loss of its size, or both when the commit  *)
(* was not seen.                                                           *)
LEMMA BatchKeeps ==
    ASSUME BufferInv, NEW outcome \in Outcomes, FlushBatch(outcome)
    PROVE  BufferInv'
<1>t. /\ recorded \in Nat /\ pendingLost \in Nat /\ dropped \in Nat /\ lost \in Nat
      /\ marked \in Nat /\ unseen \in Nat /\ failures \in Nat
      /\ queue \in Seq(1 .. recorded) /\ batch \in Seq(1 .. recorded) /\ leaves \subseteq 1 .. recorded
      /\ alerting \in BOOLEAN /\ flusher \in {"idle", "gap", "batch"}
      /\ Threshold \in Nat /\ BatchSize \in Nat \ {0}
    BY BufferAssumption DEF BufferInv, BufferTypeOK
<1> DEFINE k == IF Len(batch) < BatchSize THEN Len(batch) ELSE BatchSize
           chunk == SubSeq(batch, 1, k)
           rest == SubSeq(batch, k + 1, Len(batch))
<1>1. k \in 0 .. Len(batch)
    BY <1>t
<1>2. /\ chunk \in Seq(1 .. recorded) /\ rest \in Seq(1 .. recorded) /\ Len(chunk) = k
      /\ IsInjective(chunk) /\ IsInjective(rest)
      /\ Range(batch) = Range(chunk) \cup Range(rest) /\ Range(chunk) \cap Range(rest) = {}
    BY <1>t, <1>1, CutInTwo DEF BufferInv, Apart
<1>3. /\ flusher = "batch" /\ lost = 0 /\ batch' = rest
      /\ leaves' = IF outcome = "failed" THEN leaves ELSE leaves \cup Range(chunk)
      /\ IF outcome = "ok" THEN UNCHANGED <<pendingLost, dropped, alerting>> ELSE Drop(k)
      /\ UNCHANGED <<recorded, queue, flusher, lost, marked>>
      /\ failures' = IF outcome = "ok" THEN failures ELSE failures + 1
      /\ unseen' = IF outcome = "lost" THEN unseen + 1 ELSE unseen
      /\ outcome \in {"ok", "lost", "failed"}
    BY <1>2 DEF FlushBatch, Written, Outcomes, Chunk, BufferInv, Shape
<1>4. k \in Nat /\ IsFiniteSet(Range(chunk)) /\ Cardinality(Range(chunk)) = k
  <2>1. k \in Nat
      BY <1>1, <1>t
  <2> HIDE DEF k, chunk
  <2> QED
      BY <1>2, <2>1, InjectiveCount
<1>5. Range(chunk) \subseteq 1 .. recorded
    BY <1>2 DEF Range
<1> HIDE DEF k, chunk, rest
<1>6. IsFiniteSet(Missing) /\ Cardinality(Missing) \in Nat
    BY MissingFinite DEF BufferInv
<1>7. Apart'
    BY <1>2, <1>3 DEF BufferInv, Apart
<1>8. Shape'
    BY <1>3 DEF Shape
<1>9. outcome # "ok" => /\ dropped' = dropped + k /\ pendingLost' = pendingLost + k
                        /\ alerting' = (alerting \/ dropped' >= Threshold)
    BY <1>3 DEF Drop
<1>10. alerting' \in BOOLEAN
  <2>1. alerting' = alerting \/ alerting' = (alerting \/ dropped' >= Threshold)
      BY <1>3, <1>9
  <2> QED
      BY <1>t, <2>1, Zenon
<1>11. BufferTypeOK'
  <2>1. /\ recorded' \in Nat /\ lost' \in Nat /\ marked' \in Nat /\ unseen' \in Nat /\ failures' \in Nat
        /\ flusher' \in {"idle", "gap", "batch"}
      BY <1>t, <1>3
  <2>2. pendingLost' \in Nat /\ dropped' \in Nat
      BY <1>t, <1>3, <1>4, <1>9
  <2>3. leaves' \subseteq 1 .. recorded' /\ queue' \in Seq(1 .. recorded') /\ batch' \in Seq(1 .. recorded')
      BY <1>t, <1>2, <1>3, <1>5
  <2> QED
      BY <1>10, <2>1, <2>2, <2>3 DEF BufferTypeOK
<1>12. RefusesUntilMarked'
    BY <1>t, <1>3, <1>4, <1>9 DEF BufferInv, RefusesUntilMarked
<1>13. NoSilentLoss'
  <2>1. CASE outcome # "failed"
    <3>1. Missing' = Missing
        BY <1>2, <1>3, <2>1 DEF Missing, Waiting
    <3> QED
        BY <1>t, <1>3, <1>4, <1>6, <1>9, <2>1, <3>1 DEF BufferInv, NoSilentLoss, Accounted
  <2>2. CASE outcome = "failed"
    <3>1. Missing' = Missing \cup Range(chunk) /\ Missing \cap Range(chunk) = {}
        BY <1>2, <1>3, <1>5, <2>2 DEF Missing, Waiting, BufferInv, Apart
    <3>2. Cardinality(Missing') = Cardinality(Missing) + k
        BY <1>4, <1>6, <3>1, FS_Union, FS_EmptySet
    <3> QED
        BY <1>t, <1>3, <1>4, <1>6, <1>9, <2>2, <3>2 DEF BufferInv, NoSilentLoss, Accounted
  <2> QED
      BY <2>1, <2>2
<1> QED
    BY <1>7, <1>8, <1>11, <1>12, <1>13 DEF BufferInv

(* Every step of Record and of the flusher keeps the invariant.            *)
LEMMA BufferStepKeeps == BufferInv /\ [NextBuffer]_bufferVars => BufferInv'
<1> SUFFICES ASSUME BufferInv, [NextBuffer]_bufferVars PROVE BufferInv'
    OBVIOUS
<1>1. CASE UNCHANGED bufferVars
  <2>1. Missing' = Missing /\ Apart' /\ BufferTypeOK' /\ Shape' /\ RefusesUntilMarked'
      BY <1>1 DEF bufferVars, buffer, chain, BufferInv, Missing, Waiting, Apart, BufferTypeOK, Shape, RefusesUntilMarked
  <2>2. NoSilentLoss'
      BY <1>1, <2>1 DEF bufferVars, buffer, chain, BufferInv, NoSilentLoss, Accounted
  <2> QED
      BY <2>1, <2>2 DEF BufferInv
<1> QED
    BY <1>1, RecordKeeps, TakeGapEndKeep, BatchKeeps DEF NextBuffer, Flush

-----------------------------------------------------------------------------
(* The buffer's counters are numbers and its events were recorded.         *)
THEOREM BufferTypeCorrect == SpecBuffer => []BufferTypeOK
<1>1. BufferInv => BufferTypeOK
    BY DEF BufferInv
<1> QED
    BY <1>1, BufferStarts, BufferStepKeeps, PTL DEF SpecBuffer

(* Every event is waiting, a leaf, or counted as lost: the chain never     *)
(* under-reports, and is exact while every commit is seen (Flush).         *)
THEOREM BufferNoSilentLoss == SpecBuffer => []NoSilentLoss
<1>1. BufferInv => NoSilentLoss
    BY DEF BufferInv
<1> QED
    BY <1>1, BufferStarts, BufferStepKeeps, PTL DEF SpecBuffer

(* Past the threshold the surface refuses as long as a loss is unmarked    *)
(* (FailClosed).                                                           *)
THEOREM BufferRefusesUntilMarked == SpecBuffer => []RefusesUntilMarked
<1>1. BufferInv => RefusesUntilMarked
    BY DEF BufferInv
<1> QED
    BY <1>1, BufferStarts, BufferStepKeeps, PTL DEF SpecBuffer
=============================================================================
