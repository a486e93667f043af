----------------------------- MODULE AppendLog ------------------------------
(***************************************************************************)
(* What the audit writer promises a caller of Append: an entry lands at    *)
(* most once, an entry that was acknowledged has landed, and an error      *)
(* says nothing. AuditWriter.tla implements this and AuditBuffer.tla is    *)
(* written against it.                                                     *)
(***************************************************************************)
EXTENDS Naturals

CONSTANT Entries

VARIABLES landed,   \* the entries in the log, with their sequence numbers
          status    \* what each entry's caller knows

Init == landed = {} /\ status = [e \in Entries |-> "new"]

Call(e) == /\ status[e] = "new"
           /\ status' = [status EXCEPT ![e] = "running"]
           /\ UNCHANGED landed

(* The row commits behind all others, and none goes away; the caller may   *)
(* or may not learn of it.                                                 *)
Land(e) == /\ status[e] = "running"
           /\ \A row \in landed : row.entry # e
           /\ \E new \in landed' : /\ new.entry = e /\ landed' = landed \cup {new}
                                  /\ \A row \in landed : row.seq < new.seq
           /\ status' \in {status, [status EXCEPT ![e] = "ok"], [status EXCEPT ![e] = "error"]}

Fail(e) == /\ status[e] = "running"
           /\ status' = [status EXCEPT ![e] = "error"]
           /\ UNCHANGED landed

Next == \E e \in Entries : Call(e) \/ Land(e) \/ Fail(e)

Spec == Init /\ [][Next]_<<landed, status>>
=============================================================================
