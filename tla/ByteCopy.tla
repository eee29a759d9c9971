------------------------------ MODULE ByteCopy ------------------------------
(***************************************************************************)
(* What a pipe promises to the code that starts it, stated without         *)
(* buffers, queues or flags: bytes are taken from a source and delivered   *)
(* to a sink in order, and the owner is told exactly once how the copy     *)
(* ended.  `done` means everything taken was delivered, `failed` means     *)
(* the sink refused a write.                                               *)
(***************************************************************************)
EXTENDS Naturals

VARIABLES taken,      \* bytes accepted for delivery so far
          delivered,  \* bytes the sink has acknowledged
          status      \* what the owner was told

vars == <<taken, delivered, status>>

Init == /\ taken \in Nat
        /\ delivered = 0
        /\ status = "open"

(* More bytes come in; bytes that arrive after a failure are dropped. *)
Take == /\ status \in {"open", "failed"}
        /\ taken' \in Nat
        /\ taken' > taken
        /\ UNCHANGED <<delivered, status>>

(* The sink acknowledges bytes; the last of them may end the copy. *)
Deliver == /\ status = "open"
           /\ delivered' \in (delivered + 1) .. taken
           /\ status' \in {"open", "done"}
           /\ status' = "done" => delivered' = taken
           /\ UNCHANGED taken

(* The source ends when nothing is left to deliver. *)
End == /\ status = "open"
       /\ delivered = taken
       /\ status' = "done"
       /\ UNCHANGED <<taken, delivered>>

Fail == /\ status = "open"
        /\ status' = "failed"
        /\ UNCHANGED <<taken, delivered>>

Next == Take \/ Deliver \/ End \/ Fail

Spec == Init /\ [][Next]_vars
=============================================================================
