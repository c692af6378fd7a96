--------------------------- MODULE MCLedgerDBLossy ---------------------------
(* LedgerDB with calls of all amounts that overlap, or with commits that are *)
(* reported as failed: together they are too many for TLC (the proofs have   *)
(* both).                                                                    *)
EXTENDS MCLedgerDB

VARIABLE lossy

Underway == {c \in Clients : call[c].pc # "idle"}

LossyInit == Init /\ lossy \in BOOLEAN

LossyNext ==
    /\ Next /\ UNCHANGED lossy
    /\ IF lossy THEN \A c, d \in Underway' : c = d /\ call'[c].request.amount = 1
       ELSE applied' = applied \/ Underway' = Underway

LossySpec == LossyInit /\ [][LossyNext]_<<vars, lossy>>

=============================================================================
