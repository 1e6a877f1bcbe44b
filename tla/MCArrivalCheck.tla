--------------------------- MODULE MCArrivalCheck ---------------------------
(* Small instances of ArrivalCheck for TLC. *)
EXTENDS ArrivalCheck, TLC

CONSTANTS t1, t2

\* The unreadable task is due first, so that it always comes before the other.
OneAfterTheOther == t1 :> 1 @@ t2 :> 0
=============================================================================
