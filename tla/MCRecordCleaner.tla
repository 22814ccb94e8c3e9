-------------------------- MODULE MCRecordCleaner ---------------------------
(* RecordCleaner for TLC: two record files of different days, the older one *)
(* with two FileIDs, and the file of the proxy.                             *)
EXTENDS RecordCleaner, TLC

CONSTANTS f1, f2, log, a, b, c, d

MCRecords == {f1, f2}
MCDate == f1 :> 0 @@ f2 :> 1
MCContent == f1 :> <<a, b>> @@ f2 :> <<c>> @@ log :> <<d>>
=============================================================================
