----------------------------- MODULE MCDataLog -----------------------------
(* One stream: four samples, files of a record, messages of two, a save every    *)
(* second message. A rotation with the cursor in either file, two of them at the *)
(* same time, and one cut, shutdown or loss of the connection at every point of  *)
(* a flush, a message and a save.                                                *)
EXTENDS DataLog

MCMaxRecords == [s \in {"temp"} |-> 4]

MCStreams == <<"temp">>

=============================================================================
