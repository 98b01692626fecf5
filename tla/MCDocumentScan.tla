--------------------------- MODULE MCDocumentScan ---------------------------
(* One required file field, whose document is uploaded, confirmed, scanned and submitted. *)
EXTENDS DocumentScan

CONSTANT photo

MCFieldOf == [d \in Documents |-> photo]
=============================================================================
