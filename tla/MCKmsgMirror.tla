----------------------------- MODULE MCKmsgMirror -----------------------------
(* One or two printing threads, a cap of one or two messages.              *)
EXTENDS KmsgMirror

CONSTANTS t1, t2

OneThread  == {t1}
TwoThreads == {t1, t2}

==============================================================================
