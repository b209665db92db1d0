--------------------------- MODULE MCCrashDiagnosis ---------------------------
(* One or two initcalls, a ring of a few cells, one reader.  Of the range  *)
(* the recovery's drivers reuse the first cells after the header;          *)
(* what they leave there is no line of a breadcrumb, as Stale is not.      *)
EXTENDS CrashDiagnosis

CONSTANT f1

OneEarly    == << "early" >>
OneLevel    == << <<"ufs">> >>
NoInitcalls == << >>
OnePath     == << "init" >>
NoFinal     == << >>
OneFinal    == << "free_initmem" >>
OneFile     == {f1}

==============================================================================
