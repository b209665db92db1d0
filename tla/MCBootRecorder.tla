---------------------------- MODULE MCBootRecorder ----------------------------
(* Small boots: a few initcalls, a few statements, a ring of a few cells.  *)
EXTENDS BootRecorder

OneEarly    == << "early" >>
TwoLevels   == << <<"core">>, <<"ufs">> >>
OnePath     == << "init" >>
OneFinal    == << "free_initmem" >>

==============================================================================
