---------------------------- MODULE MCPolicyLock ----------------------------
(* Two updaters and one lookup; the boot rules, a batch with a type and a  *)
(* transition, and a malformed batch.                                      *)
EXTENDS PolicyLock

CONSTANTS u1, u2, l1, init, su, app

TwoUpdaters  == {u1, u2}
OneLookup    == {l1}
ThreeTypes   == {init, su, app}
LoadedTypes  == <<init>>
Rules        == [kind |-> "rules", cmds |-> << AddType(su), Allow(su, init) >>]
Batch        == [kind |-> "batch", cmds |-> << AddType(app), Trans(app) >>]
BadBatch     == [kind |-> "batch", cmds |-> << Trans(init), Malformed >>]
ThreeJobs    == {Rules, Batch, BadBatch}
SuAsksInit   == {<<su, init>>}

==============================================================================
