---------------------------- MODULE PortOutcome ----------------------------
(***************************************************************************)
(* What the scripts promise: the tree that one uninterrupted pass makes,   *)
(* defined without queues, marks or order of visits.  An include graph is  *)
(* the set of files reachable through it; every other step is the function *)
(* of the tree it computes.                                                *)
(***************************************************************************)
EXTENDS PortWorkflows

(* Paths reachable from start through includes of the kind, not looking    *)
(* into files of the stop set.                                             *)
Reach(source, start, kind, stop) ==
    LET looked(paths) == (paths \cap DOMAIN source) \ stop
        reached[n \in 0..Cardinality(DOMAIN source)] ==
            IF n = 0 THEN start
            ELSE LET last == reached[n - 1]
                 IN last \cup UNION {Named(source[p], kind) : p \in looked(last)}
    IN reached[Cardinality(DOMAIN source)]

DeviceTree(source) == Reach(source, {Root}, "local", {}) \cap DOMAIN source

Bindings(source) ==
    UNION {Named(source[p], "angle") : p \in DeviceTree(source)} \cap DOMAIN source

(* The headers the downstream driver names once it is copied and adapted,  *)
(* and those that these need.                                              *)
NamedByDriver(source) ==
    LET down == {Downstream66[i] : i \in DOMAIN Downstream66} \cap DOMAIN source
        copied(p) == IF p = Downstream66[1]
                     THEN Adapted(Stripped(source[p]), AdaptDownstream)
                     ELSE Stripped(source[p])
    IN UNION {Named(copied(p), "system") : p \in down}

MissingHeaders(gki, source) ==
    (Reach(source, NamedByDriver(source), "system", DOMAIN gki) \cap DOMAIN source)
        \ DOMAIN gki

(* What a step that is not refused makes of the text of one file.          *)
Absent == <<<<"none", "absent">>>>

Effect(gki, source, path, text, step) ==
    CASE step.op = "copy" /\ step.to = path ->
            IF step.strip THEN Stripped(source[step.file]) ELSE source[step.file]
      [] step.op = "adapt" /\ step.file = path -> Adapted(text, step.how)
      [] step.op = "write" /\ step.file = path -> step.text
      [] step.op = "edit" /\ step.file = path -> FoldLeft(Edited, text, step.edits)
      [] step.op = "local_include" /\ path \in DeviceTree(source) \ {Root} -> source[path]
      [] step.op = "local_include" /\ path = RootCopy -> source[Root]
      [] step.op = "binding" /\ path \in Bindings(source) ->
            IF text = Absent THEN source[path] ELSE Merged(text, source[path])
      [] step.op = "header" /\ path \in MissingHeaders(gki, source) ->
            Stripped(source[path])
      [] step.op = "normalize" /\ text # Absent ->
            IF path \in DOMAIN gki /\ text = gki[path] THEN text ELSE Stripped(text)
      [] OTHER -> text

Outcome(gki, source, w, path) ==
    FoldLeft(LAMBDA text, step : Effect(gki, source, path, text, step),
             IF path \in DOMAIN gki THEN gki[path] ELSE Absent, Staging[w])
=============================================================================
