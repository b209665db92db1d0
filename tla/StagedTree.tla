----------------------------- MODULE StagedTree -----------------------------
(***************************************************************************)
(* The kernel tree a porting script edits, and the edits it is made of.    *)
(* A tree is a function from the paths that exist to their texts; a text   *)
(* is a sequence of parts <<who wrote it, what it is>>, coarse enough that *)
(* only what the scripts look for is told apart: a marker, an anchor, a    *)
(* block, a definition, a feature a driver uses.  An empty sequence is an  *)
(* empty file, which is what a script killed between the truncation and    *)
(* the write of Path.write_text leaves behind.                             *)
(***************************************************************************)
EXTENDS Integers, Sequences, FiniteSets, SequencesExt

Whitespace == <<"tg", "trailing whitespace">>

Has(text, part) == \E i \in DOMAIN text : text[i] = part

(* `marker in text` searches for a substring: the object name              *)
(* gcc-lagoon.o also occurs in debugcc-lagoon.o.                           *)
Mentions(text, marker) ==
    \E i \in DOMAIN text :
        \/ text[i][2] = marker
        \/ marker = "gcc-lagoon.o" /\ text[i][2] = "debugcc-lagoon.o"

Stripped(text) == SelectSeq(text, LAMBDA part : part # Whitespace)

Put(tree, path, text) ==
    [p \in DOMAIN tree \cup {path} |-> IF p = path THEN text ELSE tree[p]]

Count(text, what) == Cardinality({i \in DOMAIN text : text[i][2] = what})

(***************************************************************************)
(* The edits of a file that the GKI tree owns.  Each one is skipped when   *)
(* its marker is there already; the ones with an anchor are refused when   *)
(* the anchor is not.                                                      *)
(***************************************************************************)
(* Mutant: append without looking for the marker.                          *)
AppendAlways(marker, part) ==
    [how |-> "append", marker |-> "", anchor |-> "", part |-> part]

AppendOnce(marker, part) ==
    [how |-> "append", marker |-> marker, anchor |-> "", part |-> part]

InsertBeforeLast(token, marker, part) ==
    [how |-> "before last", marker |-> marker, anchor |-> token, part |-> part]

Insert(how, anchor, part) ==
    [how |-> how, marker |-> part[2], anchor |-> anchor, part |-> part]

ReplaceOnce(anchor, part) ==
    [how |-> "replace", marker |-> part[2], anchor |-> anchor, part |-> part]

(* Mutant: an edit that does not look whether it has been made.            *)
SkipsNever(text, e) == FALSE

Skips(text, e) == Mentions(text, e.marker)

EditRefused(text, e) ==
    /\ ~Skips(text, e)
    /\ \/ e.how \in {"before", "after"} /\ Count(text, e.anchor) = 0
       \/ e.how = "replace" /\ Count(text, e.anchor) # 1

Place(text, anchor) ==
    CHOOSE i \in DOMAIN text :
        /\ text[i][2] = anchor
        /\ \A j \in DOMAIN text : j > i => text[j][2] # anchor

Edited(text, e) ==
    IF Skips(text, e) THEN text
    ELSE IF Count(text, e.anchor) = 0 THEN Append(text, e.part)
    ELSE LET i == Place(text, e.anchor)
         IN CASE e.how = "after" -> InsertAt(text, i + 1, e.part)
              [] e.how = "replace" -> [text EXCEPT ![i] = e.part]
              [] OTHER -> InsertAt(text, i, e.part)

(***************************************************************************)
(* The adaptation of a downstream driver, in the file it was copied to:    *)
(* drop the features the target kernel lacks, rename those it calls        *)
(* otherwise, add what replaces them.  It is refused when the source does  *)
(* not have the shape it expects, or still holds a feature it forbids.     *)
(***************************************************************************)
AdaptRefused(text, a) ==
    \/ \E what \in DOMAIN a.needs :
           \/ Count(text, what) < a.needs[what][1]
           \/ Count(text, what) > a.needs[what][2]
    \/ \E what \in a.forbids : Count(text, what) > 0

Adapted(text, a) ==
    LET kept == SelectSeq(text, LAMBDA part : part[2] \notin a.drops)
        new(part) == IF part[2] \in DOMAIN a.renames THEN a.renames[part[2]] ELSE part
        added == SelectSeq(a.adds, LAMBDA part : Count(text, part[2]) = 0)
    IN [i \in DOMAIN kept |-> new(kept[i])] \o added

(***************************************************************************)
(* Includes a text names, by kind: "local" and "outside" for the quoted    *)
(* includes of a device tree source, "angle" for its bindings, "system"    *)
(* for the headers of a driver.  A name is the path it resolves to.        *)
(***************************************************************************)
Named(text, kind) ==
    {text[i][2] : i \in {j \in DOMAIN text : text[j][1] = kind}}

(* define_blocks: the names a binding header defines.                      *)
Defines(text) ==
    {text[i][2] : i \in {j \in DOMAIN text :
                            text[j][1] \in {"gki define", "tg define"}}}

(* INCLUDE_GUARD: names tested with #ifndef, taken for include guards.     *)
Guards(text) == {text[i][2] : i \in {j \in DOMAIN text : text[j][1] = "ifndef"}}

(* The definitions merge_binding_header appends to a GKI header.           *)
Additions(gkiText, tgText) ==
    SelectSeq(tgText, LAMBDA part :
        /\ part[1] = "tg define"
        /\ part[2] \notin Defines(gkiText)
        /\ part[2] \notin Guards(gkiText) \cup Guards(tgText))

(* merge_binding_header: they go before the #endif of the include guard.   *)
MergeRefused(gkiText, tgText) ==
    /\ gkiText # tgText
    /\ Additions(gkiText, tgText) # <<>>
    /\ Count(gkiText, "endif") = 0

Merged(gkiText, tgText) ==
    LET more == Additions(gkiText, tgText)
        i == Place(gkiText, "endif")
    IN IF gkiText = tgText \/ more = <<>> THEN gkiText
       ELSE SubSeq(gkiText, 1, i - 1) \o more \o SubSeq(gkiText, i, Len(gkiText))
=============================================================================
