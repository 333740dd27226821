---------------------------- MODULE GroupsClaim -----------------------------
(***************************************************************************)
(* The value of the groups claim and how internal/callback/groupsparser.go *)
(* reads it.                                                               *)
(*                                                                         *)
(* A claim is a JSON array, a string, or something else.  Of the text of a *)
(* string only what the parser tells apart is kept: whether brackets       *)
(* enclose it, and its comma-separated elements.  An element is a name     *)
(* ("" if there is nothing but white space), bare, in quotes, or a JSON    *)
(* literal that is no string, with or without white space around it.       *)
(***************************************************************************)
EXTENDS Naturals, Sequences

CONSTANT Names      \* of groups, and ""

Element == [name : Names, kind : {"bare", "quoted", "literal"}, padded : BOOLEAN]

Claim == [type : {"array"}, elements : Seq(Element)]
         \cup [type : {"string"}, bracketed : BOOLEAN, elements : Seq(Element)]
         \cup [type : {"absent", "other"}]

\* Mutant: white space around a name stays.
KeepSpace(e) == IF e.padded THEN "" ELSE e.name

\* strings.TrimSpace.
TrimSpace(e) == e.name

\* The names of the elements of the given kinds, without empty ones.
Trimmed(elements, kinds) ==
    {TrimSpace(elements[i]) :
        i \in {j \in DOMAIN elements : elements[j].kind \in kinds}} \ {""}

\* groupsFromArray takes strings only.
GroupsFromArray(elements) == Trimmed(elements, {"quoted"})

\* groupsFromCSV takes what stands between the commas; with its quotes a quoted
\* name is the name of no group.
GroupsFromCSV(elements) == Trimmed(elements, {"bare", "literal"})

\* A bracketed string of quoted names and literals is a JSON array.  Another
\* one is taken apart at its commas (groupsFromBracketedCSV), if it has any.
GroupsFromBracketed(elements) ==
    IF \A i \in DOMAIN elements : elements[i].kind # "bare"
    THEN GroupsFromArray(elements)
    ELSE IF Len(elements) > 1 THEN GroupsFromCSV(elements) ELSE {}

\* parseGroupsClaim.  A string without a comma has one element.
ParseGroupsClaim(v) ==
    CASE v.type = "array" -> GroupsFromArray(v.elements)
      [] v.type = "string" /\ v.bracketed -> GroupsFromBracketed(v.elements)
      [] v.type = "string" /\ ~v.bracketed -> GroupsFromCSV(v.elements)
      [] v.type \in {"absent", "other"} -> {}
=============================================================================
