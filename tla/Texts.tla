-------------------------------- MODULE Texts --------------------------------
(***************************************************************************)
(* The text of a Google Doc, character by character, as append_to_doc      *)
(* inserts into it and the dedup tests search it.  Character k of block b  *)
(* is <<b, k>>; an index is a number of characters, as in the Docs API.    *)
(*                                                                         *)
(* A block begins with "[" and ends in a blank line, and a header has      *)
(* neither inside it.  Where an insertion cuts a block, a "[" comes after  *)
(* the cut and a line end before what is left, so that the pieces never    *)
(* join up to a header: one is in the text only where the characters of    *)
(* one block stand next to each other.                                     *)
(***************************************************************************)
EXTENDS Integers, Sequences

\* The first n characters of block b.
Block(b, n) == [k \in 1..n |-> <<b, k>>]

\* insertText of a block at index `end`, wherever in another block that now is.
Spliced(text, end, block) ==
    SubSeq(text, 1, end) \o block \o SubSeq(text, end + 1, Len(text))

\* Characters first to last of block b, next to each other from position s on.
StandsAt(text, s, b, first, last) ==
    \A k \in first..last :
        /\ s + (k - first) \in DOMAIN text
        /\ text[s + (k - first)] = <<b, k>>

\* They are somewhere in the text: `in` of Python.
Shows(text, b, first, last) ==
    \E s \in DOMAIN text : StandsAt(text, s, b, first, last)

\* The n characters of block b are in the text in their order, though the text of
\* other blocks may have come between them.
Holds(text, b, n) ==
    \E at \in [1..n -> {s \in DOMAIN text : text[s][1] = b}] :
        /\ \A k \in 1..n : text[at[k]] = <<b, k>>
        /\ \A j, k \in 1..n : j < k => at[j] < at[k]
=============================================================================
