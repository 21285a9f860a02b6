---------------------------- MODULE MCSlackSync ----------------------------
(* Values of SlackSync's constants for TLC. *)
EXTENDS SlackSync

CONSTANTS a, b, c   \* three Google Docs

\* Every header is its own message's.
OwnHeader == [m \in Messages |-> m]

\* The author of message 1 posted message 3 within the same minute.
SharedHeader == [m \in Messages |-> IF m = 3 THEN 1 ELSE m]

\* Characters of a header, and of blocks of different sizes, so that a later one can
\* fit where one did not and an index can fall inside a block.  In the runs all are
\* ASCII, one byte each.
TwoForHeader == [m \in Messages |-> 2]
TightSize == <<2, 6, 3, 4, 2>>
FirstIsLarge == [m \in Messages |-> IF m = 1 THEN 3 ELSE 2]
UnitSize == [m \in Messages |-> 2]

\* The instances differ only in the state they hold.
InstanceSymmetry == Permutations(Instances)

\* The last messages are of channel 2, where there is one.
LastTwoInSecond == <<1, 1, 1, 2, 2>>
LastInSecond == [m \in Messages |-> IF m = Max(Messages) THEN Max(Channels) ELSE 1]

\* The last message fits in no doc.
LastTooLarge == [m \in Messages |-> IF m = Max(Messages) THEN Cap + 1 ELSE 2]

\* The list of channel 1 is edited, that of channel 2 is not.
OneDoc == [ch \in Channels |-> IF ch = 1 THEN <<a>> ELSE <<c>>]
Edits(lists) == [ch \in Channels |-> IF ch = 1 THEN lists ELSE {<<c>>}]
OnlyA == Edits({<<a>>})
Extension == Edits({<<a>>, <<a, b>>})
AnyList == Edits({<<a>>, <<a, b>>, <<b>>})
AnyEdit == Edits({<<a>>, <<a, b>>, <<b>>, <<>>})
=============================================================================
