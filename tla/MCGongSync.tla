---------------------------- MODULE MCGongSync ----------------------------
(* Values of GongSync's constants for TLC: customers 1 and 2; 3 is an account id
   of the CRM that is no key, 4 a name that equals key 2 but for case, 5 gmail.com,
   6 our own company. *)
EXTENDS GongSync

CONSTANTS a, b, c   \* three Google Docs

InLowerCase == [l \in Labels |-> IF l = 4 THEN 2 ELSE l]

\* The last call is customer 2's, as the CRM knows.  The others are customer 1's by
\* the domain of a participant; in the first of them customer 2 sits in.
OfSecond(n) == n > 1 /\ n = Max(Calls)
CrmOfSecond == [n \in Calls |-> IF OfSecond(n) THEN <<[id |-> 3, name |-> 4]>> ELSE <<>>]
Us == [external |-> FALSE, company |-> 6, domain |-> 6]
Guest(company, domain) == [external |-> TRUE, company |-> company, domain |-> domain]
Mixed ==
    [n \in Calls |-> CASE OfSecond(n) -> <<Us, Guest(0, 5)>>
                       [] n = 1       -> <<Us, Guest(0, 5), Guest(0, 1), Guest(2, 2)>>
                       [] OTHER       -> <<Us, Guest(0, 1)>>]

\* A weekly call: one title, other dates.
WeeklyTitle == [n \in Calls |-> <<"weekly">>]
OwnDate == [n \in Calls |-> n]

\* Of four calls the first is an hour older and the last an hour younger.
ThreeHours == [n \in Calls |-> CASE n = 1 -> 0 [] n = 4 -> 2 [] OTHER -> 1]
OneHour == [n \in Calls |-> 0]

\* Customer 2's call fits in no doc.
LastTooLarge == [n \in Calls |-> IF OfSecond(n) THEN Cap + 1 ELSE 3]

\* Blocks of different lengths, ASCII all of them: the first has a title of two
\* characters, the others of one; the date is one more.
FirstIsLarge == [n \in Calls |-> IF n = 1 THEN 3 ELSE 2]
TwoThenOne == [n \in Calls |-> IF n = 1 THEN <<1, 2>> ELSE <<1, 1>>]
BehindTitle == [n \in Calls |-> LET k == TwoThenOne[n][2] + 1 IN <<k, k>>]
FirstCharacter == [n \in Calls |-> 1]

OneDocEach == [k \in Customers |-> IF k = 1 THEN <<a>> ELSE <<c>>]

\* Customer 1's list may be extended or replaced, customer 2's is not edited.
Extension == [k \in Customers |-> IF k = 1 THEN {<<a>>, <<a, b>>} ELSE {<<c>>}]
Replacement == [k \in Customers |-> IF k = 1 THEN {<<a>>, <<b>>} ELSE {<<c>>}]
NoEdit == [k \in Customers |-> {OneDocEach[k]}]

TwoRows == <<1, 2>>
OneRow == <<1>>
=============================================================================
