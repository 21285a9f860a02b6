------------------------------ MODULE DataLemmas ------------------------------
(***************************************************************************)
(* Facts about the operators the components share: Spliced and Holds of    *)
(* Texts, and Min and Max of the community modules.                        *)
(***************************************************************************)
EXTENDS Integers, Sequences, SequencesExt, Texts, SequenceTheorems, WellFoundedInduction, TLAPS

-----------------------------------------------------------------------------
(* Texts *)

\* Where character j of a text is once n characters were inserted at index `end`.
Moved(j, end, n) == IF j <= end THEN j ELSE j + n

\* The characters of a block.
LEMMA BlockType ==
    ASSUME NEW S, NEW b \in S, NEW n \in Nat
    PROVE  Block(b, n) \in Seq(S \X Nat)
<1>1. \A k \in 1..n : <<b, k>> \in S \X Nat
  OBVIOUS
<1> DEFINE C == S \X Nat
<1>2. \A k \in 1..n : <<b, k>> \in C
  BY <1>1
<1> HIDE DEF C
<1>3. Block(b, n) \in [1..n -> C]
  BY <1>2 DEF Block
<1>4. Block(b, n) \in Seq(C)
  BY <1>3
<1> QED
  BY <1>4 DEF C

\* insertText keeps the characters of a text and puts the block's between them.
LEMMA SplicedParts ==
    ASSUME NEW C, NEW text \in Seq(C), NEW end \in 0..Len(text), NEW block \in Seq(C),
           NEW n \in Nat, Len(block) = n
    PROVE  /\ Spliced(text, end, block) \in Seq(C)
           /\ Len(Spliced(text, end, block)) = Len(text) + n
           /\ \A j \in 1..end : Spliced(text, end, block)[j] = text[j]
           /\ \A s \in (end + 1)..(end + n) :
                 Spliced(text, end, block)[s] = block[s - end]
           /\ \A s \in (end + n + 1)..(Len(text) + n) :
                 Spliced(text, end, block)[s] = text[s - n]
<1> DEFINE t == Spliced(text, end, block)
           before == SubSeq(text, 1, end)
           after  == SubSeq(text, end + 1, Len(text))
           head   == before \o block
<1>1. /\ before \in Seq(C) /\ after \in Seq(C)
      /\ Len(before) = end /\ Len(after) = Len(text) - end
      /\ \A j \in 1..end : before[j] = text[j]
      /\ \A j \in 1..(Len(text) - end) : after[j] = text[end + j]
  OBVIOUS
<1>2. t = head \o after
  BY Zenon DEF Spliced
<1>3. head = before \o block
  OBVIOUS
<1> HIDE DEF before, after, t, head
<1>4. end \in Nat /\ Len(text) \in Nat /\ end <= Len(text) /\ Len(block) = n
  OBVIOUS
<1>5. /\ head \in Seq(C) /\ Len(head) = end + n
      /\ \A j \in 1..end : head[j] = text[j]
      /\ \A k \in 1..n : head[end + k] = block[k]
  <2>1. head \in Seq(C) /\ Len(head) = Len(before) + n
    BY <1>1, <1>3, ConcatProperties, Zenon
  <2>2. \A j \in 1..Len(before) : head[j] = before[j]
    BY <1>1, <1>3
  <2>3. \A k \in 1..n : head[Len(before) + k] = block[k]
    BY <1>1, <1>3
  <2> QED
    BY <1>1, <2>1, <2>2, <2>3
<1>6. t \in Seq(C)
  BY <1>1, <1>2, <1>5
<1>7. Len(t) = Len(head) + Len(after)
  BY <1>1, <1>2, <1>5, ConcatProperties, Zenon
<1>8. \A j \in 1..Len(head) : t[j] = head[j]
  BY <1>1, <1>2, <1>5
<1>9. \A j \in 1..Len(after) : t[Len(head) + j] = after[j]
  BY <1>1, <1>2, <1>5
<1>10. Len(t) = Len(text) + n
  BY <1>1, <1>4, <1>5, <1>7
<1>11. \A j \in 1..end : t[j] = text[j]
  BY <1>4, <1>5, <1>8
<1>12. ASSUME NEW s \in (end + 1)..(end + n)
       PROVE  t[s] = block[s - end]
  <2>1. s - end \in 1..n /\ end + (s - end) = s /\ s \in 1..Len(head)
    BY <1>4, <1>5
  <2>2. head[end + (s - end)] = block[s - end]
    BY <2>1, <1>5
  <2> QED
    BY <2>1, <2>2, <1>8
<1>13. ASSUME NEW s \in (end + n + 1)..(Len(text) + n)
       PROVE  t[s] = text[s - n]
  <2> DEFINE x == s - Len(head)
  <2>1. x \in 1..Len(after) /\ x \in 1..(Len(text) - end)
    BY <1>1, <1>4, <1>5
  <2>2. t[Len(head) + x] = text[end + x]
    BY <2>1, <1>1, <1>9
  <2>3. Len(head) + x = s /\ end + x = s - n
    BY <1>4, <1>5
  <2> QED
    BY <2>2, <2>3
<1> QED
  BY <1>6, <1>10, <1>11, <1>12, <1>13 DEF t

\* The same, by where each character of text and block comes to stand.
LEMMA SplicedPositions ==
    ASSUME NEW C, NEW text \in Seq(C), NEW end \in 0..Len(text),
           NEW b, NEW n \in Nat, Block(b, n) \in Seq(C)
    PROVE  /\ Spliced(text, end, Block(b, n)) \in Seq(C)
           /\ Len(Spliced(text, end, Block(b, n))) = Len(text) + n
           /\ \A j \in DOMAIN text :
                 /\ Moved(j, end, n) \in DOMAIN Spliced(text, end, Block(b, n))
                 /\ Spliced(text, end, Block(b, n))[Moved(j, end, n)] = text[j]
           /\ \A k \in 1..n :
                 /\ end + k \in DOMAIN Spliced(text, end, Block(b, n))
                 /\ Spliced(text, end, Block(b, n))[end + k] = <<b, k>>
<1> DEFINE block == Block(b, n)
           t == Spliced(text, end, block)
<1>1. block \in Seq(C) /\ Len(block) = n /\ \A k \in 1..n : block[k] = <<b, k>>
  BY DEF Block
<1> HIDE DEF block
<1>2. /\ t \in Seq(C)
      /\ Len(t) = Len(text) + n
      /\ \A j \in 1..end : t[j] = text[j]
      /\ \A s \in (end + 1)..(end + n) : t[s] = block[s - end]
      /\ \A s \in (end + n + 1)..(Len(text) + n) :
            t[s] = text[s - n]
  <2>1. t \in Seq(C) /\ Len(t) = Len(text) + n
    BY <1>1, SplicedParts
  <2>2. \A j \in 1..end : t[j] = text[j]
    BY <1>1, SplicedParts
  <2>3. \A s \in (end + 1)..(end + n) : t[s] = block[s - end]
    BY <1>1, SplicedParts
  <2>4. \A s \in (end + n + 1)..(Len(text) + n) :
            t[s] = text[s - n]
    BY <1>1, SplicedParts
  <2> QED
    BY <2>1, <2>2, <2>3, <2>4
<1> HIDE DEF t
<1>3. end \in Nat /\ Len(text) \in Nat /\ end <= Len(text) /\ DOMAIN text = 1..Len(text)
  OBVIOUS
<1>4. Len(t) = Len(text) + n /\ DOMAIN t = 1..(Len(text) + n)
  BY <1>1, <1>2
<1>5. ASSUME NEW k \in 1..n
      PROVE  end + k \in DOMAIN t /\ t[end + k] = <<b, k>>
  <2>1. end + k \in (end + 1)..(end + n) /\ (end + k) - end = k
    BY <1>1, <1>3
  <2>2. t[end + k] = block[(end + k) - end]
    BY <2>1, <1>2
  <2> QED
    BY <2>1, <2>2, <1>1, <1>3, <1>4
<1>6. ASSUME NEW j \in DOMAIN text
      PROVE  Moved(j, end, n) \in DOMAIN t /\ t[Moved(j, end, n)] = text[j]
  <2>1. CASE j <= end
    BY <2>1, <1>2, <1>3, <1>4 DEF Moved
  <2>2. CASE j > end
    <3>1. /\ j + n \in (end + n + 1)..(Len(text) + n)
          /\ (j + n) - n = j
      BY <2>2, <1>1, <1>3
    <3>2. t[j + n] = text[(j + n) - n]
      BY <3>1, <1>2
    <3> QED
      BY <2>2, <3>1, <3>2, <1>3, <1>4 DEF Moved
  <2> QED
    BY <2>1, <2>2, <1>3
<1> QED
  BY <1>2, <1>4, <1>5, <1>6 DEF t, block

\* Each character of the text that results is one of these.
LEMMA SplicedOrigins ==
    ASSUME NEW C, NEW text \in Seq(C), NEW end \in 0..Len(text),
           NEW b, NEW n \in Nat, Block(b, n) \in Seq(C),
           NEW s \in DOMAIN Spliced(text, end, Block(b, n))
    PROVE  \/ \E j \in DOMAIN text :
                 /\ s = Moved(j, end, n)
                 /\ Spliced(text, end, Block(b, n))[s] = text[j]
           \/ \E k \in 1..n :
                 /\ s = end + k
                 /\ Spliced(text, end, Block(b, n))[s] = <<b, k>>
<1> DEFINE t == Spliced(text, end, Block(b, n))
<1>1. /\ t \in Seq(C)
      /\ Len(t) = Len(text) + n
      /\ \A j \in DOMAIN text : Moved(j, end, n) \in DOMAIN t /\ t[Moved(j, end, n)] = text[j]
      /\ \A k \in 1..n : end + k \in DOMAIN t /\ t[end + k] = <<b, k>>
  <2>1. t \in Seq(C) /\ Len(t) = Len(text) + n
    BY SplicedPositions
  <2>2. \A j \in DOMAIN text : Moved(j, end, n) \in DOMAIN t /\ t[Moved(j, end, n)] = text[j]
    BY SplicedPositions
  <2>3. \A k \in 1..n : end + k \in DOMAIN t /\ t[end + k] = <<b, k>>
    BY SplicedPositions
  <2> QED
    BY <2>1, <2>2, <2>3
<1>2. s \in DOMAIN t
  OBVIOUS
<1> HIDE DEF t
<1>3. end \in Nat /\ Len(text) \in Nat /\ end <= Len(text) /\ DOMAIN text = 1..Len(text)
  OBVIOUS
<1>4. s \in 1..(Len(text) + n)
  BY <1>1, <1>2
<1>5. CASE s <= end
  <2>1. s \in DOMAIN text /\ s = Moved(s, end, n)
    BY <1>3, <1>4, <1>5 DEF Moved
  <2> QED
    BY <2>1, <1>1 DEF t
<1>6. CASE s > end /\ s <= end + n
  <2>1. s - end \in 1..n /\ s = end + (s - end)
    BY <1>3, <1>4, <1>6
  <2> QED
    BY <2>1, <1>1 DEF t
<1>7. CASE s > end + n
  <2>1. s - n \in DOMAIN text /\ s = Moved(s - n, end, n)
    BY <1>3, <1>4, <1>7 DEF Moved
  <2> QED
    BY <2>1, <1>1 DEF t
<1> QED
  BY <1>3, <1>4, <1>5, <1>6, <1>7

\* The block inserted is in the text.
LEMMA SplicedGains ==
    ASSUME NEW C, NEW text \in Seq(C), NEW end \in 0..Len(text),
           NEW b, NEW n \in Nat, Block(b, n) \in Seq(C)
    PROVE  Holds(Spliced(text, end, Block(b, n)), b, n)
<1> DEFINE t == Spliced(text, end, Block(b, n))
           at == [k \in 1..n |-> end + k]
<1>1. \A k \in 1..n : end + k \in DOMAIN t /\ t[end + k] = <<b, k>>
  BY SplicedPositions
<1> HIDE DEF t
<1>2. ASSUME NEW k \in 1..n
      PROVE  end + k \in {s \in DOMAIN t : t[s][1] = b}
  <2>1. end + k \in DOMAIN t /\ t[end + k] = <<b, k>>
    BY <1>1
  <2>2. t[end + k][1] = b
    BY <2>1
  <2> QED
    BY <2>1, <2>2
<1>3. at \in [1..n -> {s \in DOMAIN t : t[s][1] = b}]
  BY <1>2
<1>4. \A k \in 1..n : t[at[k]] = <<b, k>>
  BY <1>1
<1>5. \A j, k \in 1..n : j < k => at[j] < at[k]
  OBVIOUS
<1>6. Holds(t, b, n)
  BY <1>3, <1>4, <1>5, Zenon DEF Holds
<1> QED
  BY <1>6 DEF t

\* Those that were in it stay, wherever the insertion falls.
LEMMA SplicedKeeps ==
    ASSUME NEW C, NEW text \in Seq(C), NEW end \in 0..Len(text),
           NEW b, NEW n \in Nat, Block(b, n) \in Seq(C), NEW c, NEW m \in Nat, Holds(text, c, m)
    PROVE  Holds(Spliced(text, end, Block(b, n)), c, m)
<1> DEFINE t == Spliced(text, end, Block(b, n))
<1>1. \A j \in DOMAIN text : Moved(j, end, n) \in DOMAIN t /\ t[Moved(j, end, n)] = text[j]
  BY SplicedPositions
<1> HIDE DEF t
<1>2. PICK from \in [1..m -> {s \in DOMAIN text : text[s][1] = c}] :
          /\ \A k \in 1..m : text[from[k]] = <<c, k>>
          /\ \A j, k \in 1..m : j < k => from[j] < from[k]
  BY Zenon DEF Holds
<1>3. \A k \in 1..m : from[k] \in DOMAIN text /\ from[k] \in Int /\ text[from[k]] = <<c, k>>
  BY <1>2
<1> DEFINE at == [k \in 1..m |-> Moved(from[k], end, n)]
<1>4. \A k \in 1..m : at[k] \in DOMAIN t /\ t[at[k]] = <<c, k>>
  BY <1>1, <1>3
<1>5. at \in [1..m -> {s \in DOMAIN t : t[s][1] = c}]
  BY <1>4
<1>6. ASSUME NEW j \in 1..m, NEW k \in 1..m, j < k
      PROVE  at[j] < at[k]
  <2>1. from[j] < from[k] /\ from[j] \in Int /\ from[k] \in Int /\ end \in Int
    BY <1>2, <1>3, <1>6
  <2> QED
    BY <2>1 DEF Moved
<1> HIDE DEF at
<1>7. Holds(t, c, m)
  BY <1>4, <1>5, <1>6, Zenon DEF Holds
<1> QED
  BY <1>7 DEF t

\* No other block appears in it.
LEMMA SplicedAddsNoOther ==
    ASSUME NEW C, NEW text \in Seq(C), NEW end \in 0..Len(text),
           NEW b, NEW n \in Nat, Block(b, n) \in Seq(C), NEW c, c # b, NEW m \in Nat,
           Holds(Spliced(text, end, Block(b, n)), c, m)
    PROVE  Holds(text, c, m)
<1> DEFINE t == Spliced(text, end, Block(b, n))
<1>1. \A s \in DOMAIN t :
          \/ \E j \in DOMAIN text : s = Moved(j, end, n) /\ t[s] = text[j]
          \/ \E k \in 1..n : s = end + k /\ t[s] = <<b, k>>
  BY SplicedOrigins
<1>2. Holds(t, c, m)
  OBVIOUS
<1> HIDE DEF t
<1>3. PICK from \in [1..m -> {s \in DOMAIN t : t[s][1] = c}] :
          /\ \A k \in 1..m : t[from[k]] = <<c, k>>
          /\ \A j, k \in 1..m : j < k => from[j] < from[k]
  BY <1>2, Zenon DEF Holds
<1>4. \A k \in 1..m : \E j \in DOMAIN text : from[k] = Moved(j, end, n) /\ text[j] = <<c, k>>
  <2> SUFFICES ASSUME NEW k \in 1..m
               PROVE  \E j \in DOMAIN text : from[k] = Moved(j, end, n) /\ text[j] = <<c, k>>
    OBVIOUS
  <2>1. from[k] \in DOMAIN t /\ t[from[k]] = <<c, k>>
    BY <1>3
  <2>2. ~ \E l \in 1..n : t[from[k]] = <<b, l>>
    BY <2>1
  <2> QED
    BY <1>1, <2>1, <2>2
<1> DEFINE at == [k \in 1..m |->
                    CHOOSE j \in DOMAIN text : from[k] = Moved(j, end, n) /\ text[j] = <<c, k>>]
<1>5. \A k \in 1..m : /\ at[k] \in DOMAIN text
                      /\ from[k] = Moved(at[k], end, n)
                      /\ text[at[k]] = <<c, k>>
  BY <1>4
<1> HIDE DEF at
<1>6. at \in [1..m -> {s \in DOMAIN text : text[s][1] = c}]
  <2>1. at \in [1..m -> DOMAIN text]
    BY <1>5 DEF at
  <2> QED
    BY <2>1, <1>5
<1>7. ASSUME NEW j \in 1..m, NEW k \in 1..m, j < k
      PROVE  at[j] < at[k]
  <2>1. from[j] < from[k] /\ at[j] \in Int /\ at[k] \in Int /\ end \in Int
    BY <1>3, <1>5, <1>7
  <2> QED
    BY <2>1, <1>5 DEF Moved
<1> QED
  BY <1>5, <1>6, <1>7, Zenon DEF Holds

\* Nothing is in an empty text.
LEMMA EmptyHoldsNothing ==
    ASSUME NEW b, NEW n \in Nat \ {0}
    PROVE  ~Holds(<<>>, b, n)
<1>1. 1 \in 1..n
  OBVIOUS
<1>2. \A at \in [1..n -> {s \in DOMAIN <<>> : <<>>[s][1] = b}] : at[1] \in {}
  BY <1>1
<1> QED
  BY <1>2, Zenon DEF Holds

\* What a search shows is there.
LEMMA ShownIsThere ==
    ASSUME NEW text, NEW b, NEW first \in Nat, NEW last \in Nat, first <= last,
           Shows(text, b, first, last)
    PROVE  \E s \in DOMAIN text : text[s] = <<b, first>>
<1>1. PICK s \in DOMAIN text : StandsAt(text, s, b, first, last)
  BY DEF Shows
<1>2. s + (first - first) \in DOMAIN text /\ text[s + (first - first)] = <<b, first>>
  BY <1>1 DEF StandsAt
<1> QED
  BY <1>2

\* Text t is text with the n characters of block b behind it.
Appends(text, t, b, n) ==
    /\ \A j \in DOMAIN text : j \in DOMAIN t /\ t[j] = text[j]
    /\ \A k \in 1..n : Len(text) + k \in DOMAIN t /\ t[Len(text) + k] = <<b, k>>
    /\ \A s \in DOMAIN t : \/ s \in DOMAIN text /\ t[s] = text[s]
                           \/ \E k \in 1..n : s = Len(text) + k /\ t[s] = <<b, k>>

\* An insertion at the end of a text.
LEMMA AppendedPositions ==
    ASSUME NEW C, NEW text \in Seq(C), NEW b, NEW n \in Nat, Block(b, n) \in Seq(C),
           NEW t, t = Spliced(text, Len(text), Block(b, n))
    PROVE  Appends(text, t, b, n)
<1>1. PICK end \in 0..Len(text) : end = Len(text)
  OBVIOUS
<1>2. t = Spliced(text, end, Block(b, n))
  BY <1>1
<1>3. /\ t \in Seq(C)
      /\ Len(t) = Len(text) + n
      /\ \A j \in DOMAIN text : Moved(j, end, n) \in DOMAIN t /\ t[Moved(j, end, n)] = text[j]
      /\ \A k \in 1..n : end + k \in DOMAIN t /\ t[end + k] = <<b, k>>
  BY <1>2, SplicedPositions
<1>4. \A s \in DOMAIN t : \/ \E j \in DOMAIN text : s = Moved(j, end, n) /\ t[s] = text[j]
                          \/ \E k \in 1..n : s = end + k /\ t[s] = <<b, k>>
  BY <1>2, SplicedOrigins
<1>5. \A j \in DOMAIN text : Moved(j, end, n) = j
  BY <1>1 DEF Moved
<1>6. \A j \in DOMAIN text : j \in DOMAIN t /\ t[j] = text[j]
  BY <1>3, <1>5
<1>7. \A k \in 1..n : Len(text) + k \in DOMAIN t /\ t[Len(text) + k] = <<b, k>>
  BY <1>1, <1>3
<1>8. \A s \in DOMAIN t : \/ s \in DOMAIN text /\ t[s] = text[s]
                          \/ \E k \in 1..n : s = Len(text) + k /\ t[s] = <<b, k>>
  BY <1>1, <1>4, <1>5
<1> QED
  BY <1>6, <1>7, <1>8 DEF Appends

\* A text of whole blocks, chars[b] characters each, stays one when a block is appended.
Whole(text, chars) ==
    \A s \in DOMAIN text :
        StandsAt(text, s - text[s][2] + 1, text[s][1], 1, chars[text[s][1]])

LEMMA AppendedWhole ==
    ASSUME NEW C, NEW text \in Seq(C), NEW b, NEW chars, NEW n \in Nat, n = chars[b],
           Block(b, n) \in Seq(C), Whole(text, chars),
           NEW t, t = Spliced(text, Len(text), Block(b, n))
    PROVE  Whole(t, chars)
<1>1. Appends(text, t, b, n)
  BY AppendedPositions
<1>2. /\ \A j \in DOMAIN text : j \in DOMAIN t /\ t[j] = text[j]
      /\ \A k \in 1..n : Len(text) + k \in DOMAIN t /\ t[Len(text) + k] = <<b, k>>
      /\ \A s \in DOMAIN t : \/ s \in DOMAIN text /\ t[s] = text[s]
                             \/ \E k \in 1..n : s = Len(text) + k /\ t[s] = <<b, k>>
  BY <1>1 DEF Appends
<1>3. ASSUME NEW s \in DOMAIN t
      PROVE  StandsAt(t, s - t[s][2] + 1, t[s][1], 1, chars[t[s][1]])
  <2>1. CASE s \in DOMAIN text /\ t[s] = text[s]
    <3>1. PICK p, c : p = s - text[s][2] + 1 /\ c = text[s][1]
      OBVIOUS
    <3>2. StandsAt(text, p, c, 1, chars[c])
      BY <2>1, <3>1 DEF Whole
    <3>3. StandsAt(t, p, c, 1, chars[c])
      BY <1>2, <3>2 DEF StandsAt
    <3> QED
      BY <2>1, <3>1, <3>3
  <2>2. CASE \E k \in 1..n : s = Len(text) + k /\ t[s] = <<b, k>>
    <3>1. PICK k \in 1..n : s = Len(text) + k /\ t[s] = <<b, k>>
      BY <2>2
    <3>2. t[s][1] = b /\ s - t[s][2] + 1 = Len(text) + 1
      <4>1. t[s][1] = b /\ t[s][2] = k
        BY <3>1
      <4>2. Len(text) \in Nat
        OBVIOUS
      <4> QED
        BY <3>1, <4>1, <4>2
    <3>3. \A j \in 1..n : Len(text) + 1 + (j - 1) = Len(text) + j
      OBVIOUS
    <3>4. StandsAt(t, Len(text) + 1, b, 1, n)
      BY <1>2, <3>3 DEF StandsAt
    <3> QED
      BY <3>2, <3>4
  <2> QED
    BY <1>2, <2>1, <2>2
<1> QED
  BY <1>3 DEF Whole

\* Of whole blocks a search finds the first characters.
LEMMA WholeShows ==
    ASSUME NEW text, NEW chars, Whole(text, chars), NEW s \in DOMAIN text, s \in Int,
           text[s][2] = 1, NEW last \in Nat, chars[text[s][1]] \in Nat,
           last <= chars[text[s][1]]
    PROVE  Shows(text, text[s][1], 1, last)
<1>1. PICK c : c = text[s][1]
  OBVIOUS
<1>2. s - text[s][2] + 1 = s
  OBVIOUS
<1>3. StandsAt(text, s, c, 1, chars[c])
  BY <1>1, <1>2 DEF Whole
<1>4. \A k \in 1..last : k \in 1..chars[c]
  BY <1>1
<1>5. StandsAt(text, s, c, 1, last)
  BY <1>3, <1>4 DEF StandsAt
<1> QED
  BY <1>1, <1>5 DEF Shows

-----------------------------------------------------------------------------
(* Sets of numbers *)

\* A set of numbers has a least one.
LEMMA LeastExists ==
    ASSUME NEW S \in SUBSET Nat, S # {}
    PROVE  \E n \in S : \A o \in S : n <= o
<1>1. PICK R : IsWellFoundedOn(R, Nat) /\ R = {s \in Nat \X Nat : s[1] < s[2]}
  BY NatLessThanWellFounded, Zenon DEF OpToRel
<1>2. PICK x \in S : \A y \in S : ~ (<<y, x>> \in R)
  BY <1>1, WFMin
<1>3. ASSUME NEW y \in S PROVE x <= y
  <2>1. x \in Nat /\ y \in Nat /\ <<y, x>> \notin R
    BY <1>2
  <2>2. ~(y < x)
    BY <1>1, <2>1
  <2> QED
    BY <2>1, <2>2
<1> QED
  BY <1>3

\* A set of positions has a greatest one.
LEMMA GreatestExists ==
    ASSUME NEW len \in Nat, NEW L \in SUBSET (0..len), L # {}
    PROVE  \E n \in L : \A o \in L : o <= n
<1> DEFINE T == {len - n : n \in L}
<1>1. T \subseteq Nat /\ T # {}
  <2>1. \A n \in L : n \in 0..len /\ len - n \in Nat
    OBVIOUS
  <2>2. T # {}
    OBVIOUS
  <2> QED
    BY <2>1, <2>2
<1>2. PICK x \in T : \A y \in T : x <= y
  <2> HIDE DEF T
  <2> QED
    BY <1>1, LeastExists
<1>3. PICK n \in L : x = len - n
  OBVIOUS
<1>4. ASSUME NEW o \in L PROVE o <= n
  <2>1. len - o \in T
    OBVIOUS
  <2> QED
    BY <2>1, <1>2, <1>3
<1> QED
  BY <1>4

LEMMA MinLeast ==
    ASSUME NEW S \in SUBSET Nat, S # {}
    PROVE  Min(S) \in S /\ \A o \in S : Min(S) <= o
  BY LeastExists DEF Min

Bounded(S) == \E b \in Nat : \A x \in S : x <= b

LEMMA MaxGreatest ==
    ASSUME NEW S \in SUBSET Nat, S # {}, Bounded(S)
    PROVE  Max(S) \in S /\ \A o \in S : o <= Max(S)
<1>1. PICK b \in Nat : \A x \in S : x <= b
  BY DEF Bounded
<1>2. S \in SUBSET (0..b)
  BY <1>1
<1>3. \E n \in S : \A o \in S : o <= n
  BY <1>2, GreatestExists
<1>4. \E n \in S : \A o \in S : n >= o
  BY <1>3
<1>5. Max(S) \in S /\ \A o \in S : Max(S) >= o
  BY <1>4, Zenon DEF Max
<1> QED
  BY <1>5

\* The values of a sequence of numbers have a bound: the least n whose first n values
\* have none would be neither 0 nor one more than another.
LEMMA ValuesBounded ==
    ASSUME NEW len \in Nat, NEW f \in [1..len -> Nat]
    PROVE  Bounded({f[j] : j \in 1..len})
<1> DEFINE Has(n) == \E b \in Nat : \A j \in 1..len : j <= n => f[j] <= b
           W == {n \in Nat : ~Has(n)}
<1>1. W = {}
  <2> SUFFICES ASSUME W # {} PROVE FALSE
    OBVIOUS
  <2>1. W \in SUBSET Nat
    OBVIOUS
  <2>2. PICK n \in W : \A o \in W : n <= o
    <3> HIDE DEF W
    <3> QED
      BY <2>1, LeastExists
  <2>3. n # 0
    <3>1. \A j \in 1..len : ~(j <= 0)
      OBVIOUS
    <3>2. Has(0)
      BY <3>1
    <3> QED
      BY <3>2
  <2>4. n \in Nat /\ n - 1 \in Nat /\ n - 1 \notin W
    <3>1. n \in Nat
      BY <2>1
    <3>2. n - 1 \in Nat /\ ~(n <= n - 1)
      BY <3>1, <2>3
    <3> QED
      BY <3>1, <3>2, <2>2
  <2>5. PICK b \in Nat : \A j \in 1..len : j <= n - 1 => f[j] <= b
    BY <2>4
  <2>6. CASE n \in 1..len
    <3>1. PICK d \in Nat : b <= d /\ f[n] <= d
      <4>1. f[n] \in Nat
        BY <2>6
      <4>2. PICK v \in Nat : v = f[n]
        BY <4>1
      <4>3. b + v \in Nat /\ b <= b + v /\ v <= b + v
        OBVIOUS
      <4> QED
        BY <4>2, <4>3
    <3>2. ASSUME NEW j \in 1..len, j <= n PROVE f[j] <= d
      <4>1. PICK v \in Nat : v = f[j]
        OBVIOUS
      <4>2. j = n \/ j <= n - 1
        BY <2>4, <3>2
      <4>3. CASE j = n
        BY <4>3, <3>1
      <4>4. CASE j <= n - 1
        <5>1. v <= b
          BY <4>1, <4>4, <2>5
        <5> QED
          BY <4>1, <5>1, <3>1
      <4> QED
        BY <4>2, <4>3, <4>4
    <3> QED
      BY <3>2, <2>2
  <2>7. CASE n \notin 1..len
    <3>1. \A j \in 1..len : j <= n => j <= n - 1
      BY <2>4, <2>7
    <3> QED
      BY <3>1, <2>5, <2>2
  <2> QED
    BY <2>6, <2>7
<1>2. Has(len)
  BY <1>1
<1>3. PICK b \in Nat : \A j \in 1..len : j <= len => f[j] <= b
  BY <1>2
<1> QED
  BY <1>3 DEF Bounded
=============================================================================
