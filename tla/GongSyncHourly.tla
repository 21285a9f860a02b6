---------------------------- MODULE GongSyncHourly ----------------------------
(***************************************************************************)
(* Proofs about the hourly runs of gong-sync: every call gets its turn     *)
(* while failures are fewer than the hours that look back on it, and runs  *)
(* that follow one another in one container take no doc past the cap and   *)
(* write a call once.                                                      *)
(***************************************************************************)
EXTENDS GongSyncProofs, FiniteSetTheorems

-----------------------------------------------------------------------------
(* Where the loops go on *)

\* The run r has read what q has read.
SameTexts(q, r) ==
    /\ r.seen = q.seen /\ r.bytes = q.bytes /\ r.seeded = q.seeded
    /\ r.filter = q.filter /\ r.nread = q.nread

\* After a partition: r reads the docs of the next one, or fetches calls.
AfterPartition(q, r) ==
    /\ SameTexts(q, r) /\ r.todo = {}
    /\ \/ r.pc = "fetch" /\ r.draining = FALSE
       \/ /\ r.pc = "seed" /\ r.draining /\ r.map = q.map
          /\ r.cust \in q.parts /\ r.route = q.map[r.cust]

\* After an item of the drain, rest being the items left.
AfterItem(q, rest, r) ==
    \/ AfterPartition(q, r)
    \/ /\ SameTexts(q, r) /\ r.pc = "drain" /\ r.draining
       /\ r.map = q.map /\ r.cust = q.cust /\ r.route = q.route /\ r.todo = rest

\* After a call, rest being the calls left: the next one, or the sheet.
AfterCall(q, rest, r) ==
    \/ /\ SameTexts(q, r) /\ r.pc = "route" /\ r.draining = FALSE
       /\ r.todo = rest /\ rest # {}
    \/ /\ rest = {} /\ r.pc = "sheet" /\ r.draining = FALSE
       /\ r.todo = {} /\ r.seeded = {} /\ r.filter = 0

LEMMA NextPartitionGoes ==
    ASSUME NEW q \in Run, q.draining
    PROVE  AfterPartition(q, NextPartition(q))
<1>1. CASE q.parts = {}
  <2>1. PICK r : r = [q EXCEPT !.pc = "fetch", !.draining = FALSE, !.map = NoLists,
                               !.cust = 0, !.route = <<>>, !.todo = {}]
    OBVIOUS
  <2>2. SameTexts(q, r) /\ r.todo = {} /\ r.pc = "fetch" /\ r.draining = FALSE
    BY <2>1 DEF Run, SameTexts
  <2> QED
    BY <1>1, <2>1, <2>2 DEF NextPartition, AfterPartition
<1>2. CASE q.parts # {}
  <2>1. q.parts \in SUBSET Nat
    BY LabelsAssumption DEF Run
  <2>2. PICK k \in q.parts : k = Min(q.parts)
    BY <1>2, <2>1, MinLeast
  <2>3. PICK parts, list : parts = q.parts \ {k} /\ list = q.map[k]
    OBVIOUS
  <2>4. PICK r : r = [q EXCEPT !.pc = "seed", !.parts = parts, !.cust = k,
                               !.route = list, !.todo = {}]
    OBVIOUS
  <2>5. /\ SameTexts(q, r) /\ r.todo = {} /\ r.pc = "seed" /\ r.draining
        /\ r.map = q.map /\ r.cust = k /\ r.route = list
    BY <2>4 DEF Run, SameTexts
  <2>6. NextPartition(q) = r
    BY <1>2, <2>2, <2>3, <2>4 DEF NextPartition
  <2> QED
    BY <2>2, <2>3, <2>5, <2>6 DEF AfterPartition
<1> QED
  BY <1>1, <1>2

LEMMA LoopItemsGoes ==
    ASSUME NEW q \in Run, q.draining
    PROVE  AfterItem(q, q.todo, LoopItems(q))
<1>1. CASE q.todo = {}
  BY <1>1, NextPartitionGoes DEF LoopItems, AfterItem
<1>2. CASE q.todo # {}
  <2>1. PICK r : r = [q EXCEPT !.pc = "drain"]
    OBVIOUS
  <2>2. /\ SameTexts(q, r) /\ r.pc = "drain" /\ r.draining /\ r.todo = q.todo
        /\ r.map = q.map /\ r.cust = q.cust /\ r.route = q.route
    BY <2>1 DEF Run, SameTexts
  <2> QED
    BY <1>2, <2>1, <2>2 DEF LoopItems, AfterItem
<1> QED
  BY <1>1, <1>2

LEMMA LoopCallsGoes ==
    ASSUME NEW q \in Run, q.draining = FALSE
    PROVE  AfterCall(q, q.todo, LoopCalls(q))
<1>1. CASE q.todo = {}
  <2>1. PICK idle \in Run : idle = Idle
    BY IdleType
  <2>2. PICK r : r = [idle EXCEPT !.pc = "sheet"]
    OBVIOUS
  <2>3. idle.draining = FALSE /\ idle.todo = {} /\ idle.seeded = {} /\ idle.filter = 0
    BY <2>1 DEF Idle
  <2>4. /\ r.pc = "sheet" /\ r.draining = FALSE /\ r.todo = {} /\ r.seeded = {}
        /\ r.filter = 0
    BY <2>2, <2>3 DEF Run
  <2> QED
    BY <1>1, <2>1, <2>2, <2>4 DEF LoopCalls, AfterCall
<1>2. CASE q.todo # {}
  <2>1. PICK r : r = [q EXCEPT !.pc = "route", !.cust = 0, !.route = <<>>]
    OBVIOUS
  <2>2. SameTexts(q, r) /\ r.pc = "route" /\ r.draining = FALSE /\ r.todo = q.todo
    BY <2>1 DEF Run, SameTexts
  <2> QED
    BY <1>2, <2>1, <2>2 DEF LoopCalls, AfterCall
<1> QED
  BY <1>1, <1>2

LEMMA PastGoes ==
    ASSUME NEW q \in Run, NEW p
    PROVE  IF q.draining THEN AfterItem(q, q.todo \ {p}, Past(q, p))
           ELSE AfterCall(q, q.todo \ {p}, Past(q, p))
<1>1. PICK t : t = [q EXCEPT !.todo = @ \ {p}]
  OBVIOUS
<1>2. /\ t \in Run /\ SameTexts(q, t) /\ t.draining = q.draining /\ t.todo = q.todo \ {p}
      /\ t.map = q.map /\ t.cust = q.cust /\ t.route = q.route /\ t.parts = q.parts
  BY <1>1 DEF Run, SameTexts
<1>3. CASE q.draining
  <2>1. AfterItem(t, t.todo, LoopItems(t))
    BY <1>2, <1>3, LoopItemsGoes
  <2>2. AfterItem(q, q.todo \ {p}, LoopItems(t))
    BY <1>2, <2>1 DEF AfterItem, AfterPartition, SameTexts
  <2> QED
    BY <1>1, <1>3, <2>2 DEF Past
<1>4. CASE ~q.draining
  <2>1. q.draining \in BOOLEAN
    BY DEF Run
  <2>2. AfterCall(t, t.todo, LoopCalls(t))
    BY <1>2, <1>4, <2>1, LoopCallsGoes
  <2>3. AfterCall(q, q.todo \ {p}, LoopCalls(t))
    BY <1>2, <2>2 DEF AfterCall, SameTexts
  <2> QED
    BY <1>1, <1>4, <2>3 DEF Past
<1> QED
  BY <1>3, <1>4

LEMMA Became ==
    ASSUME GongInv, NEW i \in Instances, NEW r, Become(i, r)
    PROVE  run'[i] = r /\ \A j \in Instances \ {i} : run'[j] = run[j]
  BY DEF GongInv, TypeOK, Become

LEMMA NoFault ==
    ASSUME GongInv, faults' = faults, NEW k
    PROVE  ~Fault(k)
  BY BoundsAssumption DEF GongInv, TypeOK, Fault

\* Reading one more doc of a list, or failing to.
LEMMA SeedGoes ==
    ASSUME GongInv, NEW i \in Instances, Seed(i)
    PROVE  LET q    == run[i]
               r    == run'[i]
               doc  == docs[q.route[q.nread + 1]]
               last == q.nread + 1 = Len(q.route)
           IN  /\ r.draining = q.draining /\ r.map = q.map /\ r.cust = q.cust
               /\ r.route = q.route /\ r.todo = q.todo /\ r.filter = q.filter
               /\ r.pc \in {"seed", "items", "call"}
               /\ r.pc = "items" => q.draining
               /\ last => r.pc # "seed" /\ r.nread = 0 /\ r.seeded = q.seeded \cup {q.cust}
               /\ ~last => r.pc = "seed" /\ r.nread = q.nread + 1 /\ r.seeded = q.seeded
               /\ faults' = faults \/ "read" \notin FaultKinds =>
                    /\ r.seen = [q.seen EXCEPT ![q.cust] = @ \cup Legible(doc.text)]
                    /\ r.bytes = [q.bytes EXCEPT ![q.cust] = @ + doc.bytes]
<1>1. PICK q \in Run : q = run[i]
  BY RunFacts DEF Sound
<1>2. PICK doc : doc = docs[q.route[q.nread + 1]]
  OBVIOUS
<1> DEFINE last == q.nread + 1 = Len(q.route)
           Next1(marks, bytes) ==
             [q EXCEPT !.seen[q.cust] = @ \cup marks,
                       !.bytes[q.cust] = @ + bytes,
                       !.seeded = IF last THEN @ \cup {q.cust} ELSE @,
                       !.nread = IF last THEN 0 ELSE @ + 1,
                       !.pc = IF ~last THEN "seed"
                              ELSE IF q.draining THEN "items" ELSE "call"]
<1>3. PICK marks, bytes :
        /\ Become(i, Next1(marks, bytes))
        /\ (marks = Legible(doc.text) /\ bytes = doc.bytes) \/ Fault("read")
  <2>1. \/ Become(i, Next1(Legible(doc.text), doc.bytes))
        \/ Become(i, Next1({}, 0)) /\ Fault("read")
    BY <1>1, <1>2 DEF Seed
  <2> HIDE DEF Next1
  <2> QED
    BY <2>1
<1>4. PICK seen, size, seeded, nread, pc :
        /\ seen = [q.seen EXCEPT ![q.cust] = @ \cup marks]
        /\ size = [q.bytes EXCEPT ![q.cust] = @ + bytes]
        /\ seeded = IF last THEN q.seeded \cup {q.cust} ELSE q.seeded
        /\ nread = IF last THEN 0 ELSE q.nread + 1
        /\ pc = IF ~last THEN "seed" ELSE IF q.draining THEN "items" ELSE "call"
  OBVIOUS
<1>5. PICK r : r = [q EXCEPT !.seen = seen, !.bytes = size, !.seeded = seeded,
                             !.nread = nread, !.pc = pc]
  OBVIOUS
<1>6. Next1(marks, bytes) = r
  BY <1>1, <1>4, <1>5 DEF Run
<1> HIDE DEF Next1
<1>7. run'[i] = r
  BY <1>3, <1>6, Became
<1>8. /\ r.draining = q.draining /\ r.map = q.map /\ r.cust = q.cust
      /\ r.route = q.route /\ r.todo = q.todo /\ r.filter = q.filter
      /\ r.seen = seen /\ r.bytes = size /\ r.seeded = seeded /\ r.nread = nread /\ r.pc = pc
  BY <1>1, <1>5 DEF Run
<1>9. /\ pc \in {"seed", "items", "call"}
      /\ pc = "items" => q.draining
      /\ last => pc # "seed" /\ nread = 0 /\ seeded = q.seeded \cup {q.cust}
      /\ ~last => pc = "seed" /\ nread = q.nread + 1 /\ seeded = q.seeded
  BY <1>4
<1>10. faults' = faults \/ "read" \notin FaultKinds =>
         marks = Legible(doc.text) /\ bytes = doc.bytes
  BY <1>3, NoFault DEF Fault
<1>11. faults' = faults \/ "read" \notin FaultKinds =>
         /\ seen = [q.seen EXCEPT ![q.cust] = @ \cup Legible(doc.text)]
         /\ size = [q.bytes EXCEPT ![q.cust] = @ + doc.bytes]
  BY <1>4, <1>10
<1> QED
  BY <1>1, <1>2, <1>7, <1>8, <1>9, <1>11

\* The run r has in hand what q has.
SameHand(q, r) ==
    /\ r.draining = q.draining /\ r.map = q.map /\ r.cust = q.cust
    /\ r.route = q.route /\ r.todo = q.todo

\* Listing a partition, leaving it, or leaving one of its items.
DrainGoes(q, r) ==
    \/ /\ q.pc = "items"
       /\ AfterItem(q, {p \in pending : p.cust = q.cust}, r)
    \/ q.pc = "drain" /\ AfterPartition(q, r)
    \/ q.pc \in {"drain", "delete"} /\ \E p \in q.todo : AfterItem(q, q.todo \ {p}, r)

LEMMA DrainSteps ==
    ASSUME GongInv, NEW i \in Instances,
           ListItems(i) \/ SkipUnreadable(i) \/ StopPartition(i) \/ Delete(i)
    PROVE  /\ run[i].draining
           /\ \/ DrainGoes(run[i], run'[i])
              \/ run'[i] = Idle /\ faults' # faults
<1>1. PICK q : q = run[i] /\ q \in Run /\ RunInv(q, docs)
  BY RunFacts DEF Sound
<1>2. q.pc \in {"items", "drain", "delete"} /\ q.draining
  BY <1>1 DEF ListItems, SkipUnreadable, StopPartition, Delete, RunInv, Phase
<1>3. ASSUME Become(i, Idle), NEW k, Fault(k)
      PROVE  run'[i] = Idle /\ faults' # faults
  BY <1>3, NoFault, Became
<1>4. CASE ListItems(i)
  <2>1. PICK mine : mine = {p \in pending : p.cust = q.cust}
    OBVIOUS
  <2>2. \/ Become(i, LoopItems([q EXCEPT !.todo = mine]))
        \/ Become(i, Idle) /\ Fault("items")
    BY <1>1, <1>4, <2>1 DEF ListItems
  <2>3. PICK t : t = [q EXCEPT !.todo = mine]
    OBVIOUS
  <2>4. mine \in SUBSET Item
    BY <2>1, LabelsAssumption DEF GongInv, TypeOK, Item
  <2>5. /\ t \in Run /\ t.draining /\ t.todo = mine /\ SameTexts(q, t)
        /\ t.map = q.map /\ t.cust = q.cust /\ t.route = q.route /\ t.parts = q.parts
    BY <1>1, <1>2, <2>3, <2>4 DEF Run, SameTexts
  <2>6. PICK r : r = LoopItems(t)
    OBVIOUS
  <2>7. AfterItem(t, mine, r)
    BY <2>5, <2>6, LoopItemsGoes
  <2>8. AfterItem(q, mine, r)
    BY <2>5, <2>7 DEF AfterItem, AfterPartition, SameTexts
  <2>9. Become(i, r) => run'[i] = r
    BY Became
  <2>10. q.pc = "items"
    BY <1>1, <1>4 DEF ListItems
  <2> QED
    BY <1>1, <1>2, <1>3, <2>1, <2>2, <2>3, <2>6, <2>8, <2>9, <2>10 DEF DrainGoes
<1>5. CASE StopPartition(i)
  <2>1. Become(i, NextPartition(Alerted(q))) \/ (Become(i, Idle) /\ Fault("count"))
    BY <1>1, <1>5 DEF StopPartition
  <2>2. PICK t : t = [q EXCEPT !.alerted = @ \cup {q.cust}]
    OBVIOUS
  <2>3. q.cust \in Customers
    BY <1>1, <1>2 DEF RunInv, Placing, AtCustomer
  <2>4. /\ t \in Run /\ t.draining /\ SameTexts(q, t)
        /\ t.map = q.map /\ t.parts = q.parts
    BY <1>1, <1>2, <2>2, <2>3 DEF Run, SameTexts
  <2>5. PICK r : r = NextPartition(t)
    OBVIOUS
  <2>6. AfterPartition(t, r)
    BY <2>4, <2>5, NextPartitionGoes
  <2>7. AfterPartition(q, r)
    BY <2>4, <2>6 DEF AfterPartition, SameTexts
  <2>8. Become(i, r) => run'[i] = r
    BY Became
  <2>9. q.pc = "drain"
    BY <1>1, <1>5 DEF StopPartition
  <2> QED
    BY <1>1, <1>2, <1>3, <2>1, <2>2, <2>5, <2>7, <2>8, <2>9 DEF DrainGoes, Alerted
<1>6. CASE SkipUnreadable(i) \/ Delete(i)
  <2>1. PICK p \in q.todo : Become(i, Past(q, p))
    BY <1>1, <1>6 DEF SkipUnreadable, Delete
  <2>2. PICK r : r = Past(q, p)
    OBVIOUS
  <2>3. run'[i] = r
    BY <2>1, <2>2, Became
  <2>4. AfterItem(q, q.todo \ {p}, r)
    BY <1>1, <1>2, <2>2, PastGoes
  <2>5. q.pc \in {"drain", "delete"}
    BY <1>1, <1>6 DEF SkipUnreadable, Delete
  <2> QED
    BY <1>1, <1>2, <2>3, <2>4, <2>5 DEF DrainGoes
<1> QED
  BY <1>4, <1>5, <1>6

LEMMA MeasureGoes ==
    ASSUME GongInv, NEW i \in Instances, Measure(i)
    PROVE  /\ SameTexts(run[i], run'[i]) /\ SameHand(run[i], run'[i])
           /\ run'[i].pc = "insert"
           /\ \E p \in run[i].todo : Writable(run[i], p) /\ ~IsFull(run[i], p.call)
<1>1. PICK q \in Run : q = run[i]
  BY RunFacts DEF Sound
<1>2. PICK n : n = Len(docs[Target(q)].text)
  OBVIOUS
<1>3. PICK r : r = [q EXCEPT !.pc = "insert", !.end = n]
  OBVIOUS
<1>4. SameTexts(q, r) /\ SameHand(q, r) /\ r.pc = "insert"
  BY <1>3 DEF Run, SameTexts, SameHand
<1>5. run'[i] = r
  BY <1>1, <1>2, <1>3, Became DEF Measure
<1> QED
  BY <1>1, <1>4, <1>5 DEF Measure

\* The run b is q with call c in the text it has of its customer.
Counted(q, c, b) ==
    /\ b.seen = [q.seen EXCEPT ![q.cust] = @ \cup MarksOf(c)]
    /\ b.bytes = [q.bytes EXCEPT ![q.cust] = @ + Size[c]]
    /\ b.seeded = q.seeded /\ b.filter = q.filter /\ b.nread = q.nread
    /\ b.pc = q.pc /\ SameHand(q, b)

LEMMA InsertGoes ==
    ASSUME GongInv, NEW i \in Instances, Insert(i)
    PROVE  \E p \in run[i].todo, b \in Run :
             /\ Current(run[i], p)
             /\ Write(Target(run[i]), run[i].end, p.call)
             /\ Counted(run[i], p.call, b)
             /\ IF run[i].draining
                THEN SameTexts(b, run'[i]) /\ SameHand(b, run'[i]) /\ run'[i].pc = "delete"
                ELSE AfterCall(b, run[i].todo \ {p}, run'[i])
<1>1. PICK q : q = run[i] /\ q \in Run /\ RunInv(q, docs)
  BY RunFacts DEF Sound
<1>2. q.pc = "insert"
  BY <1>1 DEF Insert
<1> DEFINE With(c) == [Cached(q, c) EXCEPT !.end = 0]
<1>3. PICK p \in q.todo :
        /\ Current(With(p.call), p)
        /\ Write(Target(With(p.call)), q.end, p.call)
        /\ Become(i, IF With(p.call).draining THEN [With(p.call) EXCEPT !.pc = "delete"]
                     ELSE Past(With(p.call), p))
  BY <1>1 DEF Insert
<1>4. PICK c, k : c = p.call /\ k = q.cust
  OBVIOUS
<1>5. PICK seen, size :
        /\ seen = [q.seen EXCEPT ![k] = @ \cup MarksOf(c)]
        /\ size = [q.bytes EXCEPT ![k] = @ + Size[c]]
  OBVIOUS
<1>6. PICK b : b = [q EXCEPT !.seen = seen, !.bytes = size, !.end = 0]
  OBVIOUS
<1>7. With(c) = b
  BY <1>1, <1>4, <1>5, <1>6 DEF Cached, Run
<1> HIDE DEF With
<1>8. b.seen = seen /\ b.bytes = size /\ b.seeded = q.seeded /\ b.filter = q.filter
      /\ b.nread = q.nread /\ b.pc = q.pc /\ SameHand(q, b)
  BY <1>1, <1>6 DEF Run, SameHand
<1>9. Counted(q, c, b)
  BY <1>4, <1>5, <1>8 DEF Counted
<1>10. b \in Run
  <2>1. q.seen \in [Customers -> SUBSET Marks] /\ q.bytes \in [Customers -> Nat]
    BY <1>1 DEF Run
  <2>2. k \in Customers /\ c \in Calls
    BY <1>1, <1>2, <1>3, <1>4 DEF Run, Item, RunInv, Placing, AtCustomer
  <2>3. Size[c] \in Nat
    BY <2>2, CallsAssumption
  <2>4. MarksOf(c) \subseteq Marks
    BY <2>2 DEF MarksOf, Marks
  <2>5. seen \in [Customers -> SUBSET Marks] /\ size \in [Customers -> Nat]
    BY <1>5, <2>1, <2>2, <2>3, <2>4
  <2> QED
    BY <1>1, <1>6, <2>5 DEF Run
<1>11. Current(q, p) /\ Write(Target(q), q.end, c)
  BY <1>3, <1>4, <1>7, <1>8 DEF SameHand, Current, Target
<1>12. CASE q.draining
  <2>1. PICK r : r = [b EXCEPT !.pc = "delete"]
    OBVIOUS
  <2>2. SameTexts(b, r) /\ SameHand(b, r) /\ r.pc = "delete"
    BY <1>10, <2>1 DEF Run, SameTexts, SameHand
  <2>3. run'[i] = r
    BY <1>3, <1>4, <1>7, <1>8, <1>12, <2>1, Became DEF SameHand
  <2> QED
    BY <1>1, <1>4, <1>9, <1>10, <1>11, <1>12, <2>2, <2>3
<1>13. CASE ~q.draining
  <2>1. PICK r : r = Past(b, p)
    OBVIOUS
  <2>2. AfterCall(b, q.todo \ {p}, r)
    BY <1>8, <1>10, <1>13, <2>1, PastGoes DEF SameHand
  <2>3. run'[i] = r
    BY <1>3, <1>4, <1>7, <1>8, <1>13, <2>1, Became DEF SameHand
  <2> QED
    BY <1>1, <1>4, <1>9, <1>10, <1>11, <1>13, <2>2, <2>3
<1> QED
  BY <1>12, <1>13

LEMMA InsertErrorGoes ==
    ASSUME GongInv, NEW i \in Instances, InsertError(i)
    PROVE  /\ faults' # faults
           /\ "appendReply" \notin FaultKinds => docs' = docs
           /\ \E p \in run[i].todo :
                /\ Current(run[i], p)
                /\ docs' = docs \/ Write(Target(run[i]), run[i].end, p.call)
                /\ IF run[i].draining THEN AfterItem(run[i], run[i].todo \ {p}, run'[i])
                   ELSE AfterCall(run[i], run[i].todo \ {p}, run'[i])
<1>1. PICK q \in Run : q = run[i]
  BY RunFacts DEF Sound
<1>2. PICK p \in q.todo :
        /\ Current(q, p)
        /\ \/ Fault("append") /\ UNCHANGED docs
           \/ Fault("appendReply") /\ Write(Target(q), q.end, p.call)
        /\ Become(i, Past([q EXCEPT !.end = 0], p))
  BY <1>1 DEF InsertError
<1>3. PICK b : b = [q EXCEPT !.end = 0]
  OBVIOUS
<1>4. b \in Run /\ SameTexts(q, b) /\ SameHand(q, b) /\ b.parts = q.parts
  BY <1>3 DEF Run, SameTexts, SameHand
<1>5. PICK r : r = Past(b, p)
  OBVIOUS
<1>6. run'[i] = r
  BY <1>2, <1>3, <1>5, Became
<1>7. IF b.draining THEN AfterItem(b, b.todo \ {p}, r) ELSE AfterCall(b, b.todo \ {p}, r)
  BY <1>4, <1>5, PastGoes
<1>8. IF q.draining THEN AfterItem(q, q.todo \ {p}, r) ELSE AfterCall(q, q.todo \ {p}, r)
  BY <1>4, <1>7 DEF AfterItem, AfterPartition, AfterCall, SameTexts, SameHand
<1>9. faults' # faults /\ ("appendReply" \notin FaultKinds => docs' = docs)
  <2>1. faults' = faults => ~Fault("append") /\ ~Fault("appendReply")
    BY NoFault
  <2>2. Fault("appendReply") => "appendReply" \in FaultKinds
    BY DEF Fault
  <2> QED
    BY <1>2, <2>1, <2>2
<1> QED
  BY <1>1, <1>2, <1>6, <1>8, <1>9

\* The drain's mapping m: the run looks for the first partition that has a list in it.
LEMMA PlanGoes ==
    ASSUME GongInv, NEW i \in Instances, Plan(i)
    PROVE  /\ run[i].draining
           /\ \E m, t : /\ LoadMapping(i, m)
                        /\ SameTexts(run[i], t) /\ t.map = m /\ t.parts \subseteq Mapped(m)
                        /\ AfterPartition(t, run'[i])
<1>1. PICK q : q = run[i] /\ q \in Run /\ RunInv(q, docs)
  BY RunFacts DEF Sound
<1>2. q.draining
  BY <1>1 DEF Plan, RunInv, Phase
<1>3. PICK m : /\ LoadMapping(i, m)
               /\ Become(i, NextPartition([q EXCEPT !.map = m, !.parts = @ \cap Mapped(m)]))
  BY <1>1 DEF Plan
<1>4. PICK parts \in SUBSET Customers : parts = q.parts \cap Mapped(m)
  BY <1>1 DEF Run
<1>5. PICK t : t = [q EXCEPT !.map = m, !.parts = parts]
  OBVIOUS
<1>6. m \in Lists
  BY <1>3, LoadStep
<1>7. t \in Run /\ t.draining /\ t.map = m /\ t.parts = parts /\ SameTexts(q, t)
  BY <1>1, <1>2, <1>4, <1>5, <1>6 DEF Run, SameTexts
<1>8. PICK r : r = NextPartition(t)
  OBVIOUS
<1>9. AfterPartition(t, r)
  BY <1>7, <1>8, NextPartitionGoes
<1>10. run'[i] = r
  BY <1>3, <1>4, <1>5, <1>8, Became
<1> QED
  BY <1>1, <1>2, <1>3, <1>4, <1>7, <1>9, <1>10

LEMMA NotDraining ==
    ASSUME GongInv, NEW i \in Instances,
           run[i].pc \notin {"plan", "seed", "items", "drain", "insert", "delete"}
    PROVE  run[i].draining = FALSE
  BY RunFacts DEF Sound, RunInv, Phase, Run

\* The hour's calls, as many as were fetched of them.
LEMMA FetchCallsGoes ==
    ASSUME GongInv, FetchCalls(Hourly)
    PROVE  LET q == run[Hourly]
               r == run'[Hourly]
           IN  \E calls \in SUBSET Calls :
                 /\ faults' = faults => calls = Since
                 /\ r.draining = FALSE
                 /\ \/ calls # {} /\ SameTexts(q, r) /\ r.pc = "details"
                       /\ r.todo = {[at |-> 0, cust |-> 0, call |-> c] : c \in calls}
                    \/ r.pc \in {"sheet", "idle"} /\ r.todo = {} /\ r.seeded = {} /\ r.filter = 0
                       /\ (faults' = faults => calls = {})
<1>1. Hourly \in Instances
  BY BoundsAssumption
<1>2. PICK q \in Run : q = run[Hourly] /\ q.pc = "fetch" /\ q.draining = FALSE
  BY <1>1, RunFacts, NotDraining DEF Sound, FetchCalls
<1> DEFINE Listed(calls) == {[at |-> 0, cust |-> 0, call |-> c] : c \in calls}
           Got(calls) == Become(Hourly, IF calls = {} THEN [Idle EXCEPT !.pc = "sheet"]
                                        ELSE [q EXCEPT !.pc = "details", !.todo = Listed(calls)])
<1>3. \/ Become(Hourly, Idle) /\ faults' # faults
      \/ \E calls \in SUBSET Calls : Got(calls) /\ (faults' = faults => calls = Since)
  <2>1. Since \subseteq Calls
    BY DEF Since, FirstOf
  <2>2. \/ Got(Since)
        \/ Fault("calls") /\ \E pages \in 0..(Cardinality(Since) - 1) \div PageSize :
                               Got(FirstOf(pages * PageSize, Since))
        \/ Fault("calls") /\ Become(Hourly, Idle)
    BY <1>2 DEF FetchCalls
  <2>3. \A n : FirstOf(n, Since) \subseteq Since
    BY DEF FirstOf
  <2>4. Fault("calls") => faults' # faults
    BY NoFault
  <2> HIDE DEF Got
  <2> QED
    BY <2>1, <2>2, <2>3, <2>4
<1>4. PICK idle, sheet1 : idle = Idle /\ sheet1 = [Idle EXCEPT !.pc = "sheet"]
  OBVIOUS
<1>5. /\ idle.pc = "idle" /\ idle.draining = FALSE /\ idle.todo = {}
      /\ idle.seeded = {} /\ idle.filter = 0
      /\ sheet1.pc = "sheet" /\ sheet1.draining = FALSE /\ sheet1.todo = {}
      /\ sheet1.seeded = {} /\ sheet1.filter = 0
  BY <1>4 DEF Idle
<1>6. CASE Become(Hourly, Idle) /\ faults' # faults
  <2>1. run'[Hourly] = idle
    BY <1>1, <1>4, <1>6, Became
  <2> QED
    BY <1>5, <1>6, <2>1
<1>7. CASE \E calls \in SUBSET Calls : Got(calls) /\ (faults' = faults => calls = Since)
  <2>1. PICK calls \in SUBSET Calls : Got(calls) /\ (faults' = faults => calls = Since)
    BY <1>7
  <2>2. CASE calls = {}
    <3>1. Become(Hourly, sheet1)
      BY <1>4, <2>1, <2>2
    <3>2. run'[Hourly] = sheet1
      BY <1>1, <3>1, Became
    <3> QED
      BY <1>5, <2>1, <2>2, <3>2
  <2>3. CASE calls # {}
    <3>1. PICK todo : todo = Listed(calls)
      OBVIOUS
    <3>2. PICK r : r = [q EXCEPT !.pc = "details", !.todo = todo]
      OBVIOUS
    <3>3. r.pc = "details" /\ r.todo = todo /\ r.draining = FALSE /\ SameTexts(q, r)
      BY <1>2, <3>2 DEF Run, SameTexts
    <3>4. run'[Hourly] = r
      BY <1>1, <2>1, <2>3, <3>1, <3>2, Became
    <3> QED
      BY <1>2, <2>1, <2>3, <3>1, <3>3, <3>4
  <2> QED
    BY <2>2, <2>3
<1> QED
  BY <1>3, <1>6, <1>7

\* Details of all calls, of all batches but one yet, or of none.
LEMMA FetchDetailsGoes ==
    ASSUME GongInv, NEW i \in Instances, FetchDetails(i)
    PROVE  \/ run'[i] = Idle /\ faults' # faults
           \/ /\ faults' # faults
              /\ SameTexts(run[i], run'[i]) /\ run'[i].todo \subseteq run[i].todo
              /\ run'[i].pc = "details" /\ run'[i].draining = FALSE
           \/ \E todo \in SUBSET run[i].todo :
                /\ AfterCall(run[i], todo, run'[i])
                /\ faults' = faults =>
                     todo = {p \in run[i].todo : Selected(run[i].filter, p.call)}
<1>1. PICK q \in Run : q = run[i] /\ q.draining = FALSE /\ q.pc = "details"
  BY RunFacts, NotDraining DEF Sound, FetchDetails
<1>2. PICK wanted \in SUBSET q.todo : wanted = {p \in q.todo : Selected(q.filter, p.call)}
  OBVIOUS
<1>3. \/ Become(i, LoopCalls([q EXCEPT !.todo = wanted]))
      \/ Fault("details") /\ \E less \in SUBSET q.todo : Become(i, [q EXCEPT !.todo = less])
      \/ Fault("details") /\ Become(i, Idle)
  <2>1. CASE Fault("details") /\ \E n : Become(i, [q EXCEPT !.todo = @ \ Batch(@, n)])
    <3>1. PICK n, less : /\ less = q.todo \ Batch(q.todo, n)
                         /\ Become(i, [q EXCEPT !.todo = less])
      BY <2>1
    <3>2. less \in SUBSET q.todo
      BY <3>1
    <3> QED
      BY <2>1, <3>1, <3>2
  <2> QED
    BY <1>1, <1>2, <2>1 DEF FetchDetails
<1>4. ASSUME NEW todo \in SUBSET q.todo, Become(i, LoopCalls([q EXCEPT !.todo = todo]))
      PROVE  AfterCall(q, todo, run'[i])
  <2>1. PICK t : t = [q EXCEPT !.todo = todo]
    OBVIOUS
  <2>2. t \in Run /\ SameTexts(q, t) /\ t.todo = todo /\ t.draining = FALSE
    BY <1>1, <2>1 DEF Run, SameTexts
  <2>3. PICK r : r = LoopCalls(t)
    OBVIOUS
  <2>4. AfterCall(t, todo, r)
    BY <2>2, <2>3, LoopCallsGoes
  <2>5. AfterCall(q, todo, r)
    BY <2>2, <2>4 DEF AfterCall, SameTexts
  <2>6. run'[i] = r
    BY <1>4, <2>1, <2>3, Became
  <2> QED
    BY <2>5, <2>6
<1>5. Fault("details") => faults' # faults
  BY NoFault
<1>6. Become(i, Idle) => run'[i] = Idle
  BY Became
<1>7. ASSUME NEW less \in SUBSET q.todo, Become(i, [q EXCEPT !.todo = less])
      PROVE  /\ SameTexts(q, run'[i]) /\ run'[i].todo \subseteq q.todo
             /\ run'[i].pc = "details" /\ run'[i].draining = FALSE
  <2>1. PICK r : r = [q EXCEPT !.todo = less]
    OBVIOUS
  <2>2. SameTexts(q, r) /\ r.todo = less /\ r.pc = "details" /\ r.draining = FALSE
    BY <1>1, <2>1 DEF Run, SameTexts
  <2>3. run'[i] = r
    BY <1>7, <2>1, Became
  <2> QED
    BY <2>2, <2>3
<1> QED
  BY <1>1, <1>2, <1>3, <1>4, <1>5, <1>6, <1>7

\* The mapping m leads from the call in hand to a customer, or to none.
LEMMA RouteGoes ==
    ASSUME GongInv, NEW i \in Instances, Route(i)
    PROVE  LET q == run[i]
               r == run'[i]
           IN  /\ q.draining = FALSE
               /\ \E p \in q.todo : \E m :
                    /\ Current(q, p) /\ LoadMapping(i, m)
                    /\ Find(m, p.call) = 0 => AfterCall(q, q.todo \ {p}, r)
                    /\ Find(m, p.call) # 0 =>
                         /\ SameTexts(q, r) /\ r.draining = FALSE /\ r.todo = q.todo
                         /\ r.cust = Find(m, p.call) /\ r.route = m[r.cust]
                         /\ r.pc = IF r.cust \in q.seeded THEN "call" ELSE "seed"
<1>1. PICK q \in Run : q = run[i] /\ q.draining = FALSE
  BY RunFacts, NotDraining DEF Sound, Route
<1>2. PICK p, m :
        /\ p \in q.todo /\ Current(q, p)
        /\ LoadMapping(i, m)
        /\ Become(i, IF Find(m, p.call) = 0 THEN Past(q, p)
                     ELSE [q EXCEPT !.cust = Find(m, p.call), !.route = m[Find(m, p.call)],
                                    !.pc = IF Find(m, p.call) \in q.seeded THEN "call"
                                           ELSE "seed"])
  BY <1>1 DEF Route
<1>3. PICK k : k = Find(m, p.call)
  OBVIOUS
<1>4. CASE k = 0
  <2>1. PICK r : r = Past(q, p)
    OBVIOUS
  <2>2. run'[i] = r
    BY <1>2, <1>3, <1>4, <2>1, Became
  <2>3. AfterCall(q, q.todo \ {p}, r)
    BY <1>1, <2>1, PastGoes
  <2> QED
    BY <1>1, <1>2, <1>3, <1>4, <2>2, <2>3
<1>5. CASE k # 0
  <2>1. PICK list, pc : list = m[k] /\ pc = IF k \in q.seeded THEN "call" ELSE "seed"
    OBVIOUS
  <2>2. PICK r : r = [q EXCEPT !.cust = k, !.route = list, !.pc = pc]
    OBVIOUS
  <2>3. /\ SameTexts(q, r) /\ r.draining = FALSE /\ r.todo = q.todo
        /\ r.cust = k /\ r.route = list /\ r.pc = pc
    BY <1>1, <2>2 DEF Run, SameTexts
  <2>4. run'[i] = r
    BY <1>2, <1>3, <1>5, <2>1, <2>2, Became
  <2> QED
    BY <1>1, <1>2, <1>3, <1>5, <2>1, <2>3, <2>4
<1> QED
  BY <1>4, <1>5

LEMMA SkipCallGoes ==
    ASSUME GongInv, NEW i \in Instances, SkipCall(i)
    PROVE  \E p \in run[i].todo :
             /\ IsDup(run[i], p.call) \/ faults' # faults
             /\ AfterCall(run[i], run[i].todo \ {p}, run'[i])
<1>1. PICK q \in Run : q = run[i] /\ q.draining = FALSE
  BY RunFacts, NotDraining DEF Sound, SkipCall
<1>2. PICK p \in q.todo : /\ IsDup(q, p.call) \/ Fault("transcript")
                          /\ Become(i, Past(q, p))
  BY <1>1 DEF SkipCall
<1>3. PICK r : r = Past(q, p)
  OBVIOUS
<1>4. run'[i] = r
  BY <1>2, <1>3, Became
<1>5. AfterCall(q, q.todo \ {p}, r)
  BY <1>1, <1>3, PastGoes
<1>6. Fault("transcript") => faults' # faults
  BY NoFault
<1> QED
  BY <1>1, <1>2, <1>4, <1>5, <1>6

LEMMA BufferGoes ==
    ASSUME GongInv, NEW i \in Instances, Buffer(i)
    PROVE  /\ run[i].draining = FALSE
           /\ \E p \in run[i].todo :
                /\ Current(run[i], p)
                /\ \/ /\ Enqueue(run[i].cust, p.call)
                      /\ SameTexts(run[i], run'[i]) /\ SameHand(run[i], run'[i])
                      /\ run'[i].pc = "alert"
                   \/ /\ faults' # faults /\ UNCHANGED <<pending, accepted>>
                      /\ AfterCall(run[i], run[i].todo \ {p}, run'[i])
<1>1. PICK q \in Run : q = run[i] /\ q.draining = FALSE
  BY RunFacts, NotDraining DEF Sound, Buffer
<1>2. PICK p \in q.todo :
        /\ Current(q, p)
        /\ \/ Enqueue(q.cust, p.call) /\ Become(i, [q EXCEPT !.pc = "alert"])
           \/ /\ Fault("enqueue") /\ UNCHANGED <<pending, accepted>>
              /\ Become(i, Past(q, p))
  BY <1>1 DEF Buffer, Writable
<1>3. CASE Enqueue(q.cust, p.call) /\ Become(i, [q EXCEPT !.pc = "alert"])
  <2>1. PICK r : r = [q EXCEPT !.pc = "alert"]
    OBVIOUS
  <2>2. SameTexts(q, r) /\ SameHand(q, r) /\ r.pc = "alert"
    BY <2>1 DEF Run, SameTexts, SameHand
  <2>3. run'[i] = r
    BY <1>3, <2>1, Became
  <2> QED
    BY <1>1, <1>2, <1>3, <2>2, <2>3
<1>4. CASE /\ Fault("enqueue") /\ UNCHANGED <<pending, accepted>>
           /\ Become(i, Past(q, p))
  <2>1. PICK r : r = Past(q, p)
    OBVIOUS
  <2>2. run'[i] = r
    BY <1>4, <2>1, Became
  <2>3. AfterCall(q, q.todo \ {p}, r)
    BY <1>1, <2>1, PastGoes
  <2>4. faults' # faults
    BY <1>4, NoFault
  <2> QED
    BY <1>1, <1>2, <1>4, <2>2, <2>3, <2>4
<1> QED
  BY <1>2, <1>3, <1>4

LEMMA AlertGoes ==
    ASSUME GongInv, NEW i \in Instances, Alert(i)
    PROVE  \E p \in run[i].todo :
             Current(run[i], p) /\ AfterCall(run[i], run[i].todo \ {p}, run'[i])
<1>1. PICK q : q = run[i] /\ q \in Run /\ q.draining = FALSE
  BY RunFacts, NotDraining DEF Sound, Alert
<1>2. PICK p \in q.todo :
        /\ Current(q, p)
        /\ Become(i, Past(Alerted(q), p)) \/ Become(i, Past(q, p))
  BY <1>1 DEF Alert
<1>3. q.pc = "alert" /\ RunInv(q, docs)
  BY <1>1, RunFacts DEF Alert, Sound
<1>4. q.cust \in Customers
  BY <1>3 DEF RunInv, Placing, AtCustomer
<1>5. PICK t : t = [q EXCEPT !.alerted = @ \cup {q.cust}]
  OBVIOUS
<1>6. t \in Run /\ SameTexts(q, t) /\ t.draining = FALSE /\ t.todo = q.todo
  BY <1>1, <1>4, <1>5 DEF Run, SameTexts
<1>7. PICK o \in Run : Become(i, Past(o, p)) /\ SameTexts(q, o) /\ o.draining = FALSE
                       /\ o.todo = q.todo
  BY <1>1, <1>2, <1>5, <1>6 DEF Alerted, SameTexts
<1>8. PICK r : r = Past(o, p)
  OBVIOUS
<1>9. run'[i] = r
  BY <1>7, <1>8, Became
<1>10. AfterCall(o, q.todo \ {p}, r)
  BY <1>7, <1>8, PastGoes
<1>11. AfterCall(q, q.todo \ {p}, r)
  BY <1>7, <1>10 DEF AfterCall, SameTexts
<1> QED
  BY <1>1, <1>2, <1>9, <1>11

LEMMA IdleHasNothing ==
    /\ Idle.pc = "idle" /\ Idle.draining = FALSE /\ Idle.todo = {}
    /\ Idle.seeded = {} /\ Idle.filter = 0
  BY DEF Idle

\* The steps that tell the dates.
LEMMA DatesGo ==
    ASSUME GongInv, NEW i \in Instances, ReadSheet(i) \/ ReadDates(i) \/ WriteDates(i)
    PROVE  LET q == run[i]
               r == run'[i]
           IN  /\ q.pc \in {"sheet", "dates", "write"} /\ q.draining = FALSE
               /\ r.pc \in {"idle", "dates", "write"} /\ r.draining = FALSE
               /\ r.filter \in {0, q.filter}
               /\ \/ r.seeded = {} /\ r.todo = {}
                  \/ SameTexts(q, r) /\ r.todo = q.todo
<1>1. PICK q \in Run : q = run[i] /\ q.draining = FALSE
                       /\ q.pc \in {"sheet", "dates", "write"}
  BY RunFacts, NotDraining DEF Sound, ReadSheet, ReadDates, WriteDates
<1>2. ASSUME Become(i, Idle)
      PROVE  /\ run'[i].pc = "idle" /\ run'[i].draining = FALSE
             /\ run'[i].seeded = {} /\ run'[i].todo = {} /\ run'[i].filter = 0
  BY <1>2, Became, IdleHasNothing
<1>3. CASE Become(i, Idle)
  BY <1>1, <1>2, <1>3
<1>4. CASE ReadSheet(i) /\ ~Become(i, Idle)
  <2>1. PICK left, found : Become(i, [Idle EXCEPT !.pc = "dates", !.left = left, !.found = found])
    BY <1>4 DEF ReadSheet
  <2>2. PICK r : r = [Idle EXCEPT !.pc = "dates", !.left = left, !.found = found]
    OBVIOUS
  <2>3. /\ r.pc = "dates" /\ r.draining = FALSE /\ r.seeded = {} /\ r.todo = {}
        /\ r.filter = 0
    BY <2>2 DEF Idle
  <2>4. run'[i] = r
    BY <2>1, <2>2, Became
  <2> QED
    BY <1>1, <2>3, <2>4
<1>5. CASE ReadDates(i) /\ ~Become(i, Idle)
  <2> DEFINE With(x, dates) ==
               [q EXCEPT !.left = @ \ {x}, !.found[x[1]] = @ \cup dates]
  <2>1. PICK x, dates :
          \/ Become(i, With(x, dates))
          \/ Become(i, [With(x, dates) EXCEPT !.pc = "write"])
    BY <1>1, <1>5, Zenon DEF ReadDates
  <2>2. PICK left, found, t :
          /\ left = q.left \ {x}
          /\ found = [q.found EXCEPT ![x[1]] = @ \cup dates]
          /\ t = [q EXCEPT !.left = left, !.found = found]
    OBVIOUS
  <2>3. With(x, dates) = t
    BY <2>2 DEF Run
  <2>4. PICK u : u = [t EXCEPT !.pc = "write"]
    OBVIOUS
  <2>5. /\ t.pc = q.pc /\ t.draining = FALSE /\ SameTexts(q, t) /\ t.todo = q.todo
        /\ u.pc = "write" /\ u.draining = FALSE /\ SameTexts(q, u) /\ u.todo = q.todo
    BY <1>1, <2>2, <2>4 DEF Run, SameTexts
  <2> HIDE DEF With
  <2>6. run'[i] = t \/ run'[i] = u
    BY <2>1, <2>3, <2>4, Became
  <2>7. q.pc = "dates"
    BY <1>1, <1>5 DEF ReadDates
  <2> QED
    BY <1>1, <2>5, <2>6, <2>7 DEF SameTexts
<1> QED
  BY <1>3, <1>4, <1>5 DEF WriteDates

-----------------------------------------------------------------------------
(* Every call gets its turn *)

\* Of the calls that started in the Window hours up to h.
LookedBackOn(h) == {c \in Calls : h - Window < Hour[c] /\ Hour[c] <= h}

\* Every call is a mapped customer's, whichever lists are published; the calls of one
\* look-back fit in a page; and no two other calls have between them the title and the
\* date of a call, which is then told from what the docs hold.
CallsCanBeTold ==
    /\ \A m \in Lists : (\A k \in Customers : m[k] \in Routes[k])
                            => \A c \in Calls : Find(m, c) # 0
    /\ \A h \in 0..MaxHour : /\ IsFiniteSet(LookedBackOn(h))
                             /\ Cardinality(LookedBackOn(h)) <= PageSize
    /\ \A c, x, y \in Calls :
          Date[c] # 0 /\ IsPrefix(Title[c], Title[x]) /\ Date[y] = Date[c] => c \in {x, y}

\* The run q will come to call c, unless something fails.
ComesTo(q, c) ==
    \/ q.draining
    \/ q.pc = "fetch"
    \/ /\ q.pc \in {"details", "route", "seed", "call", "insert"}
       /\ \E p \in q.todo : p.call = c
    \/ q.pc = "alert" /\ \E p \in q.todo : p.call = c /\ ~Current(q, p)

\* The hours in which the hourly run did not get call c into a doc or the buffer; the
\* hour whose run is still to come, or on its way to c, is not one of them.
Missed(c) ==
    IF due \/ ComesTo(run[Hourly], c) THEN hour - Hour[c] ELSE hour - Hour[c] + 1

Covered(c) == c \in InDocs \cup Buffered

\* The hourly run takes calls of every account, and maps them with a mapping that was
\* published.
Unfiltered ==
    /\ run[Hourly].filter = 0
    /\ mapCache[Hourly].fresh =>
         \A k \in Customers : mapCache[Hourly].lists[k] \in Routes[k]

\* Each missed hour is a failure's.
MissesAreFaults ==
    faults < Window =>
        \A c \in Calls : ~Covered(c) /\ Hour[c] <= hour => Missed(c) <= faults

LookInv == Unfiltered /\ MissesAreFaults

LEMMA FirstOfAll ==
    ASSUME NEW S \in SUBSET Nat, IsFiniteSet(S), NEW n \in Nat, Cardinality(S) <= n
    PROVE  FirstOf(n, S) = S
<1> SUFFICES ASSUME NEW c \in S
             PROVE  Cardinality({o \in S : o < c}) < n
  BY DEF FirstOf
<1>1. PICK T : T = {o \in S : o < c}
  OBVIOUS
<1>2. T \subseteq S \ {c}
  BY <1>1
<1>3. /\ IsFiniteSet(S \ {c}) /\ Cardinality(S \ {c}) = Cardinality(S) - 1
  BY FS_RemoveElement
<1>4. IsFiniteSet(T) /\ Cardinality(T) <= Cardinality(S \ {c})
  BY <1>2, <1>3, FS_Subset
<1>5. Cardinality(T) \in Nat /\ Cardinality(S) \in Nat
  BY <1>4, FS_CardinalityType
<1>6. Cardinality(T) < n
  BY <1>3, <1>4, <1>5
<1> QED
  BY <1>1, <1>6

\* The mapping of a run that loads it without a failure was published.
LEMMA LoadsPublished ==
    ASSUME GongInv, Unfiltered, NEW m, LoadMapping(Hourly, m)
    PROVE  /\ faults' = faults => m \in Lists /\ \A k \in Customers : m[k] \in Routes[k]
           /\ mapCache'[Hourly].fresh =>
                \A k \in Customers : mapCache'[Hourly].lists[k] \in Routes[k]
<1>1. m \in Lists
  BY LoadStep, BoundsAssumption
<1>2. \A k \in Customers : lists[k] \in Routes[k]
  BY DEF GongInv, Mappings
<1>3. PICK entry : entry = [lists |-> lists, fresh |-> TRUE]
  OBVIOUS
<1>4. CASE /\ mapCache' = [mapCache EXCEPT ![Hourly] = entry] /\ m = lists
  <2>1. mapCache'[Hourly] = entry
    BY <1>4, BoundsAssumption DEF GongInv, TypeOK
  <2> QED
    BY <1>1, <1>2, <1>3, <1>4, <2>1
<1>5. CASE /\ UNCHANGED mapCache
           /\ mapCache[Hourly].fresh /\ m = mapCache[Hourly].lists
  BY <1>1, <1>5 DEF Unfiltered
<1>6. CASE UNCHANGED mapCache /\ Fault("mapping")
  BY <1>6, NoFault DEF Unfiltered
<1> QED
  BY <1>3, <1>4, <1>5, <1>6 DEF LoadMapping

\* After a call, the run comes to the calls that are left.
LEMMA AfterCallComesTo ==
    ASSUME NEW q, NEW r, NEW p \in q.todo, NEW c, AfterCall(q, q.todo \ {p}, r),
           \E x \in q.todo : x.call = c /\ x # p
    PROVE  ComesTo(r, c)
  BY DEF AfterCall, ComesTo

\* Once it drains it comes to all of them.
LEMMA DrainComesTo ==
    ASSUME GongInv, faults' = faults, NEW c,
           Plan(Hourly) \/ ListItems(Hourly) \/ SkipUnreadable(Hourly)
             \/ StopPartition(Hourly) \/ Delete(Hourly)
    PROVE  ComesTo(run'[Hourly], c)
<1>1. CASE Plan(Hourly)
  BY <1>1, PlanGoes, BoundsAssumption DEF AfterPartition, ComesTo
<1>2. CASE ~Plan(Hourly)
  <2>1. DrainGoes(run[Hourly], run'[Hourly])
    BY <1>2, DrainSteps, BoundsAssumption
  <2> QED
    BY <2>1 DEF DrainGoes, AfterItem, AfterPartition, ComesTo
<1> QED
  BY <1>1, <1>2

LEMMA SeedComesTo ==
    ASSUME GongInv, Seed(Hourly), NEW c, ComesTo(run[Hourly], c)
    PROVE  ComesTo(run'[Hourly], c)
<1>1. PICK q, r : q = run[Hourly] /\ r = run'[Hourly]
  OBVIOUS
<1>2. /\ r.pc \in {"seed", "items", "call"} /\ (r.pc = "items" => q.draining)
      /\ r.draining = q.draining /\ r.todo = q.todo
  BY <1>1, SeedGoes, BoundsAssumption
<1>3. q.pc = "seed"
  BY <1>1 DEF Seed
<1> QED
  BY <1>1, <1>2, <1>3 DEF ComesTo

LEMMA MeasureComesTo ==
    ASSUME GongInv, Measure(Hourly), NEW c, ComesTo(run[Hourly], c)
    PROVE  ComesTo(run'[Hourly], c)
<1>1. PICK q, r : q = run[Hourly] /\ r = run'[Hourly]
  OBVIOUS
<1>2. SameHand(q, r) /\ r.pc = "insert" /\ \E p \in q.todo : Writable(q, p)
  BY <1>1, MeasureGoes, BoundsAssumption
<1>3. CASE q.draining
  BY <1>1, <1>2, <1>3 DEF SameHand, ComesTo
<1>4. CASE ~q.draining
  <2>1. q.pc \in {"drain", "call"}
    BY <1>2 DEF Writable
  <2> QED
    BY <1>1, <1>2, <1>4, <2>1 DEF SameHand, ComesTo
<1> QED
  BY <1>3, <1>4

\* What the run inserts is in a doc; of the rest it keeps coming to what it came to.
LEMMA InsertComesTo ==
    ASSUME GongInv, Insert(Hourly), NEW c, c \notin InDocs', ComesTo(run[Hourly], c)
    PROVE  ComesTo(run'[Hourly], c)
<1>1. PICK q, r : q = run[Hourly] /\ r = run'[Hourly]
  OBVIOUS
<1>2. q.pc = "insert" /\ Hourly \in Instances
  BY <1>1, BoundsAssumption DEF Insert
<1>3. PICK p \in q.todo, b \in Run :
        /\ Current(q, p) /\ Write(Target(q), q.end, p.call)
        /\ Counted(q, p.call, b)
        /\ IF q.draining THEN SameTexts(b, r) /\ SameHand(b, r) /\ r.pc = "delete"
           ELSE AfterCall(b, q.todo \ {p}, r)
  BY <1>1, <1>2, InsertGoes
<1>4. CASE q.draining
  BY <1>1, <1>3, <1>4 DEF Counted, SameHand, ComesTo
<1>5. CASE ~q.draining
  <2>1. PICK d, k, x : d = Target(q) /\ k = q.end /\ x = p.call
    OBVIOUS
  <2>2. d \in DocIds /\ k \in 0..Len(docs[d].text) /\ x \in Calls
    BY <1>1, <1>2, <1>3, <2>1, InsertPosition
  <2>3. Write(d, k, x)
    BY <1>3, <2>1
  <2>4. WrittenIn(docs') = WrittenIn(docs) \cup {x}
    BY <2>2, <2>3, WriteStep DEF GongInv, TypeOK
  <2>5. x # c
    BY <2>4 DEF InDocs, WrittenIn
  <2>6. \E y \in q.todo : y.call = c
    BY <1>1, <1>2, <1>5 DEF ComesTo
  <2>7. AfterCall(b, q.todo \ {p}, r) /\ b.todo = q.todo
    BY <1>3, <1>5 DEF Counted, SameHand
  <2>8. \E y \in b.todo : y.call = c /\ y # p
    BY <2>1, <2>5, <2>6, <2>7
  <2> QED
    BY <1>1, <1>3, <2>7, <2>8, AfterCallComesTo
<1> QED
  BY <1>4, <1>5

\* The look-back still finds a call that missed fewer hours than it has.
LEMMA FetchCallsComesTo ==
    ASSUME CallsCanBeTold, GongInv, FetchCalls(Hourly), faults' = faults, faults < Window,
           NEW c \in Calls, Hour[c] <= hour, hour - Hour[c] <= faults
    PROVE  ComesTo(run'[Hourly], c)
<1>1. hour \in 0..MaxHour /\ faults \in Nat /\ Window \in Nat /\ Hour[c] \in Nat /\ hour \in Nat
      /\ PageSize \in Nat
  BY BoundsAssumption, CallsAssumption DEF GongInv, TypeOK
<1>2. PICK W : W = LookedBackOn(hour)
  OBVIOUS
<1>3. c \in W
  BY <1>1, <1>2 DEF LookedBackOn
<1>4. IsFiniteSet(W) /\ Cardinality(W) <= PageSize /\ W \in SUBSET Nat
  BY <1>1, <1>2, CallsAssumption DEF CallsCanBeTold, LookedBackOn
<1>5. FirstOf(PageSize, W) = W
  BY <1>1, <1>4, FirstOfAll
<1>6. Since = W
  <2>1. {x \in Calls : InWindow(x)} = W
    BY <1>2 DEF InWindow, LookedBackOn
  <2> QED
    BY <1>5, <2>1 DEF Since
<1>7. PICK r : r = run'[Hourly]
  OBVIOUS
<1>8. r.pc = "details" /\ r.todo = {[at |-> 0, cust |-> 0, call |-> x] : x \in W}
  BY <1>3, <1>6, <1>7, FetchCallsGoes
<1>9. PICK p : p = [at |-> 0, cust |-> 0, call |-> c]
  OBVIOUS
<1>10. p \in r.todo /\ p.call = c
  BY <1>3, <1>8, <1>9
<1> QED
  BY <1>7, <1>8, <1>10 DEF ComesTo

\* Every call belongs to an account, and the hourly run asks for all accounts.
LEMMA DetailsComeTo ==
    ASSUME CallsCanBeTold, GongInv, Unfiltered, FetchDetails(Hourly), faults' = faults,
           NEW c \in Calls, ComesTo(run[Hourly], c)
    PROVE  ComesTo(run'[Hourly], c)
<1>1. PICK q, r : q = run[Hourly] /\ r = run'[Hourly]
  OBVIOUS
<1>2. q.pc = "details" /\ Hourly \in Instances
  BY <1>1, BoundsAssumption DEF FetchDetails
<1>3. q.draining = FALSE
  BY <1>1, <1>2, NotDraining
<1>4. PICK todo : /\ AfterCall(q, todo, r)
                  /\ todo = {p \in q.todo : Selected(q.filter, p.call)}
  BY <1>1, <1>2, FetchDetailsGoes
<1>5. PICK p \in q.todo : p.call = c
  BY <1>1, <1>2, <1>3 DEF ComesTo
<1>6. lists \in Lists /\ \A k \in Customers : lists[k] \in Routes[k]
  BY DEF GongInv, TypeOK, Mappings
<1>7. Find(lists, c) # 0
  BY <1>6 DEF CallsCanBeTold
<1>8. {Id(c), Name(c)} # {0}
  <2>1. 0 \notin Mapped(lists)
    BY LabelsAssumption DEF Mapped
  <2> QED
    BY <1>7, <2>1 DEF Find, SameName
<1>9. q.filter = 0
  BY <1>1 DEF Unfiltered
<1>10. Selected(q.filter, c)
  BY <1>8, <1>9 DEF Selected
<1>11. p \in todo
  BY <1>4, <1>5, <1>10
<1> QED
  BY <1>1, <1>4, <1>5, <1>11 DEF AfterCall, ComesTo

LEMMA RouteComesTo ==
    ASSUME CallsCanBeTold, GongInv, Unfiltered, Route(Hourly), faults' = faults,
           NEW c \in Calls, ComesTo(run[Hourly], c)
    PROVE  ComesTo(run'[Hourly], c)
<1>1. PICK q, r : q = run[Hourly] /\ r = run'[Hourly]
  OBVIOUS
<1>2. q.pc = "route" /\ Hourly \in Instances /\ q \in Run
  BY <1>1, BoundsAssumption, RunFacts DEF Route, Sound
<1>3. q.draining = FALSE
  BY <1>1, <1>2, NotDraining
<1>4. PICK p, m : /\ p \in q.todo /\ LoadMapping(Hourly, m)
                  /\ Find(m, p.call) # 0 =>
                       r.draining = FALSE /\ r.todo = q.todo /\ r.pc \in {"call", "seed"}
  BY <1>1, <1>2, RouteGoes
<1>5. p.call \in Calls
  BY <1>2, <1>4 DEF Run, Item
<1>6. m \in Lists /\ \A k \in Customers : m[k] \in Routes[k]
  BY <1>4, LoadsPublished
<1>7. Find(m, p.call) # 0
  BY <1>5, <1>6 DEF CallsCanBeTold
<1> QED
  BY <1>1, <1>2, <1>3, <1>4, <1>7 DEF ComesTo

\* A call that is taken for a duplicate is in a doc.
LEMMA SkipComesTo ==
    ASSUME CallsCanBeTold, GongInv, SkipCall(Hourly), faults' = faults,
           NEW c \in Calls, c \notin InDocs, ComesTo(run[Hourly], c)
    PROVE  ComesTo(run'[Hourly], c)
<1>1. PICK q, r : q = run[Hourly] /\ r = run'[Hourly]
  OBVIOUS
<1>2. q.pc = "call" /\ Hourly \in Instances /\ q \in Run /\ RunInv(q, docs)
  BY <1>1, BoundsAssumption, RunFacts DEF SkipCall, Sound
<1>3. q.draining = FALSE
  BY <1>1, <1>2, NotDraining
<1>4. PICK p \in q.todo : IsDup(q, p.call) /\ AfterCall(q, q.todo \ {p}, r)
  BY <1>1, <1>2, SkipCallGoes
<1>5. PICK x, y : /\ x \in q.seen[q.cust] /\ y \in q.seen[q.cust] /\ Date[p.call] # 0
                  /\ IsPrefix(Title[p.call], Title[x[1]]) /\ Date[y[1]] = Date[p.call]
  BY <1>4 DEF IsDup
<1>6. q.cust \in Customers
  BY <1>2 DEF RunInv, Placing, AtCustomer
<1>7. p.call \in Calls /\ x[1] \in Calls /\ y[1] \in Calls
  BY <1>2, <1>4, <1>5, <1>6 DEF Run, Item, Marks
<1>8. p.call \in {x[1], y[1]}
  BY <1>5, <1>7 DEF CallsCanBeTold
<1>9. p.call \in TextOf(q.cust, docs)
  BY <1>2, <1>5, <1>6, <1>8 DEF RunInv, Grounded
<1>10. p.call \in InDocs
  BY <1>6, <1>9, DocsOfType DEF TextOf, InDocs
<1>11. \E o \in q.todo : o.call = c /\ o # p
  BY <1>1, <1>2, <1>3, <1>10 DEF ComesTo
<1> QED
  BY <1>1, <1>4, <1>11, AfterCallComesTo

LEMMA BufferComesTo ==
    ASSUME GongInv, Buffer(Hourly), faults' = faults,
           NEW c \in Calls, c \notin Buffered', ComesTo(run[Hourly], c)
    PROVE  ComesTo(run'[Hourly], c)
<1>1. PICK q, r : q = run[Hourly] /\ r = run'[Hourly]
  OBVIOUS
<1>2. q.pc = "call" /\ Hourly \in Instances /\ q \in Run
  BY <1>1, BoundsAssumption, RunFacts DEF Buffer, Sound
<1>3. q.draining = FALSE
  BY <1>1, <1>2, NotDraining
<1>4. PICK p \in q.todo : /\ Current(q, p) /\ Enqueue(q.cust, p.call)
                          /\ SameHand(q, r) /\ r.pc = "alert"
  BY <1>1, <1>2, BufferGoes
<1>5. PICK new : new = [at |-> ticket + 1, cust |-> q.cust, call |-> p.call]
  OBVIOUS
<1>6. new.call = p.call /\ new \in pending'
  BY <1>4, <1>5 DEF Enqueue
<1>7. p.call # c
  BY <1>6 DEF Buffered
<1>8. PICK o \in q.todo : o.call = c /\ o # p
  BY <1>1, <1>2, <1>3, <1>7 DEF ComesTo
<1>9. ~Current(q, o)
  BY <1>2, <1>4, <1>8, CurrentUnique
<1>10. o \in r.todo /\ ~Current(r, o)
  BY <1>4, <1>9 DEF SameHand, Current
<1> QED
  BY <1>1, <1>4, <1>8, <1>10 DEF ComesTo

LEMMA AlertComesTo ==
    ASSUME GongInv, Alert(Hourly), NEW c \in Calls, ComesTo(run[Hourly], c)
    PROVE  ComesTo(run'[Hourly], c)
<1>1. PICK q, r : q = run[Hourly] /\ r = run'[Hourly]
  OBVIOUS
<1>2. q.pc = "alert" /\ Hourly \in Instances
  BY <1>1, BoundsAssumption DEF Alert
<1>3. q.draining = FALSE
  BY <1>1, <1>2, NotDraining
<1>4. PICK p \in q.todo : Current(q, p) /\ AfterCall(q, q.todo \ {p}, r)
  BY <1>1, <1>2, AlertGoes
<1>5. \E o \in q.todo : o.call = c /\ o # p
  BY <1>1, <1>2, <1>3, <1>4 DEF ComesTo
<1> QED
  BY <1>1, <1>4, <1>5, AfterCallComesTo

\* As long as nothing fails a run that comes to a call goes on to come to it, until
\* the call is in a doc or in the buffer.
LEMMA WorkComesTo ==
    ASSUME CallsCanBeTold, GongInv, Unfiltered, Work(Hourly), faults' = faults,
           faults < Window, NEW c \in Calls, Hour[c] <= hour, hour - Hour[c] <= faults,
           ~Covered(c), ~Covered(c)', ComesTo(run[Hourly], c)
    PROVE  ComesTo(run'[Hourly], c)
<1>1. c \notin InDocs /\ c \notin InDocs' /\ c \notin Buffered'
  BY DEF Covered
<1>2. CASE Plan(Hourly) \/ ListItems(Hourly) \/ SkipUnreadable(Hourly)
             \/ StopPartition(Hourly) \/ Delete(Hourly)
  BY <1>2, DrainComesTo
<1>3. CASE Seed(Hourly) \/ Measure(Hourly) \/ Insert(Hourly)
  BY <1>1, <1>3, SeedComesTo, MeasureComesTo, InsertComesTo
<1>4. CASE InsertError(Hourly)
  BY <1>4, InsertErrorGoes, BoundsAssumption
<1>5. CASE FetchCalls(Hourly) \/ FetchDetails(Hourly) \/ Route(Hourly)
  BY <1>5, FetchCallsComesTo, DetailsComeTo, RouteComesTo
<1>6. CASE SkipCall(Hourly) \/ Buffer(Hourly) \/ Alert(Hourly)
  BY <1>1, <1>6, SkipComesTo, BufferComesTo, AlertComesTo
<1>7. CASE ReadSheet(Hourly) \/ ReadDates(Hourly) \/ WriteDates(Hourly)
  BY <1>7, DatesGo, BoundsAssumption DEF ComesTo
<1> QED
  BY <1>2, <1>3, <1>4, <1>5, <1>6, <1>7 DEF Work

\* A run begins with the drain, if something waits and the partitions can be listed.
LEMMA BeginGoes ==
    ASSUME GongInv, NEW i \in Instances, NEW filter, Begin(i, filter)
    PROVE  LET r == run'[i]
           IN  /\ r.filter = filter /\ r.seeded = {} /\ r.todo = {}
               /\ \/ r.pc = "plan" /\ r.draining
                  \/ r.pc = "fetch" /\ r.draining = FALSE
<1>1. PICK parts, begun : parts = {p.cust : p \in pending} /\ begun = [Idle EXCEPT !.filter = filter]
  OBVIOUS
<1>2. PICK r, t : /\ r = [begun EXCEPT !.pc = "fetch"]
                  /\ t = [begun EXCEPT !.pc = "plan", !.draining = TRUE, !.parts = parts]
  OBVIOUS
<1>3. /\ r.filter = filter /\ r.seeded = {} /\ r.todo = {} /\ r.pc = "fetch" /\ r.draining = FALSE
      /\ t.filter = filter /\ t.seeded = {} /\ t.todo = {} /\ t.pc = "plan" /\ t.draining
  BY <1>1, <1>2 DEF Idle
<1>4. Become(i, r) \/ Become(i, t)
  BY <1>1, <1>2 DEF Begin
<1>5. run'[i] = r \/ run'[i] = t
  BY <1>4, Became
<1> QED
  BY <1>3, <1>5

\* What the step of another instance leaves alone.
LEMMA OthersApart ==
    ASSUME GongInv, NEW i \in Instances, i # Hourly,
           Work(i) \/ Crash(i) \/ Expire(i) \/ \E k \in Customers : StartBackfill(i, k)
    PROVE  run'[Hourly] = run[Hourly] /\ mapCache'[Hourly] = mapCache[Hourly]
<1>1. Hourly \in Instances /\ mapCache \in [Instances -> MapEntry]
  BY BoundsAssumption DEF GongInv, TypeOK
<1>2. (\E r : Become(i, r)) => run'[Hourly] = run[Hourly]
  BY <1>1, Became
<1>3. CASE Work(i)
  <2>1. \E r : Become(i, r)
    BY <1>3, WorkSteps DEF Steps
  <2>2. CASE Plan(i) \/ Route(i)
    <3>1. PICK m : LoadMapping(i, m)
      BY <2>2 DEF Plan, Route
    <3>2. UNCHANGED mapCache \/ \E e : mapCache' = [mapCache EXCEPT ![i] = e]
      BY <3>1 DEF LoadMapping
    <3> QED
      BY <1>1, <1>2, <2>1, <3>2
  <2>3. CASE ~Plan(i) /\ ~Route(i)
    <3>1. UNCHANGED mapCache
      BY <1>3, <2>3
         DEF Work, Seed, ListItems, SkipUnreadable, StopPartition, Measure, Insert,
             InsertError, Delete, FetchCalls, FetchDetails, SkipCall, Buffer, Alert,
             ReadSheet, ReadDates, WriteDates
    <3> QED
      BY <1>2, <2>1, <3>1
  <2> QED
    BY <2>2, <2>3
<1>4. CASE Crash(i)
  BY <1>1, <1>2, <1>4 DEF Crash
<1>5. CASE Expire(i)
  BY <1>1, <1>5 DEF Expire
<1>6. CASE \E k \in Customers : StartBackfill(i, k)
  BY <1>2, <1>6 DEF StartBackfill, Begin
<1> QED
  BY <1>3, <1>4, <1>5, <1>6

LEMMA WorkUnfiltered ==
    ASSUME GongInv, Unfiltered, Work(Hourly)
    PROVE  Unfiltered'
<1>1. Hourly \in Instances
  BY BoundsAssumption
<1>2. PICK q, r : q = run[Hourly] /\ r = run'[Hourly] /\ q.filter = 0
  BY DEF Unfiltered
<1>3. Idle.filter = 0
  BY IdleHasNothing
<1>4. r.filter = 0
  <2>1. CASE Plan(Hourly)
    BY <1>1, <1>2, <2>1, PlanGoes DEF AfterPartition, SameTexts
  <2>2. CASE Seed(Hourly)
    BY <1>1, <1>2, <2>2, SeedGoes
  <2>3. CASE ListItems(Hourly) \/ SkipUnreadable(Hourly) \/ StopPartition(Hourly) \/ Delete(Hourly)
    <3>1. DrainGoes(q, r) \/ r = Idle
      BY <1>1, <1>2, <2>3, DrainSteps
    <3> QED
      BY <1>2, <1>3, <3>1 DEF DrainGoes, AfterItem, AfterPartition, SameTexts
  <2>4. CASE Measure(Hourly)
    BY <1>1, <1>2, <2>4, MeasureGoes DEF SameTexts
  <2>5. CASE Insert(Hourly)
    <3>1. PICK p, b : /\ Counted(q, p.call, b)
                      /\ IF q.draining THEN SameTexts(b, r) ELSE AfterCall(b, q.todo \ {p}, r)
      BY <1>1, <1>2, <2>5, InsertGoes
    <3> QED
      BY <1>2, <3>1 DEF Counted, AfterCall, SameTexts
  <2>6. CASE InsertError(Hourly)
    <3>1. PICK p : IF q.draining THEN AfterItem(q, q.todo \ {p}, r)
                   ELSE AfterCall(q, q.todo \ {p}, r)
      BY <1>1, <1>2, <2>6, InsertErrorGoes
    <3> QED
      BY <1>2, <3>1 DEF AfterItem, AfterPartition, AfterCall, SameTexts
  <2>7. CASE FetchCalls(Hourly)
    BY <1>2, <2>7, FetchCallsGoes DEF SameTexts
  <2>8. CASE FetchDetails(Hourly)
    BY <1>1, <1>2, <1>3, <2>8, FetchDetailsGoes DEF AfterCall, SameTexts
  <2>9. CASE Route(Hourly)
    BY <1>1, <1>2, <2>9, RouteGoes DEF AfterCall, SameTexts
  <2>10. CASE SkipCall(Hourly)
    BY <1>1, <1>2, <2>10, SkipCallGoes DEF AfterCall, SameTexts
  <2>11. CASE Buffer(Hourly)
    BY <1>1, <1>2, <2>11, BufferGoes DEF AfterCall, SameTexts
  <2>12. CASE Alert(Hourly)
    BY <1>1, <1>2, <2>12, AlertGoes DEF AfterCall, SameTexts
  <2>13. CASE ReadSheet(Hourly) \/ ReadDates(Hourly) \/ WriteDates(Hourly)
    BY <1>1, <1>2, <2>13, DatesGo
  <2> QED
    BY <2>1, <2>2, <2>3, <2>4, <2>5, <2>6, <2>7, <2>8, <2>9, <2>10, <2>11, <2>12, <2>13
       DEF Work
<1>5. CASE Plan(Hourly) \/ Route(Hourly)
  <2>1. PICK m : LoadMapping(Hourly, m)
    BY <1>5 DEF Plan, Route
  <2> QED
    BY <1>2, <1>4, <2>1, LoadsPublished DEF Unfiltered
<1>6. CASE ~Plan(Hourly) /\ ~Route(Hourly)
  <2>1. UNCHANGED mapCache
    BY <1>6 DEF Work, Seed, ListItems, SkipUnreadable, StopPartition, Measure, Insert,
                InsertError, Delete, FetchCalls, FetchDetails, SkipCall, Buffer, Alert,
                ReadSheet, ReadDates, WriteDates
  <2> QED
    BY <1>2, <1>4, <2>1 DEF Unfiltered
<1> QED
  BY <1>5, <1>6

LEMMA UnfilteredStep == GongInv /\ Unfiltered /\ [Next]_vars => Unfiltered'
<1> SUFFICES ASSUME GongInv, Unfiltered, [Next]_vars PROVE Unfiltered'
  OBVIOUS
<1>1. Hourly \in Instances /\ mapCache \in [Instances -> MapEntry]
  BY BoundsAssumption DEF GongInv, TypeOK
<1>2. CASE run'[Hourly] = run[Hourly] /\ mapCache'[Hourly] = mapCache[Hourly]
  BY <1>2 DEF Unfiltered
<1>3. CASE Work(Hourly)
  BY <1>3, WorkUnfiltered
<1>4. CASE StartHourly
  BY <1>1, <1>4, BeginGoes DEF StartHourly, Unfiltered
<1>5. CASE Crash(Hourly)
  <2>1. run'[Hourly].filter = 0
    BY <1>1, <1>5, Became, IdleHasNothing DEF Crash
  <2>2. mapCache'[Hourly].fresh = FALSE
    BY <1>1, <1>5 DEF Crash, Unloaded
  <2> QED
    BY <2>1, <2>2 DEF Unfiltered
<1>6. CASE Expire(Hourly)
  <2>1. mapCache'[Hourly].fresh = FALSE
    BY <1>1, <1>6 DEF Expire, MapEntry
  <2> QED
    BY <1>6, <2>1 DEF Expire, Unfiltered
<1>7. ASSUME NEW i \in Instances, i # Hourly,
             Work(i) \/ Crash(i) \/ Expire(i) \/ \E k \in Customers : StartBackfill(i, k)
      PROVE  Unfiltered'
  BY <1>2, <1>7, OthersApart
<1>8. CASE \/ Tick \/ MissTrigger \/ UNCHANGED vars
           \/ \E k \in Customers : \E list \in Routes[k] : EditList(k, list)
           \/ \E n \in 2..Len(rows) : MoveRow(n)
  BY <1>2, <1>8 DEF Tick, MissTrigger, EditList, MoveRow, vars
<1> QED
  BY <1>3, <1>4, <1>5, <1>6, <1>7, <1>8 DEF Next, StartBackfill

\* Failures add up, one a step.
LEMMA FaultsCount ==
    ASSUME GongInv, [Next]_vars
    PROVE  faults' = faults \/ faults' = faults + 1
<1>1. CASE faults' = faults \/ \E k : Fault(k)
  BY <1>1 DEF Fault
<1>2. CASE \E i \in Instances : Work(i)
  <2>1. PICK i \in Instances : Work(i)
    BY <1>2
  <2>2. CASE Plan(i) \/ Route(i)
    <3>1. \E m : LoadMapping(i, m)
      BY <2>2 DEF Plan, Route
    <3> QED
      BY <1>1, <3>1 DEF LoadMapping
  <2>3. CASE Seed(i) \/ ListItems(i) \/ SkipUnreadable(i) \/ StopPartition(i)
    BY <1>1, <2>3 DEF Seed, ListItems, SkipUnreadable, StopPartition
  <2>4. CASE Measure(i) \/ Insert(i) \/ InsertError(i) \/ Delete(i)
    BY <1>1, <2>4 DEF Measure, Insert, InsertError, Delete
  <2>5. CASE FetchCalls(i) \/ FetchDetails(i) \/ SkipCall(i) \/ Buffer(i) \/ Alert(i)
    BY <1>1, <2>5 DEF FetchCalls, FetchDetails, SkipCall, Buffer, Alert
  <2>6. CASE ReadSheet(i) \/ ReadDates(i) \/ WriteDates(i)
    BY <1>1, <2>6 DEF ReadSheet, ReadDates, WriteDates
  <2> QED
    BY <2>1, <2>2, <2>3, <2>4, <2>5, <2>6 DEF Work
<1>3. CASE ~ \E i \in Instances : Work(i)
  BY <1>1, <1>3 DEF Next, StartHourly, StartBackfill, Begin, Crash, Expire, Tick, MissTrigger,
                    EditList, MoveRow, vars
<1> QED
  BY <1>2, <1>3

\* What is in a doc or in the buffer stays in one of them.
LEMMA CoveredStays ==
    ASSUME GongInv, [Next]_vars, NEW c, Covered(c)
    PROVE  Covered(c)'
<1>1. (InDocs' = InDocs /\ Buffered' = Buffered) \/ Delivered!Next
  BY DeliveryStep
<1> QED
  BY <1>1 DEF Covered, Delivered!Next, Delivered!Write, Delivered!Queue, Delivered!Leave

\* The clock: what a step does to hour and due.
LEMMA ClockSteps ==
    ASSUME GongInv, [Next]_vars
    PROVE  Tick \/ StartHourly \/ MissTrigger \/ (hour' = hour /\ due' = due)
<1>1. CASE \E i \in Instances : Work(i)
  BY <1>1, WorkSheet DEF clock
<1>2. CASE ~ \E i \in Instances : Work(i)
  BY <1>2 DEF Next, StartBackfill, Crash, Expire, EditList, MoveRow, vars, clock
<1> QED
  BY <1>1, <1>2

\* A fault-free step under which the clock stands still.
LEMMA StillComesTo ==
    ASSUME CallsCanBeTold, GongInv, Unfiltered, [Next]_vars, faults' = faults,
           ~Tick, ~StartHourly, ~MissTrigger,
           faults < Window, NEW c \in Calls, Hour[c] <= hour, hour - Hour[c] <= faults,
           ~Covered(c), ~Covered(c)', ComesTo(run[Hourly], c)
    PROVE  ComesTo(run'[Hourly], c)
<1>1. CASE Work(Hourly)
  BY <1>1, WorkComesTo
<1>2. CASE run'[Hourly] = run[Hourly]
  BY <1>2
<1>3. ASSUME NEW i \in Instances, i # Hourly,
             Work(i) \/ \E k \in Customers : StartBackfill(i, k)
      PROVE  run'[Hourly] = run[Hourly]
  BY <1>3, OthersApart
<1>4. ASSUME NEW i \in Instances PROVE ~Crash(i)
  BY NoFault DEF Crash
<1>5. CASE \/ \E i \in Instances : Expire(i)
           \/ \E k \in Customers : \E list \in Routes[k] : EditList(k, list)
           \/ \E n \in 2..Len(rows) : MoveRow(n)
           \/ UNCHANGED vars
  BY <1>2, <1>5 DEF Expire, EditList, MoveRow, vars
<1> QED
  BY <1>1, <1>2, <1>3, <1>4, <1>5 DEF Next, StartBackfill

LEMMA MissesStep ==
    ASSUME CallsCanBeTold, GongInv, LookInv, [Next]_vars
    PROVE  MissesAreFaults'
<1> SUFFICES ASSUME faults' < Window, NEW c \in Calls, ~Covered(c)', Hour[c] <= hour'
             PROVE  Missed(c)' <= faults'
  BY DEF MissesAreFaults
<1>1. /\ hour \in Nat /\ hour <= MaxHour /\ MaxHour \in Nat /\ Hour[c] \in Nat
      /\ faults \in Nat /\ Window \in Nat /\ Hourly \in Instances /\ due \in BOOLEAN
  BY BoundsAssumption, CallsAssumption DEF GongInv, TypeOK
<1>2. ~Covered(c)
  BY CoveredStays
<1>3. faults < Window
  BY <1>1, FaultsCount
<1>4. Hour[c] <= hour => Missed(c) <= faults
  BY <1>2, <1>3 DEF LookInv, MissesAreFaults
<1>5. Missed(c) \in {hour - Hour[c], hour - Hour[c] + 1}
  BY DEF Missed
<1>6. Missed(c)' \in {hour' - Hour[c], hour' - Hour[c] + 1}
  BY DEF Missed
<1>7. (due' \/ ComesTo(run'[Hourly], c)) => Missed(c)' = hour' - Hour[c]
  BY DEF Missed
<1>8. ~(due \/ ComesTo(run[Hourly], c)) => Missed(c) = hour - Hour[c] + 1
  BY DEF Missed
<1>9. CASE Tick
  <2>1. /\ due' = TRUE /\ ~due /\ faults' = faults /\ run[Hourly].pc = "idle"
        /\ hour' = hour \/ hour' = hour + 1
    BY <1>9 DEF Tick
  <2>2. ~ComesTo(run[Hourly], c)
    BY <1>1, <2>1, NotDraining DEF ComesTo
  <2> QED
    BY <1>1, <1>4, <1>7, <1>8, <2>1, <2>2
<1>10. CASE faults' = faults + 1 /\ ~Tick
  <2>1. hour' = hour
    BY <1>10, ClockSteps DEF StartHourly, MissTrigger
  <2> QED
    BY <1>1, <1>4, <1>5, <1>6, <1>10, <2>1
<1>11. CASE StartHourly /\ faults' = faults
  <2>1. due /\ hour' = hour
    BY <1>11 DEF StartHourly
  <2>2. ComesTo(run'[Hourly], c)
    BY <1>1, <1>11, BeginGoes DEF StartHourly, ComesTo
  <2>3. Missed(c) = hour - Hour[c]
    BY <2>1 DEF Missed
  <2> QED
    BY <1>1, <1>4, <1>7, <1>11, <2>1, <2>2, <2>3
<1>12. CASE faults' = faults /\ ~Tick /\ ~StartHourly
  <2>1. ~MissTrigger
    BY <1>12, NoFault DEF MissTrigger
  <2>2. hour' = hour /\ due' = due
    BY <1>12, <2>1, ClockSteps
  <2>3. CASE due \/ ~ComesTo(run[Hourly], c)
    BY <1>1, <1>4, <1>5, <1>6, <1>7, <1>8, <1>12, <2>2, <2>3
  <2>4. CASE ComesTo(run[Hourly], c)
    <3>1. hour - Hour[c] <= faults /\ Hour[c] <= hour
      BY <1>1, <1>4, <1>5, <2>2
    <3>2. ComesTo(run'[Hourly], c)
      BY <1>2, <1>3, <1>12, <2>1, <2>4, <3>1, StillComesTo DEF LookInv
    <3> QED
      BY <1>7, <1>12, <2>2, <3>1, <3>2
  <2> QED
    BY <2>3, <2>4
<1> QED
  BY <1>9, <1>10, <1>11, <1>12, FaultsCount

LEMMA LookInit == Init => LookInv
<1> SUFFICES ASSUME Init PROVE LookInv
  OBVIOUS
<1>1. Hourly \in Instances /\ \A c \in Calls : Hour[c] \in Nat
  BY BoundsAssumption, CallsAssumption
<1>2. run[Hourly].filter = 0 /\ mapCache[Hourly].fresh = FALSE
  BY <1>1, IdleHasNothing DEF Init, Unloaded
<1>3. Unfiltered
  BY <1>2 DEF Unfiltered
<1>4. ASSUME NEW c \in Calls, Hour[c] <= hour
      PROVE  Missed(c) <= faults
  <2>1. hour = 0 /\ faults = 0 /\ due = TRUE
    BY DEF Init
  <2>2. Missed(c) = 0
    BY <1>1, <1>4, <2>1 DEF Missed
  <2> QED
    BY <2>1, <2>2
<1> QED
  BY <1>3, <1>4 DEF LookInv, MissesAreFaults

\* "the lookback slightly overlaps the cadence in case of a missed run": while fewer
\* hours than get_calls_since looks back on were lost to failures, every call is in a
\* doc or in the buffer when the last of its hours is over, however many backfills
\* interleave with the hourly runs and whatever the operator edits meanwhile.
THEOREM LookbackHolds ==
    ASSUME CallsCanBeTold
    PROVE  Spec => []LookbackCovers
<1>1. GongInv /\ LookInv => LookbackCovers
  <2> SUFFICES ASSUME GongInv, LookInv, faults < Window,
                      NEW c \in Calls, hour >= Hour[c] + Window, ~Covered(c)
               PROVE  FALSE
    BY DEF LookbackCovers, Covered
  <2>1. /\ hour \in Nat /\ Hour[c] \in Nat /\ faults \in Nat /\ Window \in Nat
    BY BoundsAssumption, CallsAssumption DEF GongInv, TypeOK
  <2>2. Missed(c) <= faults
    BY <2>1 DEF LookInv, MissesAreFaults
  <2>3. Missed(c) \in {hour - Hour[c], hour - Hour[c] + 1}
    BY DEF Missed
  <2> QED
    BY <2>1, <2>2, <2>3
<1>2. CallsCanBeTold
  OBVIOUS
<1>3. GongInv /\ LookInv /\ [Next]_vars => LookInv'
  BY <1>2, MissesStep, UnfilteredStep DEF LookInv
<1> QED
  BY <1>1, <1>3, GongCorrect, LookInit, PTL DEF Spec

-----------------------------------------------------------------------------
(* What an hourly run has read *)

\* The hourly runs follow one another in one container, and every doc can be read.
HourlyReads == Instances = {Hourly} /\ "read" \notin FaultKinds

\* The operator puts docs into a customer's list and takes none out.
ListsExtend == \A k \in Customers : ToSet(lists[k]) \subseteq ToSet(lists'[k])

\* The mapping that the runs have in memory.
Cache == mapCache[Hourly].lists

\* Run q may yet insert call c without the buffer: it is still to come to it.
Due(q, c) == q.draining \/ q.pc = "fetch" \/ \E p \in q.todo : p.call = c

\* The calls whose title and date are among the marks.
Told(marks) == {c \in Calls : MarksOf(c) \subseteq marks}

\* The text that run q has of customer k counts the bytes of x, and its calls as far as
\* the run is to come to them.
HasRead(q, k, x) ==
    /\ x.bytes <= q.bytes[k]
    /\ \A c \in x.text : Due(q, c) => c \in Told(q.seen[k])

\* The run works with lists of the mapping m, and once it has read a customer's docs
\* its text has what D says there is of that customer in any doc of the customer.
Knows(q, m, D) ==
    /\ q.draining /\ q.pc # "plan" => q.map = m
    /\ q.pc \in AtCustomer => q.route = m[q.cust]
    /\ q.pc \in AtCustomer \ {"seed"} => q.cust \in q.seeded
    /\ \A k \in q.seeded : \A d \in DocsOf(k) : HasRead(q, k, D[k][d])
    /\ q.pc = "seed" => \A n \in 1..q.nread : HasRead(q, q.cust, D[q.cust][q.route[n]])

\* What D says is in a customer's docs is in docs of the list L[k], and of the list that
\* the runs have in memory, if they have one.
Listed(D, L, m) ==
    \A k \in Customers : \A d \in DocsOf(k) :
        \/ D[k][d].text = {} /\ D[k][d].bytes = 0
        \/ d \in ToSet(L[k]) /\ (m[k] = <<>> \/ d \in ToSet(m[k]))

Behind(L, m) == \A k \in Customers : ToSet(m[k]) \subseteq ToSet(L[k])

Reads(q, m, L, D) == Knows(q, m, D) /\ Listed(D, L, m) /\ Behind(L, m)

\* D says no more than a reader of the docs finds.
Within(D) ==
    \A k \in Customers : \A d \in DocIds :
        /\ D[k][d].text \subseteq Told(Legible(docs[d].text))
        /\ D[k][d].bytes \in Nat /\ D[k][d].bytes <= docs[d].bytes

\* What the run is about to insert fits in its text of the customer.
Fits(q) ==
    q.pc = "insert" =>
        \A p \in q.todo : Current(q, p) => q.bytes[q.cust] + Size[p.call] <= Cap

\* What the run has of the mapping after it loaded it.
LEMMA LoadsCache ==
    ASSUME GongInv, NEW m, LoadMapping(Hourly, m)
    PROVE  /\ Cache' = m
           /\ Cache' = Cache \/ Cache' = lists
<1>1. Hourly \in Instances /\ mapCache \in [Instances -> MapEntry]
  BY BoundsAssumption DEF GongInv, TypeOK
<1>2. PICK entry : entry = [lists |-> lists, fresh |-> TRUE]
  OBVIOUS
<1>3. CASE mapCache' = [mapCache EXCEPT ![Hourly] = entry] /\ m = lists
  BY <1>1, <1>2, <1>3 DEF Cache
<1>4. CASE UNCHANGED mapCache /\ m = mapCache[Hourly].lists
  BY <1>4 DEF Cache
<1> QED
  BY <1>2, <1>3, <1>4 DEF LoadMapping

LEMMA ToldMore ==
    ASSUME NEW A, NEW B, A \subseteq B
    PROVE  Told(A) \subseteq Told(B)
  BY DEF Told

\* Another run with the same texts, and no more calls to come to.
LEMMA StillHasRead ==
    ASSUME NEW q, NEW r, NEW k, NEW x, HasRead(q, k, x),
           r.seen = q.seen, r.bytes = q.bytes, \A c : Due(r, c) => Due(q, c)
    PROVE  HasRead(r, k, x)
  BY DEF HasRead

\* All of x, whether or not the run is to come to it.
HasAll(q, k, x) == x.bytes <= q.bytes[k] /\ x.text \subseteq Told(q.seen[k])

LEMMA AfterPartitionKnows ==
    ASSUME NEW D, NEW m, NEW q, NEW r, AfterPartition(q, r), q.nread = 0, q.map = m,
           \A k \in q.seeded : \A d \in DocsOf(k) : HasAll(q, k, D[k][d])
    PROVE  Knows(r, m, D) /\ Fits(r)
<1>1. \A k \in r.seeded : \A d \in DocsOf(k) : HasRead(r, k, D[k][d])
  BY DEF AfterPartition, SameTexts, HasAll, HasRead
<1>2. r.nread = 0 /\ r.pc \in {"fetch", "seed"}
  BY DEF AfterPartition, SameTexts
<1> QED
  BY <1>1, <1>2 DEF AfterPartition, Knows, Fits, AtCustomer

\* A drain is to come to every call, as the look-backs after it may list it.
LEMMA DrainHasAll ==
    ASSUME NEW D, NEW m, NEW q, q.draining, Knows(q, m, D)
    PROVE  \A k \in q.seeded : \A d \in DocsOf(k) : HasAll(q, k, D[k][d])
  BY DEF Knows, HasRead, Due, HasAll

LEMMA AfterItemKnows ==
    ASSUME NEW D, NEW m, NEW q, NEW r, NEW rest, AfterItem(q, rest, r), q.nread = 0,
           q.draining, q.pc \in {"items", "drain", "insert", "delete"}, Knows(q, m, D)
    PROVE  Knows(r, m, D) /\ Fits(r)
<1>1. q.map = m /\ \A k \in q.seeded : \A d \in DocsOf(k) : HasAll(q, k, D[k][d])
  BY DrainHasAll DEF Knows
<1>2. CASE AfterPartition(q, r)
  BY <1>1, <1>2, AfterPartitionKnows
<1>3. CASE ~AfterPartition(q, r)
  <2>1. /\ SameTexts(q, r) /\ r.pc = "drain" /\ r.draining
        /\ r.map = q.map /\ r.cust = q.cust /\ r.route = q.route
    BY <1>3 DEF AfterItem
  <2>2. q.route = m[q.cust] /\ q.cust \in q.seeded
    BY DEF Knows, AtCustomer
  <2>3. \A k \in r.seeded : \A d \in DocsOf(k) : HasRead(r, k, D[k][d])
    BY <1>1, <2>1 DEF SameTexts, HasAll, HasRead
  <2> QED
    BY <1>1, <2>1, <2>2, <2>3 DEF Knows, Fits, SameTexts
<1> QED
  BY <1>2, <1>3

LEMMA AfterCallKnows ==
    ASSUME NEW D, NEW m, NEW q, NEW r, NEW rest, AfterCall(q, rest, r),
           \A k \in q.seeded : \A d \in DocsOf(k) : HasRead(q, k, D[k][d]),
           \A p \in rest : Due(q, p.call)
    PROVE  Knows(r, m, D) /\ Fits(r)
<1>1. r.pc \in {"route", "sheet"} /\ r.draining = FALSE /\ r.todo = rest
  BY DEF AfterCall
<1>2. \A c : Due(r, c) => Due(q, c)
  BY <1>1 DEF Due
<1>3. \A k \in r.seeded : \A d \in DocsOf(k) : HasRead(r, k, D[k][d])
  BY <1>2, StillHasRead DEF AfterCall, SameTexts
<1> QED
  BY <1>1, <1>3 DEF Knows, Fits, AtCustomer

\* The hourly run is one of a customer, or has none in hand.
LEMMA HourlyFacts ==
    ASSUME GongInv, NEW q, q = run[Hourly]
    PROVE  /\ Hourly \in Instances /\ q \in Run
           /\ q.pc # "seed" => q.nread = 0
           /\ q.pc = "seed" => q.nread \in Nat /\ q.nread < Len(q.route)
           /\ q.pc \in AtCustomer =>
                q.cust \in Customers /\ q.route \in Routes[q.cust] \ {<<>>}
<1>1. Hourly \in Instances
  BY BoundsAssumption
<1>2. q \in Run /\ RunInv(q, docs)
  BY <1>1, RunFacts DEF Sound
<1> QED
  BY <1>1, <1>2 DEF RunInv, Progress, Placing, Run

\* A step after which the run knows what it knew of D.
Keeps(D) ==
    /\ Knows(run'[Hourly], Cache', D) /\ Fits(run'[Hourly])
    /\ Cache' = Cache \/ Cache' = lists

LEMMA PlanKeeps ==
    ASSUME GongInv, NEW D, Reads(run[Hourly], Cache, lists, D), Plan(Hourly)
    PROVE  Keeps(D)
<1>1. PICK q, r : q = run[Hourly] /\ r = run'[Hourly]
  OBVIOUS
<1>2. q.pc = "plan"
  BY <1>1 DEF Plan
<1>3. q.nread = 0 /\ Hourly \in Instances
  BY <1>1, <1>2, HourlyFacts
<1>4. q.draining /\ \E m, t : /\ LoadMapping(Hourly, m) /\ SameTexts(q, t) /\ t.map = m
                              /\ AfterPartition(t, r)
  BY <1>1, <1>3, PlanGoes
<1>5. PICK m, t : /\ LoadMapping(Hourly, m) /\ SameTexts(q, t) /\ t.map = m
                  /\ AfterPartition(t, r)
  BY <1>4
<1>6. Cache' = m /\ (Cache' = Cache \/ Cache' = lists)
  BY <1>5, LoadsCache
<1>7. \A k \in q.seeded : \A d \in DocsOf(k) : HasAll(q, k, D[k][d])
  BY <1>1, <1>4, DrainHasAll DEF Reads
<1>8. t.nread = 0 /\ \A k \in t.seeded : \A d \in DocsOf(k) : HasAll(t, k, D[k][d])
  BY <1>3, <1>5, <1>7 DEF SameTexts, HasAll
<1>9. Knows(r, m, D) /\ Fits(r)
  BY <1>5, <1>8, AfterPartitionKnows
<1> QED
  BY <1>1, <1>6, <1>9 DEF Keeps

LEMMA IdleKnows ==
    ASSUME NEW m, NEW D, NEW q, q.seeded = {}, q.draining = FALSE,
           q.pc \notin AtCustomer
    PROVE  Knows(q, m, D) /\ Fits(q)
  BY DEF Knows, Fits, AtCustomer

LEMMA DrainKeeps ==
    ASSUME GongInv, NEW D, Reads(run[Hourly], Cache, lists, D),
           \/ ListItems(Hourly) \/ SkipUnreadable(Hourly)
           \/ StopPartition(Hourly) \/ Delete(Hourly)
    PROVE  Keeps(D)
<1>1. PICK q, r : q = run[Hourly] /\ r = run'[Hourly]
  OBVIOUS
<1>2. q.pc \in {"items", "drain", "delete"} /\ Cache' = Cache
  BY <1>1 DEF ListItems, SkipUnreadable, StopPartition, Delete, Cache
<1>3. q.nread = 0 /\ Hourly \in Instances
  BY <1>1, <1>2, HourlyFacts
<1>4. q.draining /\ (DrainGoes(q, r) \/ r = Idle)
  BY <1>1, <1>3, DrainSteps
<1>5. Knows(q, Cache, D)
  BY <1>1 DEF Reads
<1>6. Knows(r, Cache, D) /\ Fits(r)
  <2>1. CASE r = Idle
    BY <2>1, IdleHasNothing, IdleKnows DEF AtCustomer
  <2>2. CASE AfterPartition(q, r)
    <3>1. q.map = Cache /\ \A k \in q.seeded : \A d \in DocsOf(k) : HasAll(q, k, D[k][d])
      BY <1>2, <1>4, <1>5, DrainHasAll DEF Knows
    <3> QED
      BY <1>3, <2>2, <3>1, AfterPartitionKnows
  <2>3. ASSUME NEW rest, AfterItem(q, rest, r)
        PROVE  Knows(r, Cache, D) /\ Fits(r)
    BY <1>2, <1>3, <1>4, <1>5, <2>3, AfterItemKnows
  <2> QED
    BY <1>4, <2>1, <2>2, <2>3 DEF DrainGoes
<1> QED
  BY <1>1, <1>2, <1>6 DEF Keeps

LEMMA SeedKeeps ==
    ASSUME HourlyReads, GongInv, NEW D, Within(D),
           Reads(run[Hourly], Cache, lists, D), Seed(Hourly)
    PROVE  Keeps(D)
<1>1. PICK q, r : q = run[Hourly] /\ r = run'[Hourly]
  OBVIOUS
<1>2. q.pc = "seed" /\ Cache' = Cache
  BY <1>1 DEF Seed, Cache
<1>3. PICK k \in Customers : k = q.cust
  BY <1>1, <1>2, HourlyFacts DEF AtCustomer
<1>4. /\ Hourly \in Instances /\ q \in Run
      /\ q.nread \in Nat /\ q.nread < Len(q.route)
      /\ q.route \in Routes[k] /\ q.route # <<>>
  BY <1>1, <1>2, <1>3, HourlyFacts DEF AtCustomer
<1>5. PICK n \in Nat : n = q.nread + 1
  BY <1>4
<1>6. PICK doc : doc = docs[q.route[n]]
  OBVIOUS
<1>7. /\ q.route \in Seq(DocIds) /\ Len(q.route) \in Nat /\ n \in 1..Len(q.route)
      /\ q.route[n] \in DocIds
  BY <1>3, <1>4, <1>5, RouteDocs, DocsOfType
<1>8. /\ \A d \in DocIds : docs[d].bytes \in Nat
      /\ q.seen \in [Customers -> SUBSET Marks] /\ q.bytes \in [Customers -> Nat]
  BY <1>4 DEF GongInv, TypeOK, Doc, Run
<1>9. /\ r.draining = q.draining /\ r.map = q.map /\ r.cust = k /\ r.route = q.route
      /\ r.todo = q.todo /\ r.pc \in {"seed", "items", "call"}
      /\ n = Len(q.route) => r.pc # "seed" /\ r.seeded = q.seeded \cup {k}
      /\ n # Len(q.route) => r.pc = "seed" /\ r.nread = n /\ r.seeded = q.seeded
      /\ r.seen = [q.seen EXCEPT ![k] = @ \cup Legible(doc.text)]
      /\ r.bytes = [q.bytes EXCEPT ![k] = @ + doc.bytes]
  <2>1. "read" \notin FaultKinds
    BY DEF HourlyReads
  <2> QED
    BY <1>1, <1>3, <1>4, <1>5, <1>6, <2>1, SeedGoes
<1>10. /\ q.draining => q.map = Cache
       /\ q.route = Cache[k]
       /\ \A l \in q.seeded : \A d \in DocsOf(l) : HasRead(q, l, D[l][d])
       /\ \A o \in 1..q.nread : HasRead(q, k, D[k][q.route[o]])
  BY <1>1, <1>2, <1>3 DEF Reads, Knows, AtCustomer
<1>11. \A c : Due(r, c) => Due(q, c)
  BY <1>9 DEF Due
<1>12. \A l \in Customers : /\ q.seen[l] \subseteq r.seen[l] /\ q.bytes[l] <= r.bytes[l]
                            /\ q.bytes[l] \in Nat /\ r.bytes[l] \in Nat
  BY <1>6, <1>7, <1>8, <1>9
<1>13. ASSUME NEW l \in Customers, NEW d \in DocIds, HasRead(q, l, D[l][d])
       PROVE  HasRead(r, l, D[l][d])
  <2>1. D[l][d].bytes \in Nat
    BY DEF Within
  <2>2. Told(q.seen[l]) \subseteq Told(r.seen[l])
    BY <1>12, ToldMore
  <2> QED
    BY <1>11, <1>12, <1>13, <2>1, <2>2 DEF HasRead
<1>14. HasRead(r, k, D[k][q.route[n]])
  <2>1. Legible(doc.text) \subseteq r.seen[k] /\ doc.bytes <= r.bytes[k]
    BY <1>6, <1>7, <1>8, <1>9
  <2>2. /\ D[k][q.route[n]].text \subseteq Told(Legible(doc.text))
        /\ D[k][q.route[n]].bytes \in Nat /\ D[k][q.route[n]].bytes <= doc.bytes
    BY <1>6, <1>7 DEF Within
  <2>3. doc.bytes \in Nat /\ r.bytes[k] \in Nat
    BY <1>6, <1>7, <1>8, <1>12
  <2>4. Told(Legible(doc.text)) \subseteq Told(r.seen[k])
    BY <2>1, ToldMore
  <2> QED
    BY <2>1, <2>2, <2>3, <2>4 DEF HasRead
<1>15. ASSUME NEW o \in 1..n
       PROVE  HasRead(r, k, D[k][q.route[o]])
  <2>1. o = n \/ o \in 1..q.nread
    BY <1>4, <1>5
  <2>2. q.route[o] \in DocIds
    BY <1>7
  <2> QED
    BY <1>10, <1>13, <1>14, <2>1, <2>2
<1>16. ASSUME n = Len(q.route), NEW d \in DocsOf(k)
       PROVE  HasRead(r, k, D[k][d])
  <2>1. CASE D[k][d].text = {} /\ D[k][d].bytes = 0
    <3>1. r.bytes[k] \in Nat
      BY <1>12
    <3> QED
      BY <2>1, <3>1 DEF HasRead
  <2>2. CASE d \in ToSet(Cache[k])
    <3>1. PICK o \in 1..n : d = q.route[o]
      BY <1>7, <1>10, <1>16, <2>2 DEF ToSet
    <3> QED
      BY <1>15, <3>1
  <2>3. Cache[k] # <<>>
    BY <1>4, <1>10
  <2> QED
    BY <2>1, <2>2, <2>3 DEF Reads, Listed
<1>17. ASSUME NEW l \in r.seeded, NEW d \in DocsOf(l)
       PROVE  HasRead(r, l, D[l][d])
  <2>1. CASE l \in q.seeded
    <3>1. l \in Customers
      BY <1>4, <2>1 DEF Run
    <3>2. d \in DocIds
      BY <3>1, DocsOfType
    <3> QED
      BY <1>10, <1>13, <2>1, <3>1, <3>2
  <2>2. CASE l \notin q.seeded
    BY <1>9, <1>16, <2>2
  <2> QED
    BY <2>1, <2>2
<1>18. Knows(r, Cache, D)
  BY <1>9, <1>10, <1>15, <1>17 DEF Knows, AtCustomer
<1>19. Fits(r)
  BY <1>9 DEF Fits
<1> QED
  BY <1>1, <1>2, <1>18, <1>19 DEF Keeps

LEMMA MeasureKeeps ==
    ASSUME GongInv, NEW D, Reads(run[Hourly], Cache, lists, D), Measure(Hourly)
    PROVE  Keeps(D)
<1>1. PICK q, r : q = run[Hourly] /\ r = run'[Hourly]
  OBVIOUS
<1>2. Cache' = Cache
  BY DEF Measure, Cache
<1>3. Hourly \in Instances /\ q \in Run
  BY <1>1, HourlyFacts
<1>4. /\ SameTexts(q, r) /\ SameHand(q, r) /\ r.pc = "insert"
      /\ \E x \in q.todo : Writable(q, x) /\ ~IsFull(q, x.call)
  BY <1>1, <1>3, MeasureGoes
<1>5. PICK x \in q.todo : Writable(q, x) /\ ~IsFull(q, x.call)
  BY <1>4
<1>6. q.pc \in {"drain", "call"} /\ q.cust \in Customers /\ Current(q, x) /\ x \in Item
  BY <1>1, <1>3, <1>5, WritableFacts DEF Writable
<1>7. Knows(r, Cache, D)
  <2>1. \A c : Due(r, c) => Due(q, c)
    BY <1>4 DEF Due, SameHand
  <2>2. \A k \in r.seeded : \A d \in DocsOf(k) : HasRead(r, k, D[k][d])
    BY <1>1, <1>4, <2>1, StillHasRead DEF Reads, Knows, SameTexts
  <2> QED
    BY <1>1, <1>4, <1>6, <2>2 DEF Reads, Knows, AtCustomer, SameTexts, SameHand
<1>8. q.bytes[q.cust] + Size[x.call] <= Cap
  <2>1. q.bytes[q.cust] \in Nat /\ Size[x.call] \in Nat /\ Cap \in Nat
    BY <1>3, <1>6, CallsAssumption DEF Run, Item
  <2> QED
    BY <1>5, <2>1 DEF IsFull
<1>9. ASSUME NEW p \in r.todo, Current(r, p)
      PROVE  p = x
  BY <1>3, <1>4, <1>5, <1>6, <1>9, CurrentUnique DEF SameHand, Current
<1>10. Fits(r)
  BY <1>4, <1>8, <1>9 DEF Fits, SameTexts, SameHand
<1> QED
  BY <1>1, <1>2, <1>7, <1>10 DEF Keeps

\* A call that is not written, after which process_calls goes on with the rest.
LEMMA CallKeeps ==
    ASSUME NEW D, Reads(run[Hourly], Cache, lists, D),
           NEW rest, AfterCall(run[Hourly], rest, run'[Hourly]),
           rest \subseteq run[Hourly].todo, Cache' = Cache \/ Cache' = lists
    PROVE  Keeps(D)
<1>1. \A k \in run[Hourly].seeded : \A d \in DocsOf(k) : HasRead(run[Hourly], k, D[k][d])
  BY DEF Reads, Knows
<1>2. \A p \in rest : Due(run[Hourly], p.call)
  BY DEF Due
<1>3. Knows(run'[Hourly], Cache', D) /\ Fits(run'[Hourly])
  BY <1>1, <1>2, AfterCallKnows
<1> QED
  BY <1>3 DEF Keeps

\* An insertion that took effect is not counted in the text when its reply is lost.
LEMMA InsertErrorKeeps ==
    ASSUME GongInv, NEW D, Reads(run[Hourly], Cache, lists, D), InsertError(Hourly)
    PROVE  Keeps(D)
<1>1. PICK q, r : q = run[Hourly] /\ r = run'[Hourly]
  OBVIOUS
<1>2. q.pc = "insert" /\ Cache' = Cache
  BY <1>1 DEF InsertError, Cache
<1>3. q.nread = 0 /\ Hourly \in Instances
  BY <1>1, <1>2, HourlyFacts
<1>4. PICK rest \in SUBSET q.todo :
        IF q.draining THEN AfterItem(q, rest, r) ELSE AfterCall(q, rest, r)
  <2>1. PICK p \in q.todo : IF q.draining THEN AfterItem(q, q.todo \ {p}, r)
                            ELSE AfterCall(q, q.todo \ {p}, r)
    BY <1>1, <1>3, InsertErrorGoes
  <2>2. q.todo \ {p} \in SUBSET q.todo
    OBVIOUS
  <2> QED
    BY <2>1, <2>2
<1>5. CASE q.draining
  <2>1. Knows(r, Cache, D) /\ Fits(r)
    BY <1>1, <1>2, <1>3, <1>4, <1>5, AfterItemKnows DEF Reads
  <2> QED
    BY <1>1, <1>2, <2>1 DEF Keeps
<1>6. CASE ~q.draining
  BY <1>1, <1>2, <1>4, <1>6, CallKeeps
<1> QED
  BY <1>5, <1>6

LEMMA FetchKeeps ==
    ASSUME GongInv, NEW D, Reads(run[Hourly], Cache, lists, D),
           FetchCalls(Hourly) \/ FetchDetails(Hourly)
    PROVE  Keeps(D)
<1>1. PICK q, r : q = run[Hourly] /\ r = run'[Hourly]
  OBVIOUS
<1>2. Cache' = Cache /\ Hourly \in Instances
  BY BoundsAssumption DEF FetchCalls, FetchDetails, Cache
<1>3. CASE FetchCalls(Hourly)
  <2>1. /\ r.draining = FALSE /\ r.pc \in {"details", "sheet", "idle"}
        /\ SameTexts(q, r) \/ r.seeded = {}
    BY <1>1, <1>3, FetchCallsGoes
  <2>2. \A c : Due(q, c)
    BY <1>1, <1>3 DEF FetchCalls, Due
  <2>3. \A k \in r.seeded : \A d \in DocsOf(k) : HasRead(r, k, D[k][d])
    BY <1>1, <2>1, <2>2, StillHasRead DEF Reads, Knows, SameTexts
  <2>4. Knows(r, Cache, D) /\ Fits(r)
    BY <2>1, <2>3 DEF Knows, Fits, AtCustomer
  <2> QED
    BY <1>1, <1>2, <2>4 DEF Keeps
<1>4. CASE FetchDetails(Hourly)
  <2>1. CASE r = Idle
    <3>1. Knows(r, Cache, D) /\ Fits(r)
      BY <2>1, IdleHasNothing, IdleKnows DEF AtCustomer
    <3> QED
      BY <1>1, <1>2, <3>1 DEF Keeps
  <2>2. CASE \E rest \in SUBSET q.todo : AfterCall(q, rest, r)
    BY <1>1, <1>2, <2>2, CallKeeps
  <2>3. CASE /\ SameTexts(q, r) /\ r.todo \subseteq q.todo
             /\ r.pc = "details" /\ r.draining = FALSE
    <3>1. \A c : Due(r, c) => Due(q, c)
      BY <2>3 DEF Due
    <3>2. \A k \in r.seeded : \A d \in DocsOf(k) : HasRead(r, k, D[k][d])
      BY <1>1, <2>3, <3>1, StillHasRead DEF Reads, Knows, SameTexts
    <3>3. Knows(r, Cache, D) /\ Fits(r)
      BY <2>3, <3>2 DEF Knows, Fits, AtCustomer
    <3> QED
      BY <1>1, <1>2, <3>3 DEF Keeps
  <2> QED
    BY <1>1, <1>2, <1>4, <2>1, <2>2, <2>3, FetchDetailsGoes
<1> QED
  BY <1>3, <1>4

LEMMA RouteKeeps ==
    ASSUME GongInv, NEW D, Reads(run[Hourly], Cache, lists, D), Route(Hourly)
    PROVE  Keeps(D)
<1>1. PICK q, r : q = run[Hourly] /\ r = run'[Hourly]
  OBVIOUS
<1>2. q.pc = "route"
  BY <1>1 DEF Route
<1>3. q.nread = 0 /\ Hourly \in Instances
  BY <1>1, <1>2, HourlyFacts
<1>4. PICK p \in q.todo : \E m :
        /\ LoadMapping(Hourly, m)
        /\ \/ AfterCall(q, q.todo \ {p}, r)
           \/ /\ SameTexts(q, r) /\ r.draining = FALSE /\ r.todo = q.todo
              /\ r.route = m[r.cust]
              /\ r.pc = IF r.cust \in q.seeded THEN "call" ELSE "seed"
  BY <1>1, <1>3, RouteGoes
<1>5. PICK m :
        /\ LoadMapping(Hourly, m)
        /\ \/ AfterCall(q, q.todo \ {p}, r)
           \/ /\ SameTexts(q, r) /\ r.draining = FALSE /\ r.todo = q.todo
              /\ r.route = m[r.cust]
              /\ r.pc = IF r.cust \in q.seeded THEN "call" ELSE "seed"
  BY <1>4
<1>6. Cache' = m /\ (Cache' = Cache \/ Cache' = lists)
  BY <1>5, LoadsCache
<1>7. CASE AfterCall(q, q.todo \ {p}, r)
  <2>1. q.todo \ {p} \subseteq q.todo
    OBVIOUS
  <2> QED
    BY <1>1, <1>6, <1>7, <2>1, CallKeeps
<1>8. CASE /\ SameTexts(q, r) /\ r.draining = FALSE /\ r.todo = q.todo
           /\ r.route = m[r.cust]
           /\ r.pc = IF r.cust \in q.seeded THEN "call" ELSE "seed"
  <2>1. r.nread = 0 /\ r.seeded = q.seeded /\ r.pc \in {"call", "seed"}
    BY <1>3, <1>8 DEF SameTexts
  <2>2. \A c : Due(r, c) => Due(q, c)
    BY <1>8, <2>1 DEF Due
  <2>3. \A k \in r.seeded : \A d \in DocsOf(k) : HasRead(r, k, D[k][d])
    BY <1>1, <1>8, <2>2, StillHasRead DEF Reads, Knows, SameTexts
  <2>4. Knows(r, m, D)
    BY <1>8, <2>1, <2>3 DEF Knows
  <2>5. Fits(r)
    BY <2>1 DEF Fits
  <2> QED
    BY <1>1, <1>6, <2>4, <2>5 DEF Keeps
<1> QED
  BY <1>5, <1>7, <1>8

LEMMA PassedKeeps ==
    ASSUME GongInv, NEW D, Reads(run[Hourly], Cache, lists, D),
           SkipCall(Hourly) \/ Buffer(Hourly) \/ Alert(Hourly)
    PROVE  Keeps(D)
<1>1. PICK q, r : q = run[Hourly] /\ r = run'[Hourly]
  OBVIOUS
<1>2. Cache' = Cache /\ Hourly \in Instances
  BY BoundsAssumption DEF SkipCall, Buffer, Alert, Cache
<1>3. CASE \E rest \in SUBSET q.todo : AfterCall(q, rest, r)
  BY <1>1, <1>2, <1>3, CallKeeps
<1>4. ASSUME NEW p \in q.todo, AfterCall(q, q.todo \ {p}, r)
      PROVE  Keeps(D)
  <2>1. q.todo \ {p} \in SUBSET q.todo
    OBVIOUS
  <2> QED
    BY <1>3, <1>4, <2>1
<1>5. CASE /\ Buffer(Hourly) /\ SameTexts(q, r) /\ SameHand(q, r) /\ r.pc = "alert"
           /\ q.draining = FALSE
  <2>1. q.pc = "call"
    <3>1. PICK p \in q.todo : Writable(q, p)
      BY <1>1, <1>5 DEF Buffer
    <3> QED
      BY <1>1, <1>5 DEF Buffer
  <2>2. \A c : Due(r, c) => Due(q, c)
    BY <1>5 DEF Due, SameHand
  <2>3. \A k \in r.seeded : \A d \in DocsOf(k) : HasRead(r, k, D[k][d])
    BY <1>1, <1>5, <2>2, StillHasRead DEF Reads, Knows, SameTexts
  <2>4. Knows(r, Cache, D)
    BY <1>1, <1>5, <2>1, <2>3 DEF Reads, Knows, AtCustomer, SameTexts, SameHand
  <2>5. Fits(r)
    BY <1>5 DEF Fits
  <2> QED
    BY <1>1, <1>2, <2>4, <2>5 DEF Keeps
<1> QED
  BY <1>1, <1>2, <1>4, <1>5, SkipCallGoes, BufferGoes, AlertGoes

LEMMA DatesKeep ==
    ASSUME GongInv, NEW D, Reads(run[Hourly], Cache, lists, D),
           ReadSheet(Hourly) \/ ReadDates(Hourly) \/ WriteDates(Hourly)
    PROVE  Keeps(D)
<1>1. PICK q, r : q = run[Hourly] /\ r = run'[Hourly]
  OBVIOUS
<1>2. Cache' = Cache /\ Hourly \in Instances
  BY BoundsAssumption DEF ReadSheet, ReadDates, WriteDates, Cache
<1>3. /\ r.draining = FALSE /\ r.pc \in {"idle", "dates", "write"}
      /\ r.seeded = {} \/ (SameTexts(q, r) /\ r.todo = q.todo)
  BY <1>1, <1>2, DatesGo
<1>4. r.todo = q.todo => \A c : Due(r, c) => Due(q, c)
  BY <1>3 DEF Due
<1>5. \A k \in r.seeded : \A d \in DocsOf(k) : HasRead(r, k, D[k][d])
  BY <1>1, <1>3, <1>4, StillHasRead DEF Reads, Knows, SameTexts
<1>6. Knows(r, Cache, D) /\ Fits(r)
  BY <1>3, <1>5 DEF Knows, Fits, AtCustomer
<1> QED
  BY <1>1, <1>2, <1>6 DEF Keeps

\* The other steps: a run begins or is cut short, the cache ages, the operator edits.
LEMMA AroundReads ==
    ASSUME HourlyReads, GongInv, NEW D, Reads(run[Hourly], Cache, lists, D),
           Fits(run[Hourly]), [Next]_vars, ~Work(Hourly)
    PROVE  /\ docs' = docs
           /\ Knows(run'[Hourly], Cache', D) /\ Fits(run'[Hourly])
           /\ Cache' = Cache \/ Cache' = NoLists
<1>1. Hourly \in Instances /\ mapCache \in [Instances -> MapEntry]
  BY BoundsAssumption DEF GongInv, TypeOK
<1>2. Knows(run[Hourly], Cache, D) /\ Fits(run[Hourly])
  BY DEF Reads
<1>3. CASE StartHourly
  <2>1. docs' = docs /\ Cache' = Cache
    BY <1>3 DEF StartHourly, store, Cache
  <2>2. PICK r : r = run'[Hourly] /\ r.seeded = {} /\ r.pc \in {"plan", "fetch"}
    BY <1>1, <1>3, BeginGoes DEF StartHourly
  <2>3. r.pc = "plan" \/ r.draining = FALSE
    BY <1>1, <1>3, <2>2, BeginGoes DEF StartHourly
  <2>4. Knows(r, Cache, D) /\ Fits(r)
    BY <2>2, <2>3 DEF Knows, Fits, AtCustomer
  <2> QED
    BY <2>1, <2>2, <2>4
<1>4. CASE Crash(Hourly)
  <2>1. docs' = docs /\ run'[Hourly] = Idle
    BY <1>1, <1>4, Became DEF Crash, store
  <2>2. Cache' = NoLists
    BY <1>1, <1>4 DEF Crash, Cache, Unloaded
  <2> QED
    BY <2>1, <2>2, IdleHasNothing, IdleKnows DEF AtCustomer
<1>5. CASE Expire(Hourly)
  <2>1. docs' = docs /\ run' = run
    BY <1>5 DEF Expire, store
  <2>2. Cache' = Cache
    BY <1>1, <1>5 DEF Expire, Cache, MapEntry
  <2> QED
    BY <1>2, <2>1, <2>2
<1>6. CASE \/ Tick \/ MissTrigger \/ UNCHANGED vars
           \/ \E k \in Customers : \E list \in Routes[k] : EditList(k, list)
           \/ \E n \in 2..Len(rows) : MoveRow(n)
  <2>1. docs' = docs /\ run' = run /\ mapCache' = mapCache
    BY <1>6 DEF Tick, MissTrigger, EditList, MoveRow, vars, store
  <2> QED
    BY <1>2, <2>1 DEF Cache
<1>7. \A i \in Instances : i = Hourly
  BY DEF HourlyReads
<1> QED
  BY <1>3, <1>4, <1>5, <1>6, <1>7 DEF Next, StartBackfill

\* Whatever happens but an insertion, what the runs have read stays read.
LEMMA ReadsOn ==
    ASSUME HourlyReads, GongInv, NEW D, Within(D), Reads(run[Hourly], Cache, lists, D),
           Fits(run[Hourly]), [Next]_vars, [ListsExtend]_vars, ~Insert(Hourly)
    PROVE  Reads(run'[Hourly], Cache', lists', D) /\ Fits(run'[Hourly])
<1>1. \A k \in Customers : ToSet(lists[k]) \subseteq ToSet(lists'[k])
  BY DEF ListsExtend, vars, sheet
<1>2. \A k \in Customers : NoLists[k] = <<>> /\ ToSet(NoLists[k]) = {}
  BY DEF NoLists, ToSet
<1>3. CASE Work(Hourly)
  <2>1. lists' = lists
    BY <1>3, WorkSheet, BoundsAssumption
  <2>2. Keeps(D)
    BY <1>3, PlanKeeps, SeedKeeps, DrainKeeps, MeasureKeeps, InsertErrorKeeps, FetchKeeps,
       RouteKeeps, PassedKeeps, DatesKeep DEF Work
  <2>3. Listed(D, lists', Cache')
    BY <2>1, <2>2 DEF Keeps, Reads, Listed
  <2>4. Behind(lists', Cache')
    BY <2>1, <2>2 DEF Keeps, Reads, Behind
  <2> QED
    BY <2>2, <2>3, <2>4 DEF Keeps, Reads
<1>4. CASE ~Work(Hourly)
  <2>1. /\ Knows(run'[Hourly], Cache', D) /\ Fits(run'[Hourly])
        /\ Cache' = Cache \/ Cache' = NoLists
    BY <1>4, AroundReads
  <2>2. Listed(D, lists', Cache')
    BY <1>1, <1>2, <2>1 DEF Reads, Listed
  <2>3. Behind(lists', Cache')
    BY <1>1, <1>2, <2>1 DEF Reads, Behind
  <2> QED
    BY <2>1, <2>2, <2>3 DEF Reads
<1> QED
  BY <1>3, <1>4

\* E says no more of the docs of any customer than D, call c in doc d of customer k
\* excepted.
Grows(D, E, k, d, c) ==
    \A l \in Customers : \A e \in DocsOf(l) :
        /\ D[l][e].bytes \in Nat /\ E[l][e].bytes \in Nat
        /\ \/ E[l][e].text \subseteq D[l][e].text /\ E[l][e].bytes <= D[l][e].bytes
           \/ /\ l = k /\ e = d
              /\ E[l][e].text \subseteq D[l][e].text \cup {c}
              /\ E[l][e].bytes <= D[l][e].bytes + Size[c]

\* E says no more than D.
Less(E, D) ==
    \A l \in Customers : \A e \in DocsOf(l) :
        /\ D[l][e].bytes \in Nat /\ E[l][e].bytes \in Nat
        /\ E[l][e].text \subseteq D[l][e].text /\ E[l][e].bytes <= D[l][e].bytes

LEMMA ReadsLess ==
    ASSUME GongInv, NEW D, NEW E, Less(E, D), Reads(run[Hourly], Cache, lists, D)
    PROVE  Reads(run[Hourly], Cache, lists, E)
<1>1. PICK q : q = run[Hourly]
  OBVIOUS
<1>2. q \in Run
  BY <1>1, HourlyFacts
<1>3. ASSUME NEW k \in Customers, NEW d \in DocsOf(k), HasRead(q, k, D[k][d])
      PROVE  HasRead(q, k, E[k][d])
  <2>1. /\ D[k][d].bytes \in Nat /\ E[k][d].bytes \in Nat
        /\ E[k][d].text \subseteq D[k][d].text /\ E[k][d].bytes <= D[k][d].bytes
    BY DEF Less
  <2>2. q.bytes[k] \in Nat
    BY <1>2 DEF Run
  <2> QED
    BY <1>3, <2>1, <2>2 DEF HasRead
<1>4. \A k \in q.seeded : \A d \in DocsOf(k) : HasRead(q, k, E[k][d])
  BY <1>1, <1>2, <1>3 DEF Reads, Knows, Run
<1>5. ASSUME q.pc = "seed", NEW n \in 1..q.nread
      PROVE  HasRead(q, q.cust, E[q.cust][q.route[n]])
  <2>1. /\ q.cust \in Customers /\ q.route \in Routes[q.cust]
        /\ q.nread \in Nat /\ q.nread < Len(q.route)
    BY <1>1, <1>5, HourlyFacts DEF AtCustomer
  <2>2. q.route \in Seq(DocIds) /\ Len(q.route) \in Nat
    BY <2>1, RouteDocs, DocsOfType
  <2>3. q.route[n] \in ToSet(q.route)
    BY <2>1, <2>2 DEF ToSet
  <2>4. q.route[n] \in DocsOf(q.cust)
    BY <2>1, <2>3 DEF DocsOf
  <2> QED
    BY <1>1, <1>3, <1>5, <2>1, <2>4 DEF Reads, Knows
<1>6. Knows(q, Cache, E)
  BY <1>1, <1>4, <1>5 DEF Reads, Knows
<1>7. Listed(E, lists, Cache)
  <2>1. ASSUME NEW k \in Customers, NEW d \in DocsOf(k), D[k][d].text = {}, D[k][d].bytes = 0
        PROVE  E[k][d].text = {} /\ E[k][d].bytes = 0
    BY <2>1 DEF Less
  <2> QED
    BY <2>1 DEF Reads, Listed
<1> QED
  BY <1>1, <1>6, <1>7 DEF Reads

\* The calls that have a character in a text.
Present(text) == {text[s][1] : s \in DOMAIN text}

\* What the run inserts: call p of its customer, in the doc it has at the end of its list.
LEMMA InsertWrites ==
    ASSUME GongInv, run[Hourly].pc = "insert", NEW p \in run[Hourly].todo,
           Current(run[Hourly], p), Write(Target(run[Hourly]), run[Hourly].end, p.call)
    PROVE  LET q == run[Hourly]
               d == Target(q)
           IN  /\ q.cust \in Customers /\ d \in DocsOf(q.cust) /\ d \in DocIds
               /\ p.call \in Calls
               /\ q.end \in 0..Len(docs[d].text)
               /\ Present(docs'[d].text) \subseteq Present(docs[d].text) \cup {p.call}
               /\ docs'[d].bytes = docs[d].bytes + Size[p.call]
               /\ \A e \in DocIds \ {d} : docs'[e] = docs[e]
<1>1. PICK q, d, c, n : /\ q = run[Hourly] /\ d = Target(q) /\ c = p.call /\ n = q.end
  OBVIOUS
<1>2. /\ q.cust \in Customers /\ d \in DocsOf(q.cust) /\ d \in DocIds
      /\ n \in 0..Len(docs[d].text) /\ c \in Calls
  BY <1>1, InsertPosition, BoundsAssumption
<1>3. docs \in [DocIds -> Doc] /\ Write(d, n, c)
  BY <1>1 DEF GongInv, TypeOK
<1>4. /\ \A s \in DOMAIN docs'[d].text :
           \/ docs'[d].text[s][1] = c
           \/ \E j \in DOMAIN docs[d].text : docs'[d].text[s] = docs[d].text[j]
      /\ \A e \in DocIds \ {d} : docs'[e] = docs[e]
  BY <1>2, <1>3, WriteStep
<1>5. docs'[d].bytes = docs[d].bytes + Size[c]
  BY <1>2, <1>3 DEF Write
<1>6. Present(docs'[d].text) \subseteq Present(docs[d].text) \cup {c}
  BY <1>4 DEF Present
<1> QED
  BY <1>1, <1>2, <1>4, <1>5, <1>6

\* Where the run inserts is in the lists of its customer.
LEMMA TargetListed ==
    ASSUME GongInv, NEW D, Reads(run[Hourly], Cache, lists, D), run[Hourly].pc = "insert"
    PROVE  LET q == run[Hourly]
           IN  /\ Target(q) \in ToSet(Cache[q.cust])
               /\ Target(q) \in ToSet(lists[q.cust])
<1>1. PICK q : q = run[Hourly]
  OBVIOUS
<1>2. q.cust \in Customers /\ q.route # <<>> /\ q.route \in Seq(DocIds)
  BY <1>1, HourlyFacts, RouteDocs DEF AtCustomer
<1>3. q.route = Cache[q.cust]
  BY <1>1 DEF Reads, Knows, AtCustomer
<1>4. Target(q) \in ToSet(Cache[q.cust])
  BY <1>2, <1>3 DEF Target, Last, ToSet
<1> QED
  BY <1>1, <1>2, <1>4 DEF Reads, Behind

\* What an insertion may leave the docs with, so that the lists still tell of it.
LEMMA GrownListed ==
    ASSUME GongInv, NEW D, NEW E, NEW c, Reads(run[Hourly], Cache, lists, D),
           run[Hourly].pc = "insert",
           Grows(D, E, run[Hourly].cust, Target(run[Hourly]), c)
    PROVE  Listed(E, lists, Cache)
<1>1. PICK k, d : k = run[Hourly].cust /\ d = Target(run[Hourly])
  OBVIOUS
<1>2. d \in ToSet(Cache[k]) /\ d \in ToSet(lists[k])
  BY <1>1, TargetListed
<1>3. ASSUME NEW l \in Customers, NEW e \in DocsOf(l)
      PROVE  \/ E[l][e].text = {} /\ E[l][e].bytes = 0
             \/ e \in ToSet(lists[l]) /\ (Cache[l] = <<>> \/ e \in ToSet(Cache[l]))
  <2>1. CASE l = k /\ e = d
    BY <1>2, <2>1
  <2>2. CASE /\ D[l][e].bytes \in Nat /\ E[l][e].bytes \in Nat
             /\ E[l][e].text \subseteq D[l][e].text /\ E[l][e].bytes <= D[l][e].bytes
    <3>1. D[l][e].text = {} /\ D[l][e].bytes = 0 => E[l][e].text = {} /\ E[l][e].bytes = 0
      BY <2>2
    <3> QED
      BY <3>1 DEF Reads, Listed
  <2> QED
    BY <1>1, <2>1, <2>2 DEF Grows
<1> QED
  BY <1>3 DEF Listed

\* An insertion is counted in the text it was measured against.
LEMMA InsertReads ==
    ASSUME GongInv, NEW D, NEW E, Reads(run[Hourly], Cache, lists, D), Insert(Hourly),
           \A p \in run[Hourly].todo :
              Current(run[Hourly], p) =>
                Grows(D, E, run[Hourly].cust, Target(run[Hourly]), p.call)
    PROVE  Reads(run'[Hourly], Cache', lists', E) /\ Fits(run'[Hourly])
<1>1. PICK q, r : q = run[Hourly] /\ r = run'[Hourly]
  OBVIOUS
<1>2. q.pc = "insert" /\ Cache' = Cache /\ lists' = lists
  BY <1>1 DEF Insert, Cache, sheet
<1>3. Hourly \in Instances /\ q \in Run /\ q.nread = 0 /\ q.cust \in Customers
  BY <1>1, <1>2, HourlyFacts DEF AtCustomer
<1>4. PICK p \in q.todo : \E b \in Run :
        /\ Current(q, p) /\ Counted(q, p.call, b)
        /\ IF q.draining THEN SameTexts(b, r) /\ SameHand(b, r) /\ r.pc = "delete"
           ELSE AfterCall(b, q.todo \ {p}, r)
  BY <1>1, <1>3, InsertGoes
<1>5. PICK b \in Run :
        /\ Current(q, p) /\ Counted(q, p.call, b)
        /\ IF q.draining THEN SameTexts(b, r) /\ SameHand(b, r) /\ r.pc = "delete"
           ELSE AfterCall(b, q.todo \ {p}, r)
  BY <1>4
<1>6. PICK d, c, k : d = Target(q) /\ c = p.call /\ k = q.cust
  OBVIOUS
<1>7. Grows(D, E, k, d, c) /\ k \in Customers
  BY <1>1, <1>3, <1>5, <1>6
<1>8. /\ q.seen \in [Customers -> SUBSET Marks] /\ q.bytes \in [Customers -> Nat]
      /\ q.seeded \subseteq Customers /\ Size[c] \in Nat /\ c \in Calls
  BY <1>3, <1>6, CallsAssumption DEF Run, Item
<1>9. /\ q.draining => q.map = Cache
      /\ q.route = Cache[k] /\ k \in q.seeded
      /\ \A l \in q.seeded : \A e \in DocsOf(l) : HasRead(q, l, D[l][e])
  BY <1>1, <1>2, <1>6 DEF Reads, Knows, AtCustomer
<1>10. /\ b.seen = [q.seen EXCEPT ![k] = @ \cup MarksOf(c)]
       /\ b.bytes = [q.bytes EXCEPT ![k] = @ + Size[c]]
       /\ b.seeded = q.seeded /\ b.nread = 0 /\ b.pc = "insert" /\ SameHand(q, b)
  BY <1>2, <1>3, <1>5, <1>6 DEF Counted
<1>11. \A x : Due(b, x) => Due(q, x)
  BY <1>2, <1>10 DEF Due, SameHand
<1>12. ASSUME NEW l \in b.seeded, NEW e \in DocsOf(l)
       PROVE  HasRead(b, l, E[l][e])
  <2>1. l \in Customers /\ HasRead(q, l, D[l][e])
    BY <1>8, <1>9, <1>10, <1>12
  <2>2. /\ q.seen[l] \subseteq b.seen[l] /\ q.bytes[l] <= b.bytes[l]
        /\ q.bytes[l] \in Nat /\ b.bytes[l] \in Nat
        /\ l = k => /\ MarksOf(c) \subseteq b.seen[l]
                    /\ b.bytes[l] = q.bytes[l] + Size[c]
    BY <1>7, <1>8, <1>10, <2>1
  <2>3. /\ D[l][e].bytes \in Nat /\ E[l][e].bytes \in Nat
        /\ \/ E[l][e].text \subseteq D[l][e].text /\ E[l][e].bytes <= D[l][e].bytes
           \/ /\ l = k
              /\ E[l][e].text \subseteq D[l][e].text \cup {c}
              /\ E[l][e].bytes <= D[l][e].bytes + Size[c]
    BY <1>7, <1>12, <2>1 DEF Grows
  <2>4. E[l][e].bytes <= b.bytes[l]
    BY <1>8, <2>1, <2>2, <2>3 DEF HasRead
  <2>5. Told(q.seen[l]) \subseteq Told(b.seen[l]) /\ (l = k => c \in Told(b.seen[l]))
    BY <1>8, <2>2, ToldMore DEF Told
  <2>6. \A x \in E[l][e].text : Due(b, x) => x \in Told(b.seen[l])
    BY <1>11, <2>1, <2>3, <2>5 DEF HasRead
  <2> QED
    BY <2>4, <2>6 DEF HasRead
<1>13. Knows(r, Cache, E) /\ Fits(r)
  <2>1. CASE q.draining
    <3>1. \A x : Due(r, x) => Due(b, x)
      BY <1>10, <2>1 DEF Due, SameHand
    <3>2. \A l \in r.seeded : \A e \in DocsOf(l) : HasRead(r, l, E[l][e])
      BY <1>5, <1>12, <2>1, <3>1, StillHasRead DEF SameTexts
    <3>3. Knows(r, Cache, E)
      BY <1>5, <1>6, <1>9, <1>10, <2>1, <3>2 DEF Knows, SameTexts, SameHand
    <3> QED
      BY <1>5, <2>1, <3>3 DEF Fits
  <2>2. CASE ~q.draining
    <3>1. \A o \in q.todo \ {p} : Due(b, o.call)
      BY <1>10 DEF Due, SameHand
    <3> QED
      BY <1>5, <1>12, <2>2, <3>1, AfterCallKnows
  <2> QED
    BY <2>1, <2>2
<1>14. Listed(E, lists, Cache)
  BY <1>1, <1>2, <1>6, <1>7, GrownListed
<1> QED
  BY <1>1, <1>2, <1>13, <1>14 DEF Reads

-----------------------------------------------------------------------------
(* Runs that follow one another take no doc past the cap *)

\* Besides, no insertion takes effect whose reply is lost, and no doc belongs to two
\* customers.
HourlyAlone ==
    /\ HourlyReads
    /\ "appendReply" \notin FaultKinds
    /\ \A k, l \in Customers : k # l => DocsOf(k) \cap DocsOf(l) = {}

\* What there is to be measured in the docs.
Sizes == [k \in Customers |-> [d \in DocIds |-> [text |-> {}, bytes |-> docs[d].bytes]]]

CapInv ==
    /\ Reads(run[Hourly], Cache, lists, Sizes) /\ Fits(run[Hourly])
    /\ CapRespected

\* Only an insertion has an effect on the docs.
LEMMA DocsStay ==
    ASSUME HourlyReads, GongInv, [Next]_vars, ~Insert(Hourly), ~InsertError(Hourly)
    PROVE  docs' = docs
<1>1. \A i \in Instances : i = Hourly
  BY DEF HourlyReads
<1>2. CASE Work(Hourly)
  BY <1>2 DEF Work, Plan, Seed, ListItems, SkipUnreadable, StopPartition, Measure, Delete,
              FetchCalls, FetchDetails, Route, SkipCall, Buffer, Alert, ReadSheet, ReadDates,
              WriteDates, store
<1>3. CASE ~Work(Hourly)
  BY <1>1, <1>3 DEF Next, StartHourly, StartBackfill, Crash, Expire, Tick, MissTrigger,
                    EditList, MoveRow, vars, store
<1> QED
  BY <1>2, <1>3

LEMMA SizesFacts ==
    ASSUME GongInv
    PROVE  /\ Within(Sizes)
           /\ \A k \in Customers, d \in DocIds :
                /\ Sizes[k][d].text = {} /\ Sizes[k][d].bytes = docs[d].bytes
                /\ Sizes[k][d].bytes \in Nat
<1>1. \A d \in DocIds : docs[d].bytes \in Nat
  BY DEF GongInv, TypeOK, Doc
<1> QED
  BY <1>1 DEF Sizes, Within

LEMMA InsertCap ==
    ASSUME HourlyAlone, GongInv, CapInv, Insert(Hourly)
    PROVE  CapInv'
<1>1. PICK q, D, E : q = run[Hourly] /\ D = Sizes /\ E = Sizes'
  OBVIOUS
<1>2. q.pc = "insert" /\ Hourly \in Instances
  BY <1>1, BoundsAssumption DEF Insert
<1>3. PICK p \in q.todo : Current(q, p) /\ Write(Target(q), q.end, p.call)
  BY <1>1, <1>2, InsertGoes
<1>4. PICK d, c, k : d = Target(q) /\ c = p.call /\ k = q.cust
  OBVIOUS
<1>5. /\ k \in Customers /\ d \in DocsOf(k) /\ d \in DocIds /\ c \in Calls
      /\ docs'[d].bytes = docs[d].bytes + Size[c]
      /\ \A e \in DocIds \ {d} : docs'[e] = docs[e]
  BY <1>1, <1>2, <1>3, <1>4, InsertWrites
<1>6. Size[c] \in Nat /\ \A e \in DocIds : docs[e].bytes \in Nat
  BY <1>5, CallsAssumption DEF GongInv, TypeOK, Doc
<1>7. /\ \A l \in Customers, e \in DocIds : D[l][e].text = {} /\ D[l][e].bytes = docs[e].bytes
      /\ \A l \in Customers, e \in DocIds : E[l][e].text = {} /\ E[l][e].bytes = docs'[e].bytes
  BY <1>1 DEF Sizes
<1>8. Grows(D, E, k, d, c)
  <2>1. ASSUME NEW l \in Customers, NEW e \in DocsOf(l)
        PROVE  /\ e \in DocIds /\ docs[e].bytes \in Nat /\ docs'[e].bytes \in Nat
               /\ \/ docs'[e].bytes <= docs[e].bytes
                  \/ l = k /\ e = d /\ docs'[e].bytes <= docs[e].bytes + Size[c]
    <3>1. e \in DocIds
      BY DocsOfType
    <3>2. CASE e = d
      <4>1. l = k
        BY <1>5, <2>1, <3>2 DEF HourlyAlone
      <4> QED
        BY <1>5, <1>6, <3>2, <4>1
    <3>3. CASE e # d
      BY <1>5, <1>6, <3>1, <3>3
    <3> QED
      BY <3>1, <3>2, <3>3
  <2>2. ASSUME NEW l \in Customers, NEW e \in DocsOf(l)
        PROVE  /\ D[l][e].text = {} /\ D[l][e].bytes = docs[e].bytes
               /\ E[l][e].text = {} /\ E[l][e].bytes = docs'[e].bytes
    BY <1>7, <2>1
  <2>3. ASSUME NEW l \in Customers, NEW e \in DocsOf(l)
        PROVE  /\ D[l][e].bytes \in Nat /\ E[l][e].bytes \in Nat
               /\ \/ E[l][e].text \subseteq D[l][e].text /\ E[l][e].bytes <= D[l][e].bytes
                  \/ /\ l = k /\ e = d
                     /\ E[l][e].text \subseteq D[l][e].text \cup {c}
                     /\ E[l][e].bytes <= D[l][e].bytes + Size[c]
    <3>1. D[l][e].bytes = docs[e].bytes /\ E[l][e].bytes = docs'[e].bytes
      BY <2>2
    <3>2. E[l][e].text = {}
      BY <2>2
    <3> QED
      BY <2>1, <3>1, <3>2
  <2> QED
    BY <2>3 DEF Grows
<1>9. ASSUME NEW o \in q.todo, Current(q, o)
      PROVE  o = p
  <2>1. q \in Run
    BY <1>1, HourlyFacts
  <2> QED
    BY <1>3, <1>9, <2>1, CurrentUnique
<1>10. Reads(run'[Hourly], Cache', lists', E) /\ Fits(run'[Hourly])
  BY <1>1, <1>4, <1>8, <1>9, InsertReads DEF CapInv
<1>11. CapRespected'
  <2>1. docs[d].bytes <= q.bytes[k]
    <3>1. k \in q.seeded
      BY <1>1, <1>2, <1>4 DEF CapInv, Reads, Knows, AtCustomer
    <3>2. HasRead(q, k, D[k][d])
      BY <1>1, <1>5, <3>1 DEF CapInv, Reads, Knows
    <3>3. D[k][d].bytes <= q.bytes[k]
      BY <3>2 DEF HasRead
    <3>4. D[k][d].bytes = docs[d].bytes
      BY <1>5, <1>7
    <3> QED
      BY <3>3, <3>4
  <2>2. q.bytes[k] + Size[c] <= Cap
    BY <1>1, <1>2, <1>3, <1>4 DEF CapInv, Fits
  <2>3. docs[d].bytes \in Nat /\ q.bytes[k] \in Nat /\ Cap \in Nat
    <3>1. q \in Run
      BY <1>1, HourlyFacts
    <3> QED
      BY <1>5, <1>6, <3>1, CallsAssumption DEF Run
  <2>4. docs'[d].bytes <= Cap
    BY <1>5, <1>6, <2>1, <2>2, <2>3
  <2> QED
    BY <1>5, <2>4 DEF CapInv, CapRespected
<1> QED
  BY <1>1, <1>10, <1>11 DEF CapInv

LEMMA CapInit == Init => CapInv
<1> SUFFICES ASSUME Init PROVE CapInv
  OBVIOUS
<1>1. Hourly \in Instances /\ Cap \in Nat
  BY BoundsAssumption, CallsAssumption
<1>2. run[Hourly] = Idle /\ Cache = NoLists
  BY <1>1 DEF Init, Cache, Unloaded
<1>3. PICK D : D = Sizes
  OBVIOUS
<1>4. Knows(run[Hourly], Cache, D) /\ Fits(run[Hourly])
  BY <1>2, IdleHasNothing, IdleKnows DEF AtCustomer
<1>5. \A d \in DocIds : docs[d].bytes = 0
  BY DEF Init
<1>6. Listed(D, lists, Cache)
  BY <1>3, <1>5, DocsOfType DEF Listed, Sizes
<1>7. Behind(lists, Cache)
  BY <1>2 DEF Behind, NoLists, ToSet
<1>8. CapRespected
  BY <1>1, <1>5 DEF CapRespected
<1> QED
  BY <1>3, <1>4, <1>6, <1>7, <1>8 DEF CapInv, Reads

LEMMA CapStep ==
    HourlyAlone /\ GongInv /\ CapInv /\ [Next]_vars /\ [ListsExtend]_vars => CapInv'
<1> SUFFICES ASSUME HourlyAlone, GongInv, CapInv, [Next]_vars, [ListsExtend]_vars
             PROVE  CapInv'
  OBVIOUS
<1>1. CASE ~Insert(Hourly)
  <2>1. docs' = docs
    BY <1>1, DocsStay, InsertErrorGoes, BoundsAssumption DEF HourlyAlone
  <2>2. PICK D : D = Sizes
    OBVIOUS
  <2>3. Sizes' = D
    BY <2>1, <2>2 DEF Sizes
  <2>4. Reads(run'[Hourly], Cache', lists', D) /\ Fits(run'[Hourly])
    BY <1>1, <2>2, SizesFacts, ReadsOn DEF HourlyAlone, CapInv
  <2> QED
    BY <2>1, <2>3, <2>4 DEF CapInv, CapRespected
<1> QED
  BY <1>1, InsertCap

\* Hourly runs that follow one another in one container take no doc past DOC_CAP_BYTES,
\* however they fail, are cut short or find the lists grown: the text that drain and
\* process_calls share (src/gong-sync/main.py) counts every doc of the customer that is
\* not empty, and the cap test of append_to_doc holds against it for the tail doc too.
THEOREM HourlyCap ==
    ASSUME HourlyAlone
    PROVE  Spec /\ [][ListsExtend]_vars => []CapRespected
<1>1. CapInv => CapRespected
  BY DEF CapInv
<1>2. HourlyAlone
  OBVIOUS
<1>3. GongInv /\ CapInv /\ [Next]_vars /\ [ListsExtend]_vars => CapInv'
  BY <1>2, CapStep
<1> QED
  BY <1>1, <1>3, GongCorrect, CapInit, PTL DEF Spec

-----------------------------------------------------------------------------
(* Runs that follow one another append *)

\* Every block in a doc stands there whole, and the index the run is about to insert at
\* is still the end of the doc.
WholeInv ==
    /\ \A d \in DocIds : Whole(docs[d].text, Chars)
    /\ run[Hourly].pc = "insert" =>
         run[Hourly].end = Len(docs[Target(run[Hourly])].text)

LEMMA WriteAppends ==
    ASSUME GongInv, WholeInv, run[Hourly].pc = "insert", NEW p \in run[Hourly].todo,
           Current(run[Hourly], p), Write(Target(run[Hourly]), run[Hourly].end, p.call)
    PROVE  \E d \in DocIds, c \in Calls :
              /\ d = Target(run[Hourly]) /\ c = p.call
              /\ Appends(docs[d].text, docs'[d].text, c, Chars[c])
              /\ Whole(docs'[d].text, Chars)
              /\ \A e \in DocIds \ {d} : docs'[e] = docs[e]
<1>1. PICK d, c, k : d = Target(run[Hourly]) /\ c = p.call /\ k = run[Hourly].end
  OBVIOUS
<1>2. /\ d \in DocIds /\ c \in Calls /\ k \in 0..Len(docs[d].text) /\ Write(d, k, c)
      /\ docs \in [DocIds -> Doc]
  BY <1>1, InsertWrites DEF GongInv, TypeOK
<1>3. /\ docs'[d].text = Spliced(docs[d].text, k, Block(c, Chars[c]))
      /\ \A e \in DocIds \ {d} : docs'[e] = docs[e]
  BY <1>2, WriteStep
<1>4. PICK text, t, C : text = docs[d].text /\ t = docs'[d].text /\ C = Calls \X Nat
  OBVIOUS
<1>5. PICK n \in Nat : n = Chars[c]
  BY <1>2, CallsAssumption
<1>6. text \in Seq(C) /\ Block(c, n) \in Seq(C)
  BY <1>2, <1>4, BlockType DEF Doc
<1>7. t = Spliced(text, Len(text), Block(c, n))
  BY <1>1, <1>3, <1>4, <1>5 DEF WholeInv
<1>8. Appends(text, t, c, n)
  BY <1>6, <1>7, AppendedPositions
<1>9. Whole(text, Chars)
  BY <1>2, <1>4 DEF WholeInv
<1>10. Whole(t, Chars)
  BY <1>5, <1>6, <1>7, <1>9, AppendedWhole
<1> QED
  BY <1>1, <1>2, <1>3, <1>4, <1>5, <1>8, <1>10

\* Only append_to_doc's first call makes the run about to insert.
LEMMA OnlyMeasure ==
    ASSUME GongInv, Work(Hourly), ~Measure(Hourly)
    PROVE  run'[Hourly].pc # "insert"
<1>1. PICK q, r : q = run[Hourly] /\ r = run'[Hourly]
  OBVIOUS
<1>2. Hourly \in Instances
  BY BoundsAssumption
<1>3. ASSUME NEW b, AfterPartition(b, r) PROVE r.pc # "insert"
  BY <1>3 DEF AfterPartition
<1>4. ASSUME NEW b, NEW rest, AfterItem(b, rest, r) PROVE r.pc # "insert"
  BY <1>3, <1>4 DEF AfterItem
<1>5. ASSUME NEW b, NEW rest, AfterCall(b, rest, r) PROVE r.pc # "insert"
  BY <1>5 DEF AfterCall
<1>6. CASE Plan(Hourly)
  BY <1>1, <1>2, <1>3, <1>6, PlanGoes
<1>7. CASE Seed(Hourly)
  BY <1>1, <1>2, <1>7, SeedGoes
<1>8. CASE ListItems(Hourly) \/ SkipUnreadable(Hourly) \/ StopPartition(Hourly) \/ Delete(Hourly)
  <2>1. DrainGoes(q, r) \/ r = Idle
    BY <1>1, <1>2, <1>8, DrainSteps
  <2> QED
    BY <1>1, <1>3, <1>4, <2>1, IdleHasNothing DEF DrainGoes
<1>9. CASE Insert(Hourly)
  <2>1. PICK p, b : IF q.draining THEN r.pc = "delete" ELSE AfterCall(b, q.todo \ {p}, r)
    BY <1>1, <1>2, <1>9, InsertGoes
  <2> QED
    BY <1>1, <1>5, <2>1
<1>10. CASE InsertError(Hourly)
  <2>1. PICK p : IF q.draining THEN AfterItem(q, q.todo \ {p}, r)
                 ELSE AfterCall(q, q.todo \ {p}, r)
    BY <1>1, <1>2, <1>10, InsertErrorGoes
  <2> QED
    BY <1>1, <1>4, <1>5, <2>1
<1>11. CASE FetchCalls(Hourly)
  BY <1>1, <1>11, FetchCallsGoes
<1>12. CASE FetchDetails(Hourly)
  BY <1>1, <1>2, <1>5, <1>12, FetchDetailsGoes, IdleHasNothing
<1>13. CASE Route(Hourly)
  BY <1>1, <1>2, <1>5, <1>13, RouteGoes
<1>14. CASE SkipCall(Hourly) \/ Buffer(Hourly) \/ Alert(Hourly)
  BY <1>1, <1>2, <1>5, <1>14, SkipCallGoes, BufferGoes, AlertGoes
<1>15. CASE ReadSheet(Hourly) \/ ReadDates(Hourly) \/ WriteDates(Hourly)
  BY <1>1, <1>2, <1>15, DatesGo
<1> QED
  BY <1>6, <1>7, <1>8, <1>9, <1>10, <1>11, <1>12, <1>13, <1>14, <1>15 DEF Work

LEMMA MeasureWhole ==
    ASSUME GongInv, WholeInv, Measure(Hourly)
    PROVE  WholeInv'
<1>1. PICK q \in Run : q = run[Hourly]
  BY HourlyFacts
<1>2. PICK n : n = Len(docs[Target(q)].text)
  OBVIOUS
<1>3. PICK r : r = [q EXCEPT !.pc = "insert", !.end = n]
  OBVIOUS
<1>4. r.end = n /\ r.route = q.route
  BY <1>3 DEF Run
<1>5. run'[Hourly] = r
  BY <1>1, <1>2, <1>3, Became, BoundsAssumption DEF Measure
<1>6. docs' = docs
  BY DEF Measure, store
<1> QED
  BY <1>1, <1>2, <1>4, <1>5, <1>6 DEF WholeInv, Target

LEMMA WholeInit == Init => WholeInv
<1> SUFFICES ASSUME Init PROVE WholeInv
  OBVIOUS
<1>1. \A d \in DocIds : DOMAIN docs[d].text = {}
  BY DEF Init
<1>2. run[Hourly].pc = "idle"
  BY BoundsAssumption, IdleHasNothing DEF Init
<1> QED
  BY <1>1, <1>2 DEF WholeInv, Whole

LEMMA WholeStep ==
    HourlyReads /\ GongInv /\ WholeInv /\ [Next]_vars => WholeInv'
<1> SUFFICES ASSUME HourlyReads, GongInv, WholeInv, [Next]_vars PROVE WholeInv'
  OBVIOUS
<1>1. Hourly \in Instances /\ \A i \in Instances : i = Hourly
  BY BoundsAssumption DEF HourlyReads
<1>2. CASE Insert(Hourly) \/ InsertError(Hourly)
  <2>1. /\ run[Hourly].pc = "insert"
        /\ \E p \in run[Hourly].todo :
             /\ Current(run[Hourly], p)
             /\ docs' = docs \/ Write(Target(run[Hourly]), run[Hourly].end, p.call)
    BY <1>1, <1>2, InsertGoes, InsertErrorGoes DEF Insert, InsertError
  <2>2. run'[Hourly].pc # "insert"
    BY <1>2, OnlyMeasure DEF Work, Measure, Insert, InsertError, Writable
  <2>3. \A d \in DocIds : Whole(docs'[d].text, Chars)
    <3>1. CASE docs' = docs
      BY <3>1 DEF WholeInv
    <3>2. CASE docs' # docs
      <4>1. PICK d \in DocIds : /\ Whole(docs'[d].text, Chars)
                                /\ \A e \in DocIds \ {d} : docs'[e] = docs[e]
        BY <2>1, <3>2, WriteAppends
      <4> QED
        BY <4>1 DEF WholeInv
    <3> QED
      BY <3>1, <3>2
  <2> QED
    BY <2>2, <2>3 DEF WholeInv
<1>3. CASE Measure(Hourly)
  BY <1>3, MeasureWhole
<1>4. CASE Work(Hourly) /\ ~Measure(Hourly) /\ ~Insert(Hourly) /\ ~InsertError(Hourly)
  BY <1>4, DocsStay, OnlyMeasure DEF WholeInv
<1>5. CASE ~Work(Hourly)
  <2>1. docs' = docs
    BY <1>5, DocsStay DEF Work
  <2>2. CASE run' = run
    BY <2>1, <2>2 DEF WholeInv
  <2>3. CASE StartHourly \/ Crash(Hourly)
    <3>1. run'[Hourly].pc # "insert"
      BY <1>1, <2>3, BeginGoes, Became, IdleHasNothing DEF StartHourly, Crash
    <3> QED
      BY <2>1, <3>1 DEF WholeInv
  <2> QED
    BY <1>1, <1>5, <2>2, <2>3
       DEF Next, StartBackfill, Expire, Tick, MissTrigger, EditList, MoveRow, vars
<1> QED
  BY <1>2, <1>3, <1>4, <1>5

\* Of a call that has a character in a doc a reader of the doc finds title and date.
LEMMA PresentTold ==
    ASSUME GongInv, WholeInv, NEW d \in DocIds
    PROVE  Present(docs[d].text) \subseteq Told(Legible(docs[d].text))
<1>1. PICK text : text = docs[d].text
  OBVIOUS
<1>2. Whole(text, Chars) /\ text \in Seq(Calls \X Nat)
  BY <1>1 DEF WholeInv, GongInv, TypeOK, Doc
<1> SUFFICES ASSUME NEW s \in DOMAIN text
             PROVE  text[s][1] \in Told(Legible(text))
  BY <1>1 DEF Present
<1>3. PICK c \in Calls : c = text[s][1]
  BY <1>2
<1>4. PICK at : at = s - text[s][2] + 1
  OBVIOUS
<1>5. StandsAt(text, at, c, 1, Chars[c])
  BY <1>2, <1>3, <1>4 DEF Whole
<1>6. /\ TitleAt[c] \in Nat \X Nat /\ DateAt[c] \in Nat \X Nat /\ Chars[c] \in Nat
      /\ 1 <= TitleAt[c][1] /\ TitleAt[c][1] <= TitleAt[c][2]
      /\ TitleAt[c][2] < DateAt[c][1] /\ DateAt[c][1] <= DateAt[c][2]
      /\ DateAt[c][2] <= Chars[c]
  BY CallsAssumption
<1>7. ASSUME NEW first \in Nat, NEW last \in Nat, 1 <= first, first <= last,
             last <= Chars[c]
      PROVE  Shows(text, c, first, last)
  <2>1. at \in Int
    BY <1>2, <1>4
  <2>2. PICK n : n = Chars[c]
    OBVIOUS
  <2>3. \A k \in 1..n : at + (k - 1) \in DOMAIN text /\ text[at + (k - 1)] = <<c, k>>
    BY <1>5, <2>2 DEF StandsAt
  <2>4. PICK z \in Int : z = at + (first - 1)
    BY <2>1
  <2>5. ASSUME NEW k \in first..last
        PROVE  z + (k - first) \in DOMAIN text /\ text[z + (k - first)] = <<c, k>>
    <3>1. k \in 1..n /\ z + (k - first) = at + (k - 1)
      BY <1>6, <1>7, <2>1, <2>2, <2>4
    <3> QED
      BY <2>3, <3>1
  <2>6. z \in DOMAIN text
    <3>1. first \in 1..n
      BY <1>6, <1>7, <2>2
    <3> QED
      BY <2>3, <2>4, <3>1
  <2> QED
    BY <2>5, <2>6 DEF Shows, StandsAt
<1>8. <<c, "title">> \in Legible(text) /\ <<c, "date">> \in Legible(text)
  <2>1. Shows(text, c, TitleAt[c][1], TitleAt[c][2]) /\ Shows(text, c, DateAt[c][1], DateAt[c][2])
    BY <1>6, <1>7
  <2>2. PICK x, y : x = <<c, "title">> /\ y = <<c, "date">>
    OBVIOUS
  <2>3. /\ x \in Marks /\ y \in Marks /\ x[1] = c /\ y[1] = c
        /\ x[2] = "title" /\ y[2] = "date"
    BY <2>2 DEF Marks
  <2>4. x \in Legible(text) /\ y \in Legible(text)
    BY <2>1, <2>3 DEF Legible
  <2> QED
    BY <2>2, <2>4
<1> QED
  BY <1>3, <1>8 DEF Told, MarksOf

LEMMA PresentType ==
    ASSUME docs \in [DocIds -> Doc], NEW d \in DocIds
    PROVE  Present(docs[d].text) \subseteq Calls
  BY DEF Doc, Present

-----------------------------------------------------------------------------
(* Runs that follow one another write a call once *)

\* Gong tells the start of every call; the duplicate test needs it.
CallsAreDated == \A c \in Calls : Date[c] # 0

\* An edit leaves every call that has a customer with that customer.
FilingStays == \A c \in Calls : Find(lists, c) # 0 => Find(lists', c) = Find(lists, c)

\* What there is to be found in the docs: a customer's calls that were never buffered.
Owned ==
    [k \in Customers |-> [d \in DocIds |->
        [text |-> {c \in Present(docs[d].text) : Find(lists, c) = k /\ c \notin accepted},
         bytes |-> 0]]]

\* The calls that process_calls has in its loop are no blobs.
Plain(q) == q.draining = FALSE => \A p \in q.todo : p.at = 0

\* What process_calls is about to insert is for the customer that the mapping m names
\* and is not in the text it has of that customer; what the drain has in hand went
\* through the buffer.
Fresh(q, m, taken) ==
    /\ q.pc \in {"seed", "call", "insert", "alert"} /\ q.draining = FALSE =>
         \A p \in q.todo : Current(q, p) => q.cust = Find(m, p.call)
    /\ q.pc = "insert" /\ q.draining = FALSE =>
         \A p \in q.todo : Current(q, p) => p.call \notin Told(q.seen[q.cust])
    /\ q.draining => \A p \in q.todo : p.call \in taken

\* A call in a doc went through the buffer, or is in a doc of its customer.
Filed ==
    \A d \in DocIds : \A c \in Present(docs[d].text) :
        \/ c \in accepted
        \/ \E k \in Customers : k = Find(lists, c) /\ d \in DocsOf(k)

\* The mapping in memory names for a call no other customer than the published one.
Consistent == \A c \in Calls : Find(Cache, c) # 0 => Find(lists, c) = Find(Cache, c)

OnceInv ==
    /\ Reads(run[Hourly], Cache, lists, Owned) /\ Fits(run[Hourly])
    /\ Plain(run[Hourly]) /\ Fresh(run[Hourly], Cache, accepted)
    /\ Filed /\ Consistent /\ Buffered \subseteq accepted /\ OncePerCall

LEMMA EmptyFresh ==
    ASSUME NEW m, NEW taken, NEW q, q.todo = {}
    PROVE  Fresh(q, m, taken)
  BY DEF Fresh

\* Between two calls nothing is in hand.
LEMMA BetweenFresh ==
    ASSUME NEW m, NEW taken, NEW q, q.draining = FALSE,
           q.pc \notin {"seed", "call", "insert", "alert"}
    PROVE  Fresh(q, m, taken)
  BY DEF Fresh

LEMMA AfterCallFresh ==
    ASSUME NEW m, NEW taken, NEW q, NEW r, NEW rest, AfterCall(q, rest, r)
    PROVE  Fresh(r, m, taken)
  BY BetweenFresh DEF AfterCall

LEMMA AfterItemFresh ==
    ASSUME NEW m, NEW taken, NEW q, NEW r, NEW rest, AfterItem(q, rest, r),
           \A p \in rest : p.call \in taken
    PROVE  Fresh(r, m, taken)
<1>1. CASE AfterPartition(q, r)
  BY <1>1, EmptyFresh DEF AfterPartition
<1>2. CASE ~AfterPartition(q, r)
  BY <1>2 DEF AfterItem, Fresh
<1> QED
  BY <1>1, <1>2

\* The step leaves the run with the same call in hand.
LEMMA SameHandFresh ==
    ASSUME NEW m, NEW taken, NEW q, NEW r, Fresh(q, m, taken), SameHand(q, r),
           q.draining = FALSE => q.pc \in {"seed", "call", "insert", "alert"},
           r.pc # "insert"
    PROVE  Fresh(r, m, taken)
<1>1. \A p : Current(r, p) <=> Current(q, p)
  BY DEF SameHand, Current
<1> QED
  BY <1>1 DEF SameHand, Fresh

\* A call whose start Gong tells is a duplicate if it is in the text.
LEMMA NotDupUnseen ==
    ASSUME CallsAreDated, NEW q, NEW c \in Calls, ~IsDup(q, c)
    PROVE  c \notin Told(q.seen[q.cust])
<1>1. IsPrefix(Title[c], Title[c])
  <2>1. Title[c] \in Seq(STRING)
    BY CallsAssumption
  <2>2. Len(Title[c]) <= Len(Title[c])
    BY <2>1
  <2> QED
    BY <2>1, <2>2 DEF IsPrefix
<1>2. PICK x, y : x = <<c, "title">> /\ y = <<c, "date">>
  OBVIOUS
<1>3. x[1] = c /\ x[2] = "title" /\ y[1] = c /\ y[2] = "date"
  BY <1>2
<1>4. ~(x \in q.seen[q.cust] /\ y \in q.seen[q.cust])
  BY <1>1, <1>3 DEF IsDup, CallsAreDated
<1> QED
  BY <1>2, <1>4 DEF Told, MarksOf

LEMMA DrainFresh ==
    ASSUME GongInv, OnceInv,
           \/ ListItems(Hourly) \/ SkipUnreadable(Hourly)
           \/ StopPartition(Hourly) \/ Delete(Hourly)
    PROVE  Fresh(run'[Hourly], Cache', accepted)
<1>1. PICK q, r, m : q = run[Hourly] /\ r = run'[Hourly] /\ m = Cache'
  OBVIOUS
<1>2. q.draining /\ (DrainGoes(q, r) \/ r = Idle)
  BY <1>1, DrainSteps, BoundsAssumption
<1>3. \A p \in q.todo : p.call \in accepted
  BY <1>1, <1>2 DEF OnceInv, Fresh
<1>4. \A p \in pending : p.call \in accepted
  BY DEF OnceInv, Buffered
<1>5. CASE r = Idle
  BY <1>1, <1>5, IdleHasNothing, EmptyFresh
<1>6. CASE AfterPartition(q, r)
  BY <1>1, <1>6, EmptyFresh DEF AfterPartition
<1>7. CASE \E rest : AfterItem(q, rest, r) /\ rest \subseteq q.todo \cup pending
  BY <1>1, <1>3, <1>4, <1>7, AfterItemFresh
<1> QED
  BY <1>2, <1>5, <1>6, <1>7 DEF DrainGoes

LEMMA HandFresh ==
    ASSUME CallsAreDated, GongInv, OnceInv,
           Seed(Hourly) \/ Measure(Hourly) \/ InsertError(Hourly)
    PROVE  Fresh(run'[Hourly], Cache', accepted)
<1>1. PICK q, r : q = run[Hourly] /\ r = run'[Hourly]
  OBVIOUS
<1>2. Cache' = Cache /\ Fresh(q, Cache, accepted)
  BY <1>1 DEF Seed, Measure, InsertError, Cache, OnceInv
<1>3. Hourly \in Instances /\ q \in Run
  BY <1>1, HourlyFacts
<1>4. CASE Seed(Hourly)
  <2>1. q.pc = "seed"
    BY <1>1, <1>4 DEF Seed
  <2>2. SameHand(q, r) /\ r.pc \in {"seed", "items", "call"}
    BY <1>1, <1>3, <1>4, SeedGoes DEF SameHand
  <2> QED
    BY <1>1, <1>2, <2>1, <2>2, SameHandFresh
<1>5. CASE Measure(Hourly)
  <2>1. /\ SameTexts(q, r) /\ SameHand(q, r) /\ r.pc = "insert"
        /\ \E x \in q.todo : Writable(q, x)
    BY <1>1, <1>3, <1>5, MeasureGoes
  <2>2. PICK x \in q.todo : Writable(q, x)
    BY <2>1
  <2>3. Current(q, x) /\ x.call \in Calls /\ q.pc \in {"drain", "call"}
    BY <1>1, <1>3, <2>2, WritableFacts DEF Writable, Item
  <2>4. ASSUME q.draining = FALSE
        PROVE  q.pc = "call" /\ x.call \notin Told(q.seen[q.cust])
    <3>1. q.pc # "drain"
      BY <1>1, <1>3, <2>4, RunFacts DEF Sound, RunInv, Phase
    <3>2. q.pc = "call" /\ ~IsDup(q, x.call)
      BY <2>2, <3>1 DEF Writable
    <3> QED
      BY <2>3, <3>2, NotDupUnseen
  <2>5. ASSUME NEW p \in q.todo, Current(r, p)
        PROVE  p = x
    BY <1>3, <2>1, <2>2, <2>3, <2>5, CurrentUnique DEF SameHand, Current
  <2>6. r.seen = q.seen /\ r.cust = q.cust /\ r.todo = q.todo /\ r.draining = q.draining
    BY <2>1 DEF SameTexts, SameHand
  <2>7. q.draining = FALSE => q.cust = Find(Cache, x.call)
    BY <1>2, <2>3, <2>4 DEF Fresh
  <2>8. q.draining => \A p \in q.todo : p.call \in accepted
    BY <1>2 DEF Fresh
  <2>9. Fresh(r, Cache, accepted)
    BY <2>1, <2>4, <2>5, <2>6, <2>7, <2>8 DEF Fresh
  <2> QED
    BY <1>1, <1>2, <2>9
<1>6. CASE InsertError(Hourly)
  <2>1. PICK p \in q.todo :
          IF q.draining THEN AfterItem(q, q.todo \ {p}, r)
          ELSE AfterCall(q, q.todo \ {p}, r)
    BY <1>1, <1>3, <1>6, InsertErrorGoes
  <2>2. CASE q.draining
    <3>1. \A o \in q.todo \ {p} : o.call \in accepted
      BY <1>2, <2>2 DEF Fresh
    <3> QED
      BY <1>1, <1>2, <2>1, <2>2, <3>1, AfterItemFresh
  <2>3. CASE ~q.draining
    BY <1>1, <2>1, <2>3, AfterCallFresh
  <2> QED
    BY <2>2, <2>3
<1> QED
  BY <1>4, <1>5, <1>6

LEMMA CallFresh ==
    ASSUME GongInv, OnceInv,
           \/ Plan(Hourly) \/ FetchCalls(Hourly) \/ FetchDetails(Hourly)
           \/ SkipCall(Hourly) \/ Buffer(Hourly) \/ Alert(Hourly)
           \/ ReadSheet(Hourly) \/ ReadDates(Hourly) \/ WriteDates(Hourly)
    PROVE  Fresh(run'[Hourly], Cache', accepted)
<1>1. PICK q, r, m : q = run[Hourly] /\ r = run'[Hourly] /\ m = Cache'
  OBVIOUS
<1>2. Hourly \in Instances
  BY BoundsAssumption
<1>3. CASE \E rest : AfterCall(q, rest, r)
  BY <1>1, <1>3, AfterCallFresh
<1>4. CASE r.todo = {}
  BY <1>1, <1>4, EmptyFresh
<1>5. CASE Plan(Hourly)
  BY <1>1, <1>2, <1>4, <1>5, PlanGoes DEF AfterPartition
<1>6. CASE FetchCalls(Hourly)
  <2>1. r.draining = FALSE /\ r.pc \in {"details", "sheet", "idle"}
    BY <1>1, <1>6, FetchCallsGoes
  <2> QED
    BY <1>1, <2>1, BetweenFresh
<1>7. CASE FetchDetails(Hourly)
  <2>1. CASE r.pc = "details" /\ r.draining = FALSE
    BY <1>1, <2>1, BetweenFresh
  <2> QED
    BY <1>1, <1>2, <1>3, <1>4, <1>7, <2>1, FetchDetailsGoes, IdleHasNothing
<1>8. CASE Buffer(Hourly) /\ ~ \E rest : AfterCall(q, rest, r)
  <2>1. SameHand(q, r) /\ r.pc = "alert" /\ q.draining = FALSE
    BY <1>1, <1>2, <1>8, BufferGoes
  <2>2. q.pc = "call" /\ Cache' = Cache
    BY <1>1, <1>8 DEF Buffer, Cache
  <2> QED
    BY <1>1, <2>1, <2>2, SameHandFresh DEF OnceInv
<1>9. CASE ReadSheet(Hourly) \/ ReadDates(Hourly) \/ WriteDates(Hourly)
  <2>1. r.draining = FALSE /\ r.pc \in {"idle", "dates", "write"}
    BY <1>1, <1>2, <1>9, DatesGo
  <2> QED
    BY <1>1, <2>1, BetweenFresh
<1> QED
  BY <1>1, <1>2, <1>3, <1>5, <1>6, <1>7, <1>8, <1>9, SkipCallGoes, AlertGoes

LEMMA RouteFresh ==
    ASSUME GongInv, OnceInv, Route(Hourly)
    PROVE  Fresh(run'[Hourly], Cache', accepted)
<1>1. PICK q, r : q = run[Hourly] /\ r = run'[Hourly]
  OBVIOUS
<1>2. Hourly \in Instances /\ q \in Run
  BY <1>1, HourlyFacts
<1>3. PICK p \in q.todo : \E m :
        /\ Current(q, p) /\ LoadMapping(Hourly, m)
        /\ \/ AfterCall(q, q.todo \ {p}, r)
           \/ /\ r.draining = FALSE /\ r.todo = q.todo /\ r.cust = Find(m, p.call)
              /\ r.pc = IF r.cust \in q.seeded THEN "call" ELSE "seed"
  BY <1>1, <1>2, RouteGoes
<1>4. PICK m :
        /\ Current(q, p) /\ LoadMapping(Hourly, m)
        /\ \/ AfterCall(q, q.todo \ {p}, r)
           \/ /\ r.draining = FALSE /\ r.todo = q.todo /\ r.cust = Find(m, p.call)
              /\ r.pc = IF r.cust \in q.seeded THEN "call" ELSE "seed"
  BY <1>3
<1>5. Cache' = m
  BY <1>4, LoadsCache
<1>6. CASE AfterCall(q, q.todo \ {p}, r)
  BY <1>1, <1>6, AfterCallFresh
<1>7. CASE /\ r.draining = FALSE /\ r.todo = q.todo /\ r.cust = Find(m, p.call)
           /\ r.pc = IF r.cust \in q.seeded THEN "call" ELSE "seed"
  <2>1. ASSUME NEW x \in q.todo, Current(r, x)
        PROVE  x = p
    BY <1>2, <1>4, <1>7, <2>1, CurrentUnique DEF Current
  <2>2. Fresh(r, m, accepted)
    BY <1>7, <2>1 DEF Fresh
  <2> QED
    BY <1>1, <1>5, <2>2
<1> QED
  BY <1>4, <1>6, <1>7

\* The call of a run that is about to insert is the customer's, unless it was buffered.
LEMMA HandFiled ==
    ASSUME GongInv, OnceInv, run[Hourly].pc = "insert",
           NEW p \in run[Hourly].todo, Current(run[Hourly], p), p.call \notin accepted
    PROVE  /\ run[Hourly].draining = FALSE
           /\ Find(lists, p.call) = run[Hourly].cust
           /\ p.call \notin Told(run[Hourly].seen[run[Hourly].cust])
<1>1. PICK q, c : q = run[Hourly] /\ c = p.call
  OBVIOUS
<1>2. q \in Run /\ q.cust \in Customers
  BY <1>1, HourlyFacts DEF AtCustomer
<1>3. c \in Calls
  BY <1>1, <1>2 DEF Run, Item
<1>4. q.draining = FALSE
  BY <1>1, <1>2 DEF OnceInv, Fresh, Run
<1>5. q.cust = Find(Cache, c) /\ c \notin Told(q.seen[q.cust])
  BY <1>1, <1>4 DEF OnceInv, Fresh
<1>6. Find(lists, c) = q.cust
  BY <1>2, <1>3, <1>5, LabelsAssumption DEF OnceInv, Consistent
<1> QED
  BY <1>1, <1>4, <1>5, <1>6

\* A call that did not go through the buffer is in no doc when process_calls is about
\* to insert it: a doc that had it would be the customer's, and the text has those.
LEMMA NotInDocs ==
    ASSUME GongInv, OnceInv, run[Hourly].pc = "insert",
           NEW p \in run[Hourly].todo, Current(run[Hourly], p), p.call \notin accepted,
           NEW e \in DocIds
    PROVE  p.call \notin Present(docs[e].text)
<1>1. PICK q, c, k, D : q = run[Hourly] /\ c = p.call /\ k = q.cust /\ D = Owned
  OBVIOUS
<1>2. k \in Customers /\ k \in q.seeded
  BY <1>1, HourlyFacts DEF AtCustomer, OnceInv, Reads, Knows
<1>3. Find(lists, c) = k /\ c \notin Told(q.seen[k])
  BY <1>1, HandFiled
<1>4. Due(q, c)
  BY <1>1 DEF Due
<1>5. ASSUME c \in Present(docs[e].text)
      PROVE  FALSE
  <2>1. e \in DocsOf(k)
    BY <1>1, <1>3, <1>5 DEF OnceInv, Filed
  <2>2. HasRead(q, k, D[k][e])
    BY <1>1, <1>2, <2>1 DEF OnceInv, Reads, Knows
  <2>3. c \in D[k][e].text
    BY <1>1, <1>2, <1>3, <1>5 DEF Owned
  <2> QED
    BY <1>3, <1>4, <2>2, <2>3 DEF HasRead
<1> QED
  BY <1>1, <1>5

LEMMA InsertOncePerCall ==
    ASSUME GongInv, WholeInv, OnceInv, run[Hourly].pc = "insert",
           NEW p \in run[Hourly].todo, Current(run[Hourly], p),
           Write(Target(run[Hourly]), run[Hourly].end, p.call), accepted' = accepted
    PROVE  OncePerCall'
<1>1. PICK x \in DocIds, c \in Calls :
        /\ x = Target(run[Hourly]) /\ c = p.call
        /\ Appends(docs[x].text, docs'[x].text, c, Chars[c])
        /\ \A e \in DocIds \ {x} : docs'[e] = docs[e]
  BY WriteAppends
<1>2. c \notin accepted => \A e \in DocIds : c \notin Present(docs[e].text)
  BY <1>1, NotInDocs
<1> SUFFICES ASSUME NEW d \in DocIds, NEW e \in DocIds,
                    NEW j \in DOMAIN docs'[d].text, NEW k \in DOMAIN docs'[e].text,
                    docs'[d].text[j] = docs'[e].text[k], docs'[d].text[j][1] \notin accepted
             PROVE  <<d, j>> = <<e, k>>
  BY DEF OncePerCall
<1> DEFINE New(y, z) == /\ y = x
                        /\ \E n \in 1..Chars[c] :
                              z = Len(docs[x].text) + n /\ docs'[y].text[z] = <<c, n>>
           Old(y, z) == /\ z \in DOMAIN docs[y].text
                        /\ docs'[y].text[z] = docs[y].text[z]
<1>3. ASSUME NEW y \in DocIds, NEW z \in DOMAIN docs'[y].text
      PROVE  New(y, z) \/ Old(y, z)
  BY <1>1, <1>3 DEF Appends
<1>4. New(d, j) \/ Old(d, j)
  BY <1>3
<1>5. New(e, k) \/ Old(e, k)
  BY <1>3
<1>6. ASSUME NEW y \in DocIds, NEW z, New(y, z)
      PROVE  docs'[y].text[z][1] = c
  BY <1>6
<1>7. ASSUME NEW y \in DocIds, NEW z, Old(y, z)
      PROVE  docs'[y].text[z][1] \in Present(docs[y].text)
  BY <1>7 DEF Present
<1>8. CASE New(d, j) /\ New(e, k)
  <2>1. PICK m \in 1..Chars[c], n \in 1..Chars[c] :
          /\ j = Len(docs[x].text) + m /\ docs'[d].text[j] = <<c, m>>
          /\ k = Len(docs[x].text) + n /\ docs'[e].text[k] = <<c, n>>
    BY <1>8
  <2>2. m = n
    BY <2>1
  <2> QED
    BY <1>8, <2>1, <2>2
<1>9. CASE New(d, j) /\ Old(e, k)
  BY <1>2, <1>6, <1>7, <1>9
<1>10. CASE Old(d, j) /\ New(e, k)
  BY <1>2, <1>6, <1>7, <1>10
<1>11. CASE Old(d, j) /\ Old(e, k)
  BY <1>11 DEF OnceInv, OncePerCall
<1> QED
  BY <1>4, <1>5, <1>8, <1>9, <1>10, <1>11

\* A step that writes no call leaves no more to be found in the docs of a customer.
LEMMA OwnedLess ==
    ASSUME GongInv, OnceInv, [FilingStays]_vars, docs' = docs, accepted \subseteq accepted',
           NEW D, NEW E, D = Owned, E = Owned'
    PROVE  Less(E, D)
<1>1. \A c \in Calls : Find(lists, c) # 0 => Find(lists', c) = Find(lists, c)
  BY DEF FilingStays, vars, sheet
<1>2. ASSUME NEW k \in Customers, NEW d \in DocIds, NEW c \in Present(docs[d].text),
             Find(lists', c) = k, c \notin accepted
      PROVE  Find(lists, c) = k
  <2>1. c \in Calls
    BY PresentType DEF GongInv, TypeOK
  <2>2. PICK l \in Customers : l = Find(lists, c)
    BY <1>2 DEF OnceInv, Filed
  <2> QED
    BY <1>1, <1>2, <2>1, <2>2, LabelsAssumption
<1>3. ASSUME NEW k \in Customers, NEW d \in DocIds
      PROVE  /\ D[k][d].bytes = 0 /\ E[k][d].bytes = 0
             /\ E[k][d].text \subseteq D[k][d].text
  <2>1. /\ D[k][d].text = {c \in Present(docs[d].text) : Find(lists, c) = k /\ c \notin accepted}
        /\ E[k][d].text = {c \in Present(docs'[d].text) : Find(lists', c) = k /\ c \notin accepted'}
        /\ D[k][d].bytes = 0 /\ E[k][d].bytes = 0
    BY DEF Owned
  <2> QED
    BY <1>2, <2>1
<1> QED
  BY <1>3, DocsOfType DEF Less

\* What a run writes, whether or not it hears of it: a call of the customer in hand
\* that is in no doc, or one that went through the buffer.
LEMMA WrittenOnce ==
    ASSUME GongInv, WholeInv, OnceInv, run[Hourly].pc = "insert",
           NEW p \in run[Hourly].todo, Current(run[Hourly], p),
           Write(Target(run[Hourly]), run[Hourly].end, p.call),
           lists' = lists, accepted' = accepted,
           NEW D, NEW E, D = Owned, E = Owned'
    PROVE  /\ Filed' /\ OncePerCall'
           /\ Grows(D, E, run[Hourly].cust, Target(run[Hourly]), p.call)
           /\ \A l \in Customers : \A e \in DocsOf(l) :
                /\ E[l][e].bytes = 0
                /\ \A x \in E[l][e].text :
                      \/ x \in D[l][e].text
                      \/ x = p.call /\ x \notin accepted
<1>1. PICK q : q = run[Hourly]
  OBVIOUS
<1>2. PICK d, c, k : d = Target(q) /\ c = p.call /\ k = q.cust
  OBVIOUS
<1>3. /\ k \in Customers /\ d \in DocsOf(k) /\ d \in DocIds /\ c \in Calls
      /\ Present(docs'[d].text) \subseteq Present(docs[d].text) \cup {c}
      /\ \A e \in DocIds \ {d} : docs'[e] = docs[e]
  BY <1>1, <1>2, InsertWrites
<1>4. c \in accepted \/ k = Find(lists, c)
  BY <1>1, <1>2, HandFiled
<1>5. ASSUME NEW e \in DocIds, NEW o \in Present(docs'[e].text)
      PROVE  \/ o \in accepted
             \/ \E l \in Customers : l = Find(lists, o) /\ e \in DocsOf(l)
  <2>1. CASE e = d /\ o = c
    BY <1>3, <1>4, <2>1
  <2>2. CASE o \in Present(docs[e].text)
    BY <2>2 DEF OnceInv, Filed
  <2> QED
    BY <1>3, <1>5, <2>1, <2>2
<1>6. Filed'
  BY <1>5 DEF Filed
<1>7. OncePerCall'
  BY InsertOncePerCall
<1>8. ASSUME NEW l \in Customers, NEW e \in DocIds
      PROVE  /\ D[l][e].bytes = 0 /\ E[l][e].bytes = 0
             /\ D[l][e].text =
                  {x \in Present(docs[e].text) : Find(lists, x) = l /\ x \notin accepted}
             /\ E[l][e].text =
                  {x \in Present(docs'[e].text) : Find(lists, x) = l /\ x \notin accepted}
  BY DEF Owned
<1>9. ASSUME NEW l \in Customers, NEW e \in DocIds, NEW x \in E[l][e].text,
             x \notin D[l][e].text
      PROVE  l = k /\ e = d /\ x = c /\ x \notin accepted
  <2>1. x \in Present(docs'[e].text) /\ Find(lists, x) = l /\ x \notin accepted
    BY <1>8, <1>9
  <2>2. x \notin Present(docs[e].text)
    BY <1>8, <1>9, <2>1
  <2>3. e = d /\ x = c
    BY <1>3, <2>1, <2>2
  <2> QED
    BY <1>4, <2>1, <2>3
<1>10. Grows(D, E, k, d, c)
  <2>1. ASSUME NEW l \in Customers, NEW e \in DocIds
        PROVE  /\ D[l][e].bytes \in Nat /\ E[l][e].bytes \in Nat
               /\ E[l][e].bytes <= D[l][e].bytes
               /\ Size[c] \in Nat
               /\ E[l][e].bytes <= D[l][e].bytes + Size[c]
    BY <1>3, <1>8, CallsAssumption
  <2>2. ASSUME NEW l \in Customers, NEW e \in DocIds
        PROVE  \/ E[l][e].text \subseteq D[l][e].text
               \/ l = k /\ e = d /\ E[l][e].text \subseteq D[l][e].text \cup {c}
    BY <1>9
  <2> QED
    BY <2>1, <2>2, DocsOfType DEF Grows
<1>11. \A l \in Customers : \A e \in DocsOf(l) :
         /\ E[l][e].bytes = 0
         /\ \A x \in E[l][e].text : \/ x \in D[l][e].text
                                    \/ x = c /\ x \notin accepted
  BY <1>8, <1>9, DocsOfType
<1> QED
  BY <1>1, <1>2, <1>6, <1>7, <1>10, <1>11

\* After an insertion of unknown effect the run does not come to the call again.
LEMMA LostReads ==
    ASSUME GongInv, WholeInv, OnceInv, InsertError(Hourly),
           NEW p \in run[Hourly].todo, Current(run[Hourly], p),
           Write(Target(run[Hourly]), run[Hourly].end, p.call),
           IF run[Hourly].draining
           THEN AfterItem(run[Hourly], run[Hourly].todo \ {p}, run'[Hourly])
           ELSE AfterCall(run[Hourly], run[Hourly].todo \ {p}, run'[Hourly])
    PROVE  /\ Reads(run'[Hourly], Cache', lists', Owned') /\ Fits(run'[Hourly])
           /\ Filed' /\ OncePerCall'
<1>1. PICK q, r, D, E, c :
        q = run[Hourly] /\ r = run'[Hourly] /\ D = Owned /\ E = Owned' /\ c = p.call
  OBVIOUS
<1>2. /\ q.pc = "insert" /\ Cache' = Cache /\ lists' = lists /\ accepted' = accepted
  BY <1>1 DEF InsertError, Cache, sheet
<1>3. q \in Run /\ q.nread = 0
  BY <1>1, <1>2, HourlyFacts
<1>4. /\ Filed' /\ OncePerCall'
      /\ Grows(D, E, q.cust, Target(q), c)
      /\ \A l \in Customers : \A e \in DocsOf(l) :
           /\ E[l][e].bytes = 0
           /\ \A x \in E[l][e].text : \/ x \in D[l][e].text
                                      \/ x = c /\ x \notin accepted
  BY <1>1, <1>2, WrittenOnce
<1>5. Reads(run[Hourly], Cache, lists, D)
  BY <1>1 DEF OnceInv
<1>6. Knows(r, Cache, D) /\ Fits(r)
  BY <1>1, <1>2, <1>5, InsertErrorKeeps DEF Keeps
<1>7. r.seeded \subseteq Customers /\ (r.seeded # {} => r.bytes = q.bytes)
  BY <1>1, <1>3 DEF AfterItem, AfterPartition, AfterCall, SameTexts, Run
<1>8. c \notin accepted => r.seeded = {} \/ ~Due(r, c)
  <2> SUFFICES ASSUME c \notin accepted, r.seeded # {}
               PROVE  ~Due(r, c)
    OBVIOUS
  <2>1. q.draining = FALSE
    BY <1>1, <1>2, HandFiled
  <2>2. r.todo = q.todo \ {p} /\ r.pc = "route" /\ r.draining = FALSE
    BY <1>1, <2>1 DEF AfterCall
  <2>3. ASSUME NEW o \in q.todo \ {p}
        PROVE  o.call # c
    <3>1. o \in Item /\ p \in Item /\ o.at = 0 /\ p.at = 0
      BY <1>1, <1>3, <2>1 DEF OnceInv, Plain, Run
    <3>2. p.at < o.at \/ (p.at = o.at /\ p.call < o.call)
      BY <1>1 DEF Current
    <3>3. p.call \in Nat /\ o.call \in Nat
      BY <3>1, CallsAssumption DEF Item
    <3> QED
      BY <1>1, <3>1, <3>2, <3>3
  <2> QED
    BY <2>2, <2>3 DEF Due
<1>9. ASSUME NEW l \in r.seeded, NEW e \in DocsOf(l)
      PROVE  HasRead(r, l, E[l][e])
  <2>1. HasRead(r, l, D[l][e])
    BY <1>6 DEF Knows
  <2>2. /\ E[l][e].bytes = 0
        /\ \A x \in E[l][e].text : x \in D[l][e].text \/ (x = c /\ x \notin accepted)
    BY <1>4, <1>7
  <2>3. r.bytes[l] \in Nat
    BY <1>3, <1>7 DEF Run
  <2> QED
    BY <1>8, <2>1, <2>2, <2>3 DEF HasRead
<1>10. r.pc = "seed" => r.nread = 0
  BY <1>1, <1>3 DEF AfterItem, AfterPartition, AfterCall, SameTexts
<1>11. Knows(r, Cache, E)
  BY <1>6, <1>9, <1>10 DEF Knows
<1>12. Listed(E, lists, Cache)
  BY <1>1, <1>2, <1>4, <1>5, GrownListed
<1> QED
  BY <1>1, <1>2, <1>4, <1>5, <1>6, <1>11, <1>12 DEF Reads

\* An insertion that the run hears of.
LEMMA InsertOnce ==
    ASSUME GongInv, WholeInv, OnceInv, Insert(Hourly)
    PROVE  /\ Reads(run'[Hourly], Cache', lists', Owned') /\ Fits(run'[Hourly])
           /\ Fresh(run'[Hourly], Cache', accepted)
           /\ Filed' /\ OncePerCall'
<1>1. PICK q, r : q = run[Hourly] /\ r = run'[Hourly]
  OBVIOUS
<1>2. q.pc = "insert" /\ lists' = lists /\ accepted' = accepted /\ Cache' = Cache
  BY <1>1 DEF Insert, sheet, Cache
<1>3. Hourly \in Instances /\ q \in Run
  BY <1>1, HourlyFacts
<1>4. PICK p \in q.todo : \E b \in Run :
        /\ Current(q, p) /\ Write(Target(q), q.end, p.call)
        /\ SameHand(q, b)
        /\ IF q.draining THEN SameHand(b, r) /\ r.pc = "delete"
           ELSE AfterCall(b, q.todo \ {p}, r)
  BY <1>1, <1>3, InsertGoes DEF Counted
<1>5. PICK b \in Run :
        /\ Current(q, p) /\ Write(Target(q), q.end, p.call)
        /\ SameHand(q, b)
        /\ IF q.draining THEN SameHand(b, r) /\ r.pc = "delete"
           ELSE AfterCall(b, q.todo \ {p}, r)
  BY <1>4
<1>6. Fresh(r, Cache, accepted)
  <2>1. CASE q.draining
    <3>1. SameHand(q, r) /\ r.pc = "delete"
      BY <1>5, <2>1 DEF SameHand
    <3> QED
      BY <1>1, <1>2, <3>1, SameHandFresh DEF OnceInv
  <2>2. CASE ~q.draining
    BY <1>5, <2>2, AfterCallFresh
  <2> QED
    BY <2>1, <2>2
<1>7. PICK D, E : D = Owned /\ E = Owned'
  OBVIOUS
<1>8. Filed' /\ OncePerCall' /\ Grows(D, E, q.cust, Target(q), p.call)
  BY <1>1, <1>2, <1>5, <1>7, WrittenOnce
<1>9. ASSUME NEW o \in q.todo, Current(q, o)
      PROVE  o = p
  BY <1>3, <1>5, <1>9, CurrentUnique
<1>10. Reads(run'[Hourly], Cache', lists', E) /\ Fits(run'[Hourly])
  BY <1>1, <1>7, <1>8, <1>9, InsertReads DEF OnceInv
<1> QED
  BY <1>1, <1>2, <1>6, <1>7, <1>8, <1>10

LEMMA WorkPlain ==
    ASSUME GongInv, Plain(run[Hourly]), Work(Hourly)
    PROVE  Plain(run'[Hourly])
<1>1. PICK q, r : q = run[Hourly] /\ r = run'[Hourly]
  OBVIOUS
<1>2. Hourly \in Instances /\ q \in Run
  BY <1>1, HourlyFacts
<1>3. CASE r.todo = {}
  BY <1>1, <1>3 DEF Plain
<1>4. CASE r.draining
  BY <1>1, <1>2, <1>4 DEF Plain
<1>5. CASE r.draining = q.draining /\ r.todo \subseteq q.todo
  BY <1>1, <1>5 DEF Plain
<1>6. CASE AfterPartition(q, r)
  BY <1>3, <1>6 DEF AfterPartition
<1>7. ASSUME NEW rest, AfterItem(q, rest, r)
      PROVE  Plain(r)
  BY <1>1, <1>4, <1>6, <1>7 DEF AfterItem
<1>8. ASSUME NEW b, NEW p \in q.todo, AfterCall(b, q.todo \ {p}, r), q.draining = FALSE
      PROVE  Plain(r)
  BY <1>1, <1>5, <1>8 DEF AfterCall
<1>9. CASE Plan(Hourly)
  BY <1>1, <1>2, <1>3, <1>9, PlanGoes DEF AfterPartition
<1>10. CASE Seed(Hourly)
  BY <1>1, <1>2, <1>5, <1>10, SeedGoes
<1>11. CASE ListItems(Hourly) \/ SkipUnreadable(Hourly) \/ StopPartition(Hourly) \/ Delete(Hourly)
  <2>1. DrainGoes(q, r) \/ r = Idle
    BY <1>1, <1>2, <1>11, DrainSteps
  <2> QED
    BY <1>1, <1>3, <1>6, <1>7, <2>1, IdleHasNothing DEF DrainGoes
<1>12. CASE Measure(Hourly)
  BY <1>1, <1>2, <1>5, <1>12, MeasureGoes DEF SameHand
<1>13. CASE Insert(Hourly)
  <2>1. PICK p \in q.todo, b \in Run :
          /\ SameHand(q, b)
          /\ IF q.draining THEN SameHand(b, r) ELSE AfterCall(b, q.todo \ {p}, r)
    BY <1>1, <1>2, <1>13, InsertGoes DEF Counted
  <2>2. CASE q.draining
    BY <1>1, <1>5, <2>1, <2>2 DEF SameHand
  <2>3. CASE q.draining = FALSE
    BY <1>1, <1>8, <2>1, <2>3
  <2> QED
    BY <1>2, <2>2, <2>3 DEF Run
<1>14. CASE InsertError(Hourly)
  <2>1. PICK p \in q.todo : IF q.draining THEN AfterItem(q, q.todo \ {p}, r)
                            ELSE AfterCall(q, q.todo \ {p}, r)
    BY <1>1, <1>2, <1>14, InsertErrorGoes
  <2>2. CASE q.draining
    BY <1>1, <1>7, <2>1, <2>2
  <2>3. CASE q.draining = FALSE
    BY <1>1, <1>8, <2>1, <2>3
  <2> QED
    BY <1>2, <2>2, <2>3 DEF Run
<1>15. CASE FetchCalls(Hourly)
  <2>1. PICK calls \in SUBSET Calls :
          r.todo \in {{}, {[at |-> 0, cust |-> 0, call |-> c] : c \in calls}}
    BY <1>1, <1>15, FetchCallsGoes
  <2>2. \A p \in r.todo : p.at = 0
    BY <2>1
  <2> QED
    BY <1>1, <2>2 DEF Plain
<1>16. CASE FetchDetails(Hourly)
  <2>1. q.draining = FALSE
    BY <1>1, <1>2, <1>16, NotDraining DEF FetchDetails
  <2>2. \/ r = Idle
        \/ \E todo \in SUBSET q.todo : AfterCall(q, todo, r)
        \/ r.draining = FALSE /\ r.todo \subseteq q.todo
    BY <1>1, <1>2, <1>16, FetchDetailsGoes
  <2>3. r.todo = {} \/ (r.draining = FALSE /\ r.todo \subseteq q.todo)
    BY <2>2, IdleHasNothing DEF AfterCall
  <2> QED
    BY <1>1, <1>3, <1>5, <2>1, <2>3
<1>17. CASE Route(Hourly)
  <2>1. q.draining = FALSE /\ \E p \in q.todo :
          AfterCall(q, q.todo \ {p}, r) \/ (r.draining = FALSE /\ r.todo = q.todo)
    BY <1>1, <1>2, <1>17, RouteGoes
  <2> QED
    BY <1>1, <1>5, <1>8, <2>1
<1>18. CASE SkipCall(Hourly) \/ Alert(Hourly)
  <2>1. q.draining = FALSE
    BY <1>1, <1>2, <1>18, NotDraining DEF SkipCall, Alert
  <2>2. \E p \in q.todo : AfterCall(q, q.todo \ {p}, r)
    BY <1>1, <1>2, <1>18, SkipCallGoes, AlertGoes
  <2> QED
    BY <1>1, <1>8, <2>1, <2>2
<1>19. CASE Buffer(Hourly)
  <2>1. q.draining = FALSE /\ \E p \in q.todo :
          AfterCall(q, q.todo \ {p}, r) \/ SameHand(q, r)
    BY <1>1, <1>2, <1>19, BufferGoes
  <2> QED
    BY <1>1, <1>5, <1>8, <2>1 DEF SameHand
<1>20. CASE ReadSheet(Hourly) \/ ReadDates(Hourly) \/ WriteDates(Hourly)
  <2>1. /\ q.draining = FALSE /\ r.draining = FALSE
        /\ r.todo = {} \/ r.todo = q.todo
    BY <1>1, <1>2, <1>20, DatesGo
  <2> QED
    BY <1>1, <1>3, <1>5, <2>1
<1> QED
  BY <1>9, <1>10, <1>11, <1>12, <1>13, <1>14, <1>15, <1>16, <1>17, <1>18, <1>19, <1>20
     DEF Work

\* What a run does to the buffer.
LEMMA WorkBuffers ==
    ASSUME GongInv, NEW i \in Instances, Work(i), Buffered \subseteq accepted
    PROVE  Buffered' \subseteq accepted' /\ accepted \subseteq accepted'
<1>1. CASE pending' \subseteq pending /\ accepted' = accepted
  BY <1>1 DEF Buffered
<1>2. CASE \E k, c : Enqueue(k, c)
  BY <1>2 DEF Enqueue, Buffered
<1>3. CASE Buffer(i)
  BY <1>1, <1>2, <1>3 DEF Buffer
<1>4. CASE ~Buffer(i)
  BY <1>1, <1>4 DEF Work, Plan, Seed, ListItems, SkipUnreadable, StopPartition, Measure,
                    Insert, InsertError, Delete, FetchCalls, FetchDetails, Route, SkipCall,
                    Alert, ReadSheet, ReadDates, WriteDates, store
<1> QED
  BY <1>3, <1>4

\* A step that has no effect on the docs leaves what is to be found there read.
LEMMA StillReads ==
    ASSUME HourlyReads, GongInv, WholeInv, OnceInv, [Next]_vars, [ListsExtend]_vars, [FilingStays]_vars,
           ~Insert(Hourly), docs' = docs, accepted \subseteq accepted'
    PROVE  Reads(run'[Hourly], Cache', lists', Owned') /\ Fits(run'[Hourly])
<1>1. PICK D, E : D = Owned /\ E = Owned'
  OBVIOUS
<1>2. Less(E, D)
  BY <1>1, OwnedLess
<1>3. Reads(run[Hourly], Cache, lists, E)
  BY <1>1, <1>2, ReadsLess DEF OnceInv
<1>4. Within(E)
  <2>1. ASSUME NEW k \in Customers, NEW d \in DocIds
        PROVE  /\ E[k][d].text \subseteq Told(Legible(docs[d].text))
               /\ E[k][d].bytes = 0
    <3>1. E[k][d].text \subseteq Present(docs[d].text) /\ E[k][d].bytes = 0
      BY <1>1 DEF Owned
    <3> QED
      BY <3>1, PresentTold
  <2>2. \A d \in DocIds : docs[d].bytes \in Nat
    BY DEF GongInv, TypeOK, Doc
  <2> QED
    BY <2>1, <2>2 DEF Within
<1> QED
  BY <1>1, <1>3, <1>4, ReadsOn DEF OnceInv

LEMMA WorkOnce ==
    ASSUME HourlyReads, CallsAreDated, GongInv, WholeInv, OnceInv, Work(Hourly),
           [ListsExtend]_vars, [FilingStays]_vars
    PROVE  OnceInv'
<1>1. lists' = lists /\ [Next]_vars
  BY BoundsAssumption, WorkSheet DEF Next
<1>2. Buffered' \subseteq accepted' /\ accepted \subseteq accepted'
  BY BoundsAssumption, WorkBuffers DEF OnceInv
<1>3. Plain(run'[Hourly])
  BY WorkPlain DEF OnceInv
<1>4. /\ Reads(run'[Hourly], Cache', lists', Owned') /\ Fits(run'[Hourly])
      /\ Fresh(run'[Hourly], Cache', accepted) /\ Filed' /\ OncePerCall'
  <2>1. CASE Insert(Hourly)
    BY <2>1, InsertOnce
  <2>2. CASE ~Insert(Hourly)
    <3>1. Fresh(run'[Hourly], Cache', accepted)
      BY <2>2, DrainFresh, HandFresh, CallFresh, RouteFresh DEF Work
    <3>2. CASE docs' = docs
      <4>1. Reads(run'[Hourly], Cache', lists', Owned') /\ Fits(run'[Hourly])
        BY <1>1, <1>2, <2>2, <3>2, StillReads
      <4>2. Filed'
        BY <1>1, <1>2, <3>2 DEF OnceInv, Filed
      <4>3. OncePerCall'
        BY <1>2, <3>2 DEF OnceInv, OncePerCall
      <4> QED
        BY <3>1, <4>1, <4>2, <4>3
    <3>3. CASE docs' # docs
      <4>1. InsertError(Hourly)
        BY <1>1, <2>2, <3>3, DocsStay
      <4>2. /\ Reads(run'[Hourly], Cache', lists', Owned') /\ Fits(run'[Hourly])
            /\ Filed' /\ OncePerCall'
        BY <3>3, <4>1, InsertErrorGoes, LostReads, BoundsAssumption
      <4> QED
        BY <3>1, <4>2
    <3> QED
      BY <3>2, <3>3
  <2> QED
    BY <2>1, <2>2
<1>5. Fresh(run'[Hourly], Cache', accepted')
  BY <1>2, <1>4 DEF Fresh
<1>6. Consistent'
  <2>1. Cache' = Cache \/ Cache' = lists
    <3>1. CASE Plan(Hourly) \/ Route(Hourly)
      <4>1. PICK m : LoadMapping(Hourly, m)
        BY <3>1 DEF Plan, Route
      <4> QED
        BY <4>1, LoadsCache
    <3>2. CASE ~Plan(Hourly) /\ ~Route(Hourly)
      BY <3>2 DEF Work, Seed, ListItems, SkipUnreadable, StopPartition, Measure, Insert,
                  InsertError, Delete, FetchCalls, FetchDetails, SkipCall, Buffer, Alert,
                  ReadSheet, ReadDates, WriteDates, Cache
    <3> QED
      BY <3>1, <3>2
  <2> QED
    BY <1>1, <2>1 DEF OnceInv, Consistent
<1> QED
  BY <1>2, <1>3, <1>4, <1>5, <1>6 DEF OnceInv

\* The empty mapping names no customer.
LEMMA FindNone ==
    ASSUME NEW c
    PROVE  Find(NoLists, c) = 0
<1>1. Mapped(NoLists) = {}
  BY DEF Mapped, NoLists
<1>2. SameName(NoLists, c) = {}
  BY <1>1 DEF SameName
<1> QED
  BY <1>1, <1>2 DEF Find

LEMMA OnceInit == Init => OnceInv
<1> SUFFICES ASSUME Init PROVE OnceInv
  OBVIOUS
<1>1. Hourly \in Instances
  BY BoundsAssumption
<1>2. run[Hourly] = Idle /\ Cache = NoLists
  BY <1>1 DEF Init, Cache, Unloaded
<1>3. Fresh(run[Hourly], Cache, accepted) /\ Plain(run[Hourly])
  BY <1>2, IdleHasNothing, EmptyFresh DEF Plain
<1>4. Consistent
  BY <1>2, FindNone DEF Consistent
<1>5. \A d \in DocIds : Present(docs[d].text) = {} /\ DOMAIN docs[d].text = {}
  BY DEF Init, Present
<1>6. Filed /\ OncePerCall
  BY <1>5 DEF Filed, OncePerCall
<1>7. Buffered \subseteq accepted
  BY DEF Init, Buffered
<1>8. PICK D : D = Owned
  OBVIOUS
<1>9. Knows(run[Hourly], Cache, D) /\ Fits(run[Hourly])
  BY <1>2, IdleHasNothing, IdleKnows DEF AtCustomer
<1>10. Listed(D, lists, Cache)
  BY <1>5, <1>8, DocsOfType DEF Listed, Owned
<1>11. Behind(lists, Cache)
  BY <1>2 DEF Behind, NoLists, ToSet
<1> QED
  BY <1>3, <1>4, <1>6, <1>7, <1>8, <1>9, <1>10, <1>11 DEF OnceInv, Reads

\* The other steps: a run begins or is cut short, the cache ages, the operator edits.
LEMMA AroundOnce ==
    ASSUME HourlyReads, GongInv, WholeInv, OnceInv, [Next]_vars, ~Work(Hourly),
           [ListsExtend]_vars, [FilingStays]_vars
    PROVE  OnceInv'
<1>1. Hourly \in Instances /\ mapCache \in [Instances -> MapEntry]
  BY BoundsAssumption DEF GongInv, TypeOK
<1>2. docs' = docs /\ (Cache' = Cache \/ Cache' = NoLists)
  <2>1. PICK D : D = Owned
    OBVIOUS
  <2> QED
    BY <2>1, AroundReads DEF OnceInv
<1>3. \A c \in Calls : Find(lists, c) # 0 => Find(lists', c) = Find(lists, c)
  BY DEF FilingStays, vars, sheet
<1>4. \A i \in Instances : i = Hourly
  BY DEF HourlyReads
<1>5. pending' = pending /\ accepted' = accepted
  BY <1>4 DEF Next, StartHourly, StartBackfill, Crash, Expire, Tick, MissTrigger, EditList,
              MoveRow, vars, store
<1>6. Buffered' \subseteq accepted'
  BY <1>5 DEF OnceInv, Buffered
<1>7. OncePerCall'
  BY <1>2, <1>5 DEF OnceInv, OncePerCall
<1>8. Consistent'
  BY <1>2, <1>3, FindNone DEF OnceInv, Consistent
<1>9. Filed'
  <2>1. ASSUME NEW c \in Calls, NEW k \in Customers, k = Find(lists, c)
        PROVE  k = Find(lists', c)
    BY <1>3, <2>1, LabelsAssumption
  <2>2. \A d \in DocIds : Present(docs[d].text) \subseteq Calls
    BY PresentType DEF GongInv, TypeOK
  <2> QED
    BY <1>2, <1>5, <2>1, <2>2 DEF OnceInv, Filed
<1>10. Fresh(run'[Hourly], Cache', accepted') /\ Plain(run'[Hourly])
  <2>1. CASE run'[Hourly].todo = {}
    BY <2>1, EmptyFresh DEF Plain
  <2>2. CASE run' = run /\ Cache' = Cache
    BY <1>5, <2>2 DEF OnceInv
  <2>3. CASE StartHourly
    BY <1>1, <2>1, <2>3, BeginGoes DEF StartHourly
  <2>4. CASE Crash(Hourly)
    BY <1>1, <2>1, <2>4, Became, IdleHasNothing DEF Crash
  <2>5. CASE Expire(Hourly)
    BY <1>1, <2>2, <2>5 DEF Expire, Cache, MapEntry
  <2>6. CASE \/ Tick \/ MissTrigger \/ UNCHANGED vars
             \/ \E k \in Customers : \E list \in Routes[k] : EditList(k, list)
             \/ \E n \in 2..Len(rows) : MoveRow(n)
    BY <2>2, <2>6 DEF Tick, MissTrigger, EditList, MoveRow, vars, Cache
  <2> QED
    BY <1>4, <2>3, <2>4, <2>5, <2>6 DEF Next, StartBackfill
<1>11. Reads(run'[Hourly], Cache', lists', Owned') /\ Fits(run'[Hourly])
  <2>1. ~Insert(Hourly)
    BY DEF Work
  <2> QED
    BY <1>2, <1>5, <2>1, StillReads
<1> QED
  BY <1>6, <1>7, <1>8, <1>9, <1>10, <1>11 DEF OnceInv

\* The duplicate test of process_calls (src/gong-sync/main.py) keeps hourly runs that
\* follow one another in one container from writing a call twice, over look-backs that
\* overlap, replies that are lost, docs that customers share and lists that grow, unless
\* the call went through the buffer, whose drain does not look: as long as docs can be
\* read, Gong tells when each call started and edits leave calls with their customers.
THEOREM HourlyOnce ==
    ASSUME HourlyReads, CallsAreDated
    PROVE  Spec /\ [][ListsExtend /\ FilingStays]_vars => []OncePerCall
<1>1. OnceInv => OncePerCall
  BY DEF OnceInv
<1>2. HourlyReads /\ CallsAreDated
  OBVIOUS
<1>3. GongInv /\ WholeInv /\ OnceInv /\ [Next]_vars /\ [ListsExtend /\ FilingStays]_vars
        => OnceInv'
  <2> SUFFICES ASSUME GongInv, WholeInv, OnceInv, [Next]_vars, [ListsExtend /\ FilingStays]_vars
               PROVE  OnceInv'
    OBVIOUS
  <2>1. [ListsExtend]_vars /\ [FilingStays]_vars
    OBVIOUS
  <2> QED
    BY <1>2, <2>1, WorkOnce, AroundOnce
<1>4. GongInv /\ WholeInv /\ [Next]_vars => WholeInv'
  BY <1>2, WholeStep
<1> QED
  BY <1>1, <1>3, <1>4, GongCorrect, WholeInit, OnceInit, PTL DEF Spec

=============================================================================
