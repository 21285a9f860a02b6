---------------------------- MODULE GongSyncProofs ----------------------------
(***************************************************************************)
(* Proofs about GongSync, for any instances, labels, customers, calls,     *)
(* docs, windows, fault kinds and bounds.  One inductive invariant carries *)
(* all of them: what a run has in hand (RunInv), wherever it stopped       *)
(* between two remote calls, agrees with the docs and with the sheet.      *)
(* RunInv speaks of a run q and docs D, so that what a run computes can be *)
(* reasoned about before and after the docs change.                        *)
(***************************************************************************)
EXTENDS GongSync, DataLemmas, TLAPS

-----------------------------------------------------------------------------
(* Which account a call belongs to *)

\* Something that ties call c to somebody leads to customer k.
Claims(k, c) == \E l \in Signs(c) \ {0} : Lower[k] = Lower[l]

LEMMA ElementType ==
    ASSUME NEW S, NEW s \in Seq(S), NEW n \in DOMAIN s
    PROVE  s[n] \in S
  OBVIOUS

LEMMA SignsOfAccount ==
    ASSUME NEW c \in Calls, NEW n \in DOMAIN Crm[c]
    PROVE  /\ Crm[c][n] \in [id : Labels, name : Labels]
           /\ {Crm[c][n].id, Crm[c][n].name} \subseteq Signs(c)
<1>1. Crm[c] \in Seq([id : Labels, name : Labels])
  BY LabelsAssumption
<1>2. Crm[c][n] \in [id : Labels, name : Labels]
  BY <1>1, ElementType, Zenon
<1>3. PICK g \in ToSet(Crm[c]) : g = Crm[c][n]
  BY DEF ToSet
<1>4. {g.id, g.name} \in {{o.id, o.name} : o \in ToSet(Crm[c])}
  BY <1>3
<1>5. {g.id, g.name} \subseteq Signs(c)
  BY <1>4, Zenon DEF Signs
<1> QED
  BY <1>2, <1>3, <1>5

LEMMA SignsOfGuest ==
    ASSUME NEW c \in Calls, NEW n \in DOMAIN Parties[c], Parties[c][n].external
    PROVE  /\ Parties[c][n] \in [external : BOOLEAN, company : Labels, domain : Labels]
           /\ {Parties[c][n].company, Parties[c][n].domain} \subseteq Signs(c)
<1>1. Parties[c] \in Seq([external : BOOLEAN, company : Labels, domain : Labels])
  BY LabelsAssumption
<1>2. Parties[c][n] \in [external : BOOLEAN, company : Labels, domain : Labels]
  BY <1>1, ElementType, Zenon
<1>3. PICK g \in Guests(c) : g = Parties[c][n]
  BY DEF ToSet, Guests
<1>4. {g.company, g.domain} \in {{p.company, p.domain} : p \in Guests(c)}
  BY <1>3
<1>5. {g.company, g.domain} \subseteq Signs(c)
  BY <1>4, Zenon DEF Signs
<1> QED
  BY <1>2, <1>3, <1>5

\* get_account_info_from_call makes nothing up: the id and the name are labels of the
\* call's own accounts or external participants.
LEMMA AccountSigns ==
    ASSUME NEW c \in Calls
    PROVE  /\ Id(c) \in Labels /\ Name(c) \in Labels
           /\ {Id(c), Name(c)} \subseteq Signs(c) \cup {0}
<1> DEFINE accounts == {n \in DOMAIN Crm[c] : Crm[c][n].id # 0}
           guests == {n \in DOMAIN Parties[c] :
                        /\ Parties[c][n].external
                        /\ \/ Parties[c][n].company # 0
                           \/ Parties[c][n].domain \notin Generic \cup {0}}
           p == Parties[c][Min(guests)]
           l == IF p.company # 0 THEN p.company ELSE p.domain
<1>1. Account[c] = IF accounts # {} THEN Crm[c][Min(accounts)]
                   ELSE IF guests = {} THEN [id |-> 0, name |-> 0]
                   ELSE [id |-> l, name |-> l]
  BY DEF Account
<1>2. accounts \in SUBSET Nat /\ guests \in SUBSET Nat
  BY LabelsAssumption
<1>3. CASE accounts # {}
  <2>1. Min(accounts) \in accounts
    BY <1>2, <1>3, MinLeast
  <2>2. PICK n \in DOMAIN Crm[c] : n = Min(accounts)
    BY <2>1
  <2>3. PICK o \in [id : Labels, name : Labels] :
          o = Crm[c][n] /\ {o.id, o.name} \subseteq Signs(c)
    BY SignsOfAccount
  <2>4. Account[c] = o
    BY <1>1, <1>3, <2>2, <2>3
  <2> QED
    BY <2>3, <2>4 DEF Id, Name
<1>4. CASE accounts = {} /\ guests = {}
  <2>1. Account[c] = [id |-> 0, name |-> 0]
    BY <1>1, <1>4
  <2> QED
    BY <2>1, LabelsAssumption DEF Id, Name
<1>5. CASE accounts = {} /\ guests # {}
  <2>1. Min(guests) \in guests
    BY <1>2, <1>5, MinLeast
  <2>2. PICK n \in DOMAIN Parties[c] : n = Min(guests) /\ Parties[c][n].external
    BY <2>1
  <2>3. l \in Labels /\ l \in Signs(c)
    BY <2>2, SignsOfGuest
  <2>4. Account[c] = [id |-> l, name |-> l]
    BY <1>1, <1>5
  <2> HIDE DEF l
  <2> QED
    BY <2>3, <2>4 DEF Id, Name
<1> QED
  BY <1>3, <1>4, <1>5

\* find_mapping_for_account finds a customer with a mapping that the call tells of.
LEMMA FindClaims ==
    ASSUME NEW m \in Lists, NEW c \in Calls, Find(m, c) # 0
    PROVE  Find(m, c) \in Mapped(m) /\ Claims(Find(m, c), c)
<1>1. /\ Id(c) \in Labels /\ Name(c) \in Labels
      /\ {Id(c), Name(c)} \subseteq Signs(c) \cup {0}
  BY AccountSigns
<1>2. 0 \notin Mapped(m)
  BY LabelsAssumption DEF Mapped
<1>3. CASE Id(c) \in Mapped(m)
  BY <1>1, <1>2, <1>3 DEF Find, Claims
<1>4. CASE Id(c) \notin Mapped(m) /\ Name(c) \in Mapped(m)
  BY <1>1, <1>2, <1>4 DEF Find, Claims
<1>5. CASE /\ Id(c) \notin Mapped(m) /\ Name(c) \notin Mapped(m)
           /\ SameName(m, c) # {}
  <2>1. PICK k \in SameName(m, c) : k = Find(m, c)
    BY <1>5 DEF Find
  <2> QED
    BY <1>1, <2>1 DEF SameName, Claims
<1> QED
  BY <1>3, <1>4, <1>5 DEF Find

-----------------------------------------------------------------------------
(* The invariant of a run *)

WrittenIn(D) == UNION {Written(D[d].text) : d \in DocIds}

TextOf(k, D) == UNION {Written(D[d].text) : d \in DocsOf(k)}

\* A character is in a doc only with its whole block, together with it or apart.
Complete(D) ==
    \A d \in DocIds : \A s \in DOMAIN D[d].text : D[d].text[s][1] \in Written(D[d].text)

\* Every list of the mapping m is one that the row held at some time.
Loaded(m) == \A k \in Customers : m[k] \in Routes[k] \cup {<<>>}

\* The drain is over before a call is fetched, and only the drain comes to pending.
Phase(q) ==
    /\ q.draining => q.pc \in {"plan", "seed", "items", "drain", "insert", "delete"}
    /\ q.pc \in {"plan", "items", "drain", "delete"} => q.draining

\* The run has a customer in hand: with a doc list that was that customer's.
AtCustomer == {"seed", "items", "drain", "insert", "delete", "call", "alert"}

Placing(q) ==
    q.pc \in AtCustomer => q.cust \in Customers /\ q.route \in Routes[q.cust] \ {<<>>}

\* Positions remembered between two calls stay inside what they point into.
Progress(q, D) ==
    /\ IF q.pc = "seed" THEN q.nread < Len(q.route) ELSE q.nread = 0
    /\ q.pc = "insert" => q.end <= Len(D[Last(q.route)].text)

\* The partitions left to drain have a doc list in the mapping the drain loaded.
Partitions(q) ==
    q.draining /\ q.pc # "plan" => q.parts \subseteq Mapped(q.map) /\ Loaded(q.map)

\* The call in hand is one of the customer's in hand; in the drain every one left is.
Claimed(q) ==
    q.pc \in AtCustomer =>
        \A p \in q.todo : q.draining \/ Current(q, p) => Claims(q.cust, p.call)

\* A drain that comes to the delete call has the call in a doc.
Placed(q, D) ==
    q.pc = "delete" => \A p \in q.todo : Current(q, p) => p.call \in WrittenIn(D)

\* The cached texts show calls that are in docs of the customer, no others.
Grounded(q, D) == \A k \in Customers : \A x \in q.seen[k] : x[1] \in TextOf(k, D)

\* The dates collected for a row are of calls in docs.
Dated(q, D) ==
    q.pc \in {"dates", "write"} =>
        /\ DOMAIN q.found = DOMAIN FirstRows
        /\ \A n \in DOMAIN FirstRows :
             q.found[n] \subseteq {Date[c] : c \in WrittenIn(D)} /\ Bounded(q.found[n])
        /\ \A x \in q.left : x[1] \in DOMAIN FirstRows

RunInv(q, D) ==
    /\ Phase(q) /\ Placing(q) /\ Progress(q, D) /\ Partitions(q)
    /\ Claimed(q) /\ Placed(q, D) /\ Grounded(q, D) /\ Dated(q, D)

Sound(q, D) == q \in Run /\ RunInv(q, D)

\* The docs D have become E: no doc lost a call.
Grown(D, E) ==
    /\ D \in [DocIds -> Doc] /\ E \in [DocIds -> Doc]
    /\ \A d \in DocIds : /\ Len(D[d].text) <= Len(E[d].text)
                         /\ Written(D[d].text) \subseteq Written(E[d].text)

-----------------------------------------------------------------------------
(* What a run computes between two calls *)

\* The loop is at one item.
LEMMA CurrentUnique ==
    ASSUME NEW q \in Run, NEW x \in q.todo, NEW y \in q.todo, Current(q, x), Current(q, y)
    PROVE  x = y
<1>1. x \in Item /\ y \in Item
  BY DEF Run
<1>2. x.at \in Nat /\ y.at \in Nat /\ x.call \in Nat /\ y.call \in Nat
  BY <1>1, CallsAssumption DEF Item
<1>3. x # y => /\ x.at < y.at \/ (x.at = y.at /\ x.call < y.call)
               /\ y.at < x.at \/ (y.at = x.at /\ y.call < x.call)
  BY DEF Current
<1> QED
  BY <1>2, <1>3

LEMMA NoListsType == NoLists \in Lists
  BY DEF NoLists, Lists

LEMMA Empties == 0 \in Labels /\ <<>> \in Seq(DocIds)
  BY LabelsAssumption

LEMMA IdleType == Idle \in Run
  BY NoListsType, LabelsAssumption DEF Idle, Run

LEMMA DocsOfType ==
    ASSUME NEW k \in Customers
    PROVE  DocsOf(k) \subseteq DocIds
<1>1. ASSUME NEW list \in Routes[k] PROVE ToSet(list) \subseteq DocIds
  BY ListsAssumption DEF ToSet
<1> QED
  BY <1>1 DEF DocsOf

\* The docs of a list that was the customer's are the customer's.
LEMMA RouteDocs ==
    ASSUME NEW k \in Customers, NEW list \in Routes[k], list # <<>>
    PROVE  /\ list \in Seq(DocIds) /\ Len(list) \in Nat /\ Len(list) > 0
           /\ \A n \in 1..Len(list) : list[n] \in DocsOf(k)
           /\ Last(list) \in DocsOf(k)
<1>1. list \in Seq(DocIds)
  BY ListsAssumption
<1>2. Len(list) \in Nat /\ Len(list) > 0 /\ DOMAIN list = 1..Len(list)
  BY <1>1
<1>3. ASSUME NEW n \in 1..Len(list) PROVE list[n] \in DocsOf(k)
  BY <1>2 DEF DocsOf, ToSet
<1>4. Last(list) = list[Len(list)] /\ Len(list) \in 1..Len(list)
  BY <1>2 DEF Last
<1> QED
  BY <1>1, <1>2, <1>3, <1>4

\* A run that has not begun, or that is through with its calls.
LEMMA ClearSound ==
    ASSUME NEW D, NEW q \in Run, q.nread = 0, q.seen = Idle.seen,
           q.pc \in {"idle", "plan", "fetch", "sheet"}, q.draining <=> q.pc = "plan"
    PROVE  RunInv(q, D)
<1>1. \A k \in Customers : q.seen[k] = {}
  BY DEF Idle
<1>2. Phase(q) /\ Placing(q) /\ Progress(q, D) /\ Partitions(q)
  BY DEF Phase, Placing, Progress, Partitions, AtCustomer
<1>3. Claimed(q) /\ Placed(q, D) /\ Grounded(q, D) /\ Dated(q, D)
  BY <1>1 DEF Claimed, Placed, Grounded, Dated, AtCustomer
<1> QED
  BY <1>2, <1>3 DEF RunInv

LEMMA IdleSound ==
    ASSUME NEW D, NEW pc \in {"idle", "fetch", "sheet"}, NEW filter \in Labels
    PROVE  /\ Sound(Idle, D)
           /\ Sound([Idle EXCEPT !.pc = pc], D)
           /\ Sound([[Idle EXCEPT !.filter = filter] EXCEPT !.pc = pc], D)
<1>1. PICK idle \in Run : idle = Idle
  BY IdleType
<1>2. PICK r : r = [idle EXCEPT !.pc = pc]
  OBVIOUS
<1>3. PICK t : t = [[idle EXCEPT !.filter = filter] EXCEPT !.pc = pc]
  OBVIOUS
<1>4. idle.pc = "idle" /\ idle.nread = 0 /\ idle.draining = FALSE /\ idle.seen = Idle.seen
  BY <1>1 DEF Idle
<1>5. /\ r \in Run /\ r.pc = pc /\ r.nread = 0 /\ r.draining = FALSE /\ r.seen = Idle.seen
      /\ t \in Run /\ t.pc = pc /\ t.nread = 0 /\ t.draining = FALSE /\ t.seen = Idle.seen
  BY <1>2, <1>3, <1>4 DEF Run
<1>6. RunInv(idle, D) /\ RunInv(r, D) /\ RunInv(t, D)
  BY <1>4, <1>5, ClearSound
<1> QED
  BY <1>1, <1>2, <1>3, <1>5, <1>6 DEF Sound

LEMMA MappedType ==
    ASSUME NEW m \in Lists, NEW k \in Mapped(m), Loaded(m)
    PROVE  k \in Customers /\ m[k] \in Routes[k] \ {<<>>}
  BY DEF Mapped, Loaded

\* The drain comes to a partition with a mapping, or is done.
LEMMA NextPartitionSound ==
    ASSUME NEW D, NEW q \in Run, q.nread = 0, Grounded(q, D), q.draining,
           q.parts \subseteq Mapped(q.map), Loaded(q.map)
    PROVE  Sound(NextPartition(q), D)
<1>1. CASE q.parts = {}
  <2>1. PICK r : r = [q EXCEPT !.pc = "fetch", !.draining = FALSE, !.map = NoLists,
                               !.cust = 0, !.route = <<>>, !.todo = {}]
    OBVIOUS
  <2>2. /\ r \in Run /\ r.pc = "fetch" /\ r.draining = FALSE
        /\ r.seen = q.seen /\ r.nread = 0
    BY <2>1, NoListsType, Empties DEF Run
  <2>3. Phase(r) /\ Placing(r) /\ Progress(r, D) /\ Partitions(r)
    BY <2>2 DEF Phase, Placing, Progress, Partitions, AtCustomer
  <2>4. Claimed(r) /\ Placed(r, D) /\ Grounded(r, D) /\ Dated(r, D)
    BY <2>2 DEF Claimed, Placed, Grounded, Dated, AtCustomer
  <2>5. NextPartition(q) = r
    BY <1>1, <2>1 DEF NextPartition
  <2> QED
    BY <2>2, <2>3, <2>4, <2>5 DEF Sound, RunInv
<1>2. CASE q.parts # {}
  <2>1. q.parts \in SUBSET Customers /\ q.map \in Lists
    BY DEF Run
  <2>2. q.parts \in SUBSET Nat
    BY <2>1, LabelsAssumption
  <2>3. PICK k \in q.parts : k = Min(q.parts)
    BY <1>2, <2>2, MinLeast
  <2>4. k \in Customers /\ q.map[k] \in Routes[k] \ {<<>>}
    BY <2>1, MappedType
  <2>5. PICK list : list = q.map[k] /\ list \in Routes[k] \ {<<>>}
    BY <2>4
  <2>6. list \in Seq(DocIds) /\ Len(list) \in Nat /\ 0 < Len(list) /\ k \in Labels
    BY <2>4, <2>5, RouteDocs, LabelsAssumption
  <2>7. PICK r : r = [q EXCEPT !.pc = "seed", !.parts = @ \ {k}, !.cust = k,
                               !.route = list, !.todo = {}]
    OBVIOUS
  <2>8. /\ r.pc = "seed" /\ r.parts = q.parts \ {k} /\ r.cust = k /\ r.route = list
        /\ r.todo = {} /\ r.nread = 0 /\ r.seen = q.seen /\ r.map = q.map /\ r.draining
    BY <2>7 DEF Run
  <2>9. r \in Run
    BY <2>4, <2>6, <2>7 DEF Run
  <2>10. Phase(r) /\ Placing(r) /\ Progress(r, D) /\ Partitions(r)
    BY <2>1, <2>4, <2>5, <2>6, <2>8 DEF Phase, Placing, Progress, Partitions
  <2>11. Claimed(r) /\ Placed(r, D) /\ Grounded(r, D) /\ Dated(r, D)
    BY <2>8 DEF Claimed, Placed, Grounded, Dated
  <2>12. NextPartition(q) = r
    BY <1>2, <2>3, <2>5, <2>7 DEF NextPartition
  <2> QED
    BY <2>9, <2>10, <2>11, <2>12 DEF Sound, RunInv
<1> QED
  BY <1>1, <1>2

\* The drain comes to an item of its partition, or is done with the partition.
LEMMA LoopItemsSound ==
    ASSUME NEW D, NEW q \in Run, q.nread = 0, Grounded(q, D), q.draining,
           q.parts \subseteq Mapped(q.map), Loaded(q.map),
           q.cust \in Customers, q.route \in Routes[q.cust] \ {<<>>},
           \A p \in q.todo : Claims(q.cust, p.call)
    PROVE  Sound(LoopItems(q), D)
<1>1. CASE q.todo = {}
  BY <1>1, NextPartitionSound DEF LoopItems
<1>2. CASE q.todo # {}
  <2>1. PICK r : r = [q EXCEPT !.pc = "drain"]
    OBVIOUS
  <2>2. /\ r \in Run /\ r.pc = "drain" /\ r.draining /\ r.nread = 0 /\ r.seen = q.seen
        /\ r.parts = q.parts /\ r.map = q.map /\ r.cust = q.cust /\ r.route = q.route
        /\ r.todo = q.todo
    BY <2>1 DEF Run
  <2>3. Phase(r) /\ Placing(r) /\ Progress(r, D) /\ Partitions(r)
    BY <2>2 DEF Phase, Placing, Progress, Partitions
  <2>4. Claimed(r) /\ Placed(r, D) /\ Grounded(r, D) /\ Dated(r, D)
    BY <2>2 DEF Claimed, Placed, Grounded, Dated
  <2>5. LoopItems(q) = r
    BY <1>2, <2>1 DEF LoopItems
  <2> QED
    BY <2>2, <2>3, <2>4, <2>5 DEF Sound, RunInv
<1> QED
  BY <1>1, <1>2

\* process_calls comes to a call, or is done with the calls.
LEMMA LoopCallsSound ==
    ASSUME NEW D, NEW q \in Run, q.nread = 0, Grounded(q, D), q.draining = FALSE
    PROVE  Sound(LoopCalls(q), D)
<1>1. CASE q.todo = {}
  BY <1>1, IdleSound, LabelsAssumption DEF LoopCalls
<1>2. CASE q.todo # {}
  <2>1. PICK r : r = [q EXCEPT !.pc = "route", !.cust = 0, !.route = <<>>]
    OBVIOUS
  <2>2. /\ r \in Run /\ r.pc = "route" /\ r.draining = FALSE
        /\ r.nread = 0 /\ r.seen = q.seen
    BY <2>1, Empties DEF Run
  <2>3. Phase(r) /\ Placing(r) /\ Progress(r, D) /\ Partitions(r)
    BY <2>2 DEF Phase, Placing, Progress, Partitions, AtCustomer
  <2>4. Claimed(r) /\ Placed(r, D) /\ Grounded(r, D) /\ Dated(r, D)
    BY <2>2 DEF Claimed, Placed, Grounded, Dated, AtCustomer
  <2>5. LoopCalls(q) = r
    BY <1>2, <2>1 DEF LoopCalls
  <2> QED
    BY <2>2, <2>3, <2>4, <2>5 DEF Sound, RunInv
<1> QED
  BY <1>1, <1>2

\* Either loop goes on after an item.
LEMMA PastSound ==
    ASSUME NEW D, NEW q \in Run, NEW p, RunInv(q, D),
           q.pc \in {"drain", "insert", "delete", "route", "call", "alert"}
    PROVE  Sound(Past(q, p), D)
<1>1. PICK r : r = [q EXCEPT !.todo = @ \ {p}]
  OBVIOUS
<1>2. /\ r \in Run /\ r.pc = q.pc /\ r.draining = q.draining /\ r.seen = q.seen
      /\ r.parts = q.parts /\ r.map = q.map /\ r.cust = q.cust /\ r.route = q.route
      /\ r.todo = q.todo \ {p} /\ r.nread = q.nread
  BY <1>1 DEF Run
<1>3. r.nread = 0 /\ Grounded(r, D)
  BY <1>2 DEF RunInv, Progress, Grounded
<1>4. CASE q.draining
  <2>1. r.parts \subseteq Mapped(r.map) /\ Loaded(r.map)
    BY <1>2, <1>4 DEF RunInv, Partitions
  <2>2. q.pc \in AtCustomer
    BY <1>4 DEF RunInv, Phase, AtCustomer
  <2>3. r.cust \in Customers /\ r.route \in Routes[r.cust] \ {<<>>}
    BY <1>2, <2>2 DEF RunInv, Placing
  <2>4. \A x \in r.todo : Claims(r.cust, x.call)
    BY <1>2, <1>4, <2>2 DEF RunInv, Claimed
  <2>5. Past(q, p) = LoopItems(r)
    BY <1>1, <1>4 DEF Past
  <2> QED
    BY <1>2, <1>3, <1>4, <2>1, <2>3, <2>4, <2>5, LoopItemsSound
<1>5. CASE q.draining = FALSE
  <2>1. Past(q, p) = LoopCalls(r)
    BY <1>1, <1>5 DEF Past
  <2> QED
    BY <1>2, <1>3, <1>5, <2>1, LoopCallsSound
<1>6. q.draining \in BOOLEAN
  BY DEF Run
<1> QED
  BY <1>4, <1>5, <1>6

-----------------------------------------------------------------------------
(* The docs grow under the runs *)

LEMMA SameGrown ==
    ASSUME NEW D \in [DocIds -> Doc]
    PROVE  Grown(D, D)
<1>1. \A d \in DocIds : Len(D[d].text) \in Nat
  BY DEF Doc
<1> QED
  BY <1>1 DEF Grown

LEMMA GrownTexts ==
    ASSUME NEW D, NEW E, Grown(D, E)
    PROVE  /\ WrittenIn(D) \subseteq WrittenIn(E)
           /\ \A k \in Customers : TextOf(k, D) \subseteq TextOf(k, E)
<1>1. \A d \in DocIds : Written(D[d].text) \subseteq Written(E[d].text)
  BY DEF Grown
<1>2. WrittenIn(D) \subseteq WrittenIn(E)
  BY <1>1, Zenon DEF WrittenIn
<1>3. ASSUME NEW k \in Customers
      PROVE  TextOf(k, D) \subseteq TextOf(k, E)
  <2>1. \A d \in DocsOf(k) : d \in DocIds
    BY DocsOfType
  <2> QED
    BY <1>1, <2>1, Zenon DEF TextOf
<1> QED
  BY <1>2, <1>3

\* A run that stands still keeps its invariant while the docs grow.
LEMMA GrownSound ==
    ASSUME NEW D, NEW E, Grown(D, E), NEW q, Sound(q, D)
    PROVE  Sound(q, E)
<1>1. /\ WrittenIn(D) \subseteq WrittenIn(E)
      /\ \A k \in Customers : TextOf(k, D) \subseteq TextOf(k, E)
  BY GrownTexts
<1>2. q \in Run /\ RunInv(q, D)
  BY DEF Sound
<1>3. Phase(q) /\ Placing(q) /\ Partitions(q) /\ Claimed(q)
  BY <1>2 DEF RunInv
<1>4. Placed(q, E) /\ Grounded(q, E)
  BY <1>1, <1>2 DEF RunInv, Placed, Grounded
<1>5. Dated(q, E)
  <2>1. {Date[c] : c \in WrittenIn(D)} \subseteq {Date[c] : c \in WrittenIn(E)}
    BY <1>1
  <2> QED
    BY <1>2, <2>1 DEF RunInv, Dated
<1>6. Progress(q, E)
  <2>1. CASE q.pc # "insert"
    BY <1>2, <2>1 DEF RunInv, Progress
  <2>2. CASE q.pc = "insert"
    <3>1. q.cust \in Customers /\ q.route \in Routes[q.cust] /\ q.route # <<>>
      BY <1>3, <2>2 DEF Placing, AtCustomer
    <3>2. Last(q.route) \in DocIds
      BY <3>1, RouteDocs, DocsOfType
    <3>3. PICK m, n : m = Len(D[Last(q.route)].text) /\ n = Len(E[Last(q.route)].text)
      OBVIOUS
    <3>4. m \in Nat /\ n \in Nat /\ m <= n
      BY <3>2, <3>3 DEF Grown, Doc
    <3>5. q.end \in Nat /\ q.end <= m /\ q.nread = 0
      BY <1>2, <2>2, <3>3 DEF RunInv, Progress, Run
    <3>6. q.end <= n
      BY <3>4, <3>5
    <3> QED
      BY <2>2, <3>3, <3>5, <3>6 DEF Progress
  <2> QED
    BY <2>1, <2>2
<1> QED
  BY <1>2, <1>3, <1>4, <1>5, <1>6 DEF Sound, RunInv

\* A title or a date that a search finds is of a call that was written.
LEMMA LegibleIsWritten ==
    ASSUME NEW D, Complete(D), NEW d \in DocIds, NEW x \in Legible(D[d].text)
    PROVE  x[1] \in Written(D[d].text)
<1>1. PICK c \in Calls : c = x[1] /\ x[2] \in {"title", "date"}
  BY DEF Legible, Marks
<1>2. PICK first \in Nat, last \in Nat :
        /\ first <= last
        /\ Shows(D[d].text, c, first, last)
  <2>1. /\ TitleAt[c] \in Nat \X Nat /\ DateAt[c] \in Nat \X Nat
        /\ TitleAt[c][1] <= TitleAt[c][2] /\ DateAt[c][1] <= DateAt[c][2]
    BY CallsAssumption
  <2>2. PICK at \in {TitleAt[c], DateAt[c]} : Shows(D[d].text, c, at[1], at[2])
    BY <1>1 DEF Legible
  <2> QED
    BY <2>1, <2>2
<1>3. PICK s \in DOMAIN D[d].text : D[d].text[s] = <<c, first>>
  BY <1>2, ShownIsThere
<1>4. D[d].text[s][1] = c
  BY <1>3
<1> QED
  BY <1>1, <1>4 DEF Complete

\* Text t has what text has, and the block of call c.
Gains(text, t, c) ==
    /\ t \in Seq(Calls \X Nat)
    /\ Len(t) = Len(text) + Chars[c]
    /\ Written(t) = Written(text) \cup {c}
    /\ \A s \in DOMAIN t : t[s][1] = c \/ \E j \in DOMAIN text : t[s] = text[j]

\* What is written after a block was inserted, and which characters are there.
LEMMA WrittenSpliced ==
    ASSUME NEW text \in Seq(Calls \X Nat), NEW end \in 0..Len(text), NEW c \in Calls,
           NEW t, t = Spliced(text, end, Block(c, Chars[c]))
    PROVE  Gains(text, t, c)
<1>1. PICK C : C = Calls \X Nat
  OBVIOUS
<1>2. Chars[c] \in Nat /\ text \in Seq(C) /\ Block(c, Chars[c]) \in Seq(C)
  BY <1>1, CallsAssumption, BlockType
<1>3. t \in Seq(C) /\ Len(t) = Len(text) + Chars[c]
  BY <1>2, SplicedPositions
<1>4. c \in Written(t)
  BY <1>2, SplicedGains DEF Written
<1>5. ASSUME NEW o \in Calls, Holds(text, o, Chars[o])
      PROVE  Holds(t, o, Chars[o])
  <2>1. Chars[o] \in Nat
    BY CallsAssumption
  <2> QED
    BY <1>2, <1>5, <2>1, SplicedKeeps
<1>6. ASSUME NEW o \in Calls, o # c, Holds(t, o, Chars[o])
      PROVE  Holds(text, o, Chars[o])
  <2>1. Chars[o] \in Nat
    BY CallsAssumption
  <2> QED
    BY <1>2, <1>6, <2>1, SplicedAddsNoOther
<1>7. Written(t) = Written(text) \cup {c}
  BY <1>4, <1>5, <1>6 DEF Written
<1>8. ASSUME NEW s \in DOMAIN t
      PROVE  t[s][1] = c \/ \E j \in DOMAIN text : t[s] = text[j]
  <2>1. \/ \E j \in DOMAIN text : t[s] = text[j]
        \/ \E n \in 1..Chars[c] : t[s] = <<c, n>>
    BY <1>2, SplicedOrigins
  <2> QED
    BY <2>1
<1> QED
  BY <1>1, <1>3, <1>7, <1>8 DEF Gains

\* Writing a block: the doc has it from then on, and keeps what it had.
LEMMA WriteStep ==
    ASSUME docs \in [DocIds -> Doc], NEW d \in DocIds,
           NEW k \in 0..Len(docs[d].text), NEW c \in Calls, Write(d, k, c)
    PROVE  /\ Grown(docs, docs')
           /\ docs'[d].text = Spliced(docs[d].text, k, Block(c, Chars[c]))
           /\ Written(docs'[d].text) = Written(docs[d].text) \cup {c}
           /\ \A s \in DOMAIN docs'[d].text :
                 \/ docs'[d].text[s][1] = c
                 \/ \E j \in DOMAIN docs[d].text : docs'[d].text[s] = docs[d].text[j]
           /\ \A e \in DocIds \ {d} : docs'[e] = docs[e]
           /\ WrittenIn(docs') = WrittenIn(docs) \cup {c}
           /\ Complete(docs) => Complete(docs')
<1>1. PICK text : text = docs[d].text
  OBVIOUS
<1>2. text \in Seq(Calls \X Nat) /\ docs[d].bytes \in Nat
  BY <1>1 DEF Doc
<1>3. PICK t : t = Spliced(text, k, Block(c, Chars[c]))
  OBVIOUS
<1>4. /\ t \in Seq(Calls \X Nat)
      /\ Len(t) = Len(text) + Chars[c]
      /\ Written(t) = Written(text) \cup {c}
      /\ \A s \in DOMAIN t : t[s][1] = c \/ \E j \in DOMAIN text : t[s] = text[j]
  <2>1. PICK end \in 0..Len(text) : end = k
    BY <1>1
  <2>2. t = Spliced(text, end, Block(c, Chars[c]))
    BY <1>3, <2>1
  <2>3. Gains(text, t, c)
    BY <1>2, <2>2, WrittenSpliced
  <2> QED
    BY <2>3 DEF Gains
<1>5. PICK new \in Doc : new = [text |-> t, bytes |-> docs[d].bytes + Size[c]]
  <2>1. PICK C : C = Calls \X Nat
    OBVIOUS
  <2>2. Size[c] \in Nat
    BY CallsAssumption
  <2>3. /\ t \in Seq(C) /\ docs[d].bytes + Size[c] \in Nat
        /\ Doc = [text : Seq(C), bytes : Nat]
    BY <1>2, <1>4, <2>1, <2>2 DEF Doc
  <2> QED
    BY <2>3
<1>6. docs' = [docs EXCEPT ![d] = new]
  BY <1>1, <1>3, <1>5 DEF Write
<1>7. /\ docs' \in [DocIds -> Doc]
      /\ docs'[d] = new /\ docs'[d].text = t
      /\ \A e \in DocIds \ {d} : docs'[e] = docs[e]
  BY <1>5, <1>6
<1>8. Grown(docs, docs')
  <2>1. \A e \in DocIds : Len(docs[e].text) \in Nat
    BY DEF Doc
  <2>2. Chars[c] \in Nat
    BY CallsAssumption
  <2>3. Len(docs[d].text) <= Len(docs'[d].text)
    BY <1>1, <1>4, <1>7, <2>1, <2>2
  <2>4. Written(docs[d].text) \subseteq Written(docs'[d].text)
    BY <1>1, <1>4, <1>7
  <2> QED
    BY <1>7, <2>1, <2>3, <2>4 DEF Grown
<1>9. WrittenIn(docs') = WrittenIn(docs) \cup {c}
  <2>1. Written(docs'[d].text) = Written(docs[d].text) \cup {c}
    BY <1>1, <1>4, <1>7
  <2>2. \A e \in DocIds \ {d} : Written(docs'[e].text) = Written(docs[e].text)
    BY <1>7
  <2> QED
    BY <2>1, <2>2, Zenon DEF WrittenIn
<1>10. ASSUME Complete(docs) PROVE Complete(docs')
  <2>1. ASSUME NEW s \in DOMAIN t PROVE t[s][1] \in Written(t)
    <3>1. \A j \in DOMAIN text : text[j][1] \in Written(text)
      BY <1>1, <1>10 DEF Complete
    <3> QED
      BY <1>4, <3>1
  <2> QED
    BY <1>7, <1>10, <2>1 DEF Complete
<1> QED
  BY <1>1, <1>3, <1>4, <1>7, <1>8, <1>9, <1>10

-----------------------------------------------------------------------------
(* The invariant *)

Runs == \A i \in Instances : RunInv(run[i], docs)

Mappings ==
    /\ \A k \in Customers : lists[k] \in Routes[k]
    /\ \A i \in Instances : Loaded(mapCache[i].lists)

\* What waits for a customer is a call that tells of the customer.
Waiting == \A p \in pending : Claims(p.cust, p.call)

GongInv ==
    /\ TypeOK /\ Runs /\ Complete(docs) /\ Mappings /\ Waiting
    /\ DOMAIN rows = DOMAIN FirstRows
    /\ KeptApart /\ DatesAreWritten

LEMMA RunFacts ==
    ASSUME GongInv, NEW i \in Instances
    PROVE  Sound(run[i], docs)
  BY DEF GongInv, TypeOK, Runs, Sound

\* The run of i goes on to one that agrees with the docs as they are then.
Steps(i) == \E r : Become(i, r) /\ Sound(r, docs')

\* The others stand still meanwhile.
LEMMA StepsRuns ==
    ASSUME GongInv, NEW i \in Instances, Steps(i), Grown(docs, docs')
    PROVE  run' \in [Instances -> Run] /\ Runs'
<1>1. PICK r : Become(i, r) /\ Sound(r, docs')
  BY DEF Steps
<1>2. run \in [Instances -> Run]
  BY DEF GongInv, TypeOK
<1>3. r \in Run /\ RunInv(r, docs')
  BY <1>1 DEF Sound
<1>4. /\ run' \in [Instances -> Run] /\ run'[i] = r
      /\ \A j \in Instances \ {i} : run'[j] = run[j]
  BY <1>1, <1>2, <1>3 DEF Become
<1>5. \A j \in Instances : Sound(run[j], docs')
  BY RunFacts, GrownSound
<1>6. ASSUME NEW j \in Instances PROVE RunInv(run'[j], docs')
  BY <1>3, <1>4, <1>5 DEF Sound
<1> QED
  BY <1>4, <1>6 DEF Runs

LEMMA FaultType ==
    ASSUME faults \in 0..MaxFaults, NEW k, Fault(k)
    PROVE  faults' \in 0..MaxFaults
  BY BoundsAssumption DEF Fault

LEMMA LoadStep ==
    ASSUME GongInv, NEW i \in Instances, NEW m, LoadMapping(i, m)
    PROVE  /\ m \in Lists /\ Loaded(m)
           /\ mapCache' \in [Instances -> MapEntry]
           /\ \A j \in Instances : Loaded(mapCache'[j].lists)
           /\ faults' \in 0..MaxFaults
<1>1. /\ lists \in Lists /\ mapCache \in [Instances -> MapEntry]
      /\ faults \in 0..MaxFaults /\ mapCache[i].lists \in Lists
  BY DEF GongInv, TypeOK, MapEntry
<1>2. Loaded(lists) /\ \A j \in Instances : Loaded(mapCache[j].lists)
  BY DEF GongInv, Mappings, Loaded
<1>3. PICK entry : entry = [lists |-> lists, fresh |-> TRUE]
  OBVIOUS
<1>4. entry \in MapEntry /\ Loaded(entry.lists)
  BY <1>1, <1>2, <1>3 DEF MapEntry
<1>5. CASE mapCache' = [mapCache EXCEPT ![i] = entry] /\ m = lists /\ UNCHANGED faults
  <2>1. /\ mapCache' \in [Instances -> MapEntry] /\ mapCache'[i] = entry
        /\ \A j \in Instances \ {i} : mapCache'[j] = mapCache[j]
    BY <1>1, <1>4, <1>5
  <2> QED
    BY <1>1, <1>2, <1>4, <1>5, <2>1
<1>6. CASE /\ UNCHANGED mapCache
           /\ m = mapCache[i].lists
           /\ UNCHANGED faults \/ Fault("mapping")
  BY <1>1, <1>2, <1>6, FaultType
<1>7. \/ /\ UNCHANGED mapCache
         /\ m = mapCache[i].lists
         /\ UNCHANGED faults \/ Fault("mapping")
      \/ mapCache' = [mapCache EXCEPT ![i] = entry] /\ m = lists /\ UNCHANGED faults
  BY <1>3 DEF LoadMapping
<1> QED
  BY <1>5, <1>6, <1>7
-----------------------------------------------------------------------------
(* The steps of the drain *)

LEMMA BeginStep ==
    ASSUME GongInv, NEW i \in Instances, NEW filter \in Labels, Begin(i, filter),
           docs' = docs
    PROVE  Steps(i) /\ faults' \in 0..MaxFaults
<1> DEFINE parts == {p.cust : p \in pending}
           begun == [Idle EXCEPT !.filter = filter]
<1>1. faults \in 0..MaxFaults /\ parts \in SUBSET Customers
  BY DEF GongInv, TypeOK
<1>2. Sound([begun EXCEPT !.pc = "fetch"], docs')
  BY IdleSound
<1>3. Sound([begun EXCEPT !.pc = "plan", !.draining = TRUE, !.parts = parts], docs')
  <2> HIDE DEF parts
  <2>1. PICK idle \in Run : idle = Idle
    BY IdleType
  <2>2. PICK q : q = [idle EXCEPT !.filter = filter]
    OBVIOUS
  <2>3. q \in Run /\ q.nread = 0 /\ q.seen = Idle.seen
    BY <2>1, <2>2 DEF Run, Idle
  <2>4. PICK r : r = [q EXCEPT !.pc = "plan", !.draining = TRUE, !.parts = parts]
    OBVIOUS
  <2>5. r \in Run /\ r.nread = 0 /\ r.seen = Idle.seen /\ r.pc = "plan" /\ r.draining = TRUE
    BY <1>1, <2>3, <2>4 DEF Run
  <2> QED
    BY <2>1, <2>2, <2>4, <2>5, ClearSound DEF Sound
<1>4. \/ Become(i, [begun EXCEPT !.pc = "fetch"])
      \/ Become(i, [begun EXCEPT !.pc = "plan", !.draining = TRUE, !.parts = parts])
  BY DEF Begin
<1>5. faults' \in 0..MaxFaults
  BY <1>1, FaultType DEF Begin
<1> HIDE DEF begun, parts
<1> QED
  BY <1>2, <1>3, <1>4, <1>5 DEF Steps

LEMMA PlanStep ==
    ASSUME GongInv, NEW i \in Instances, Plan(i)
    PROVE  Steps(i)
<1>1. PICK q : q = run[i] /\ q \in Run /\ RunInv(q, docs)
  BY RunFacts DEF Sound
<1>2. PICK m : /\ LoadMapping(i, m)
               /\ Become(i, NextPartition([q EXCEPT !.map = m, !.parts = @ \cap Mapped(m)]))
  BY <1>1 DEF Plan
<1>3. m \in Lists /\ Loaded(m)
  BY <1>2, LoadStep
<1>4. q.pc = "plan" /\ docs' = docs
  BY <1>1 DEF Plan, store
<1>5. q.draining /\ q.nread = 0 /\ Grounded(q, docs')
  BY <1>1, <1>4 DEF RunInv, Phase, Progress
<1>6. PICK parts \in SUBSET Customers : parts = q.parts \cap Mapped(m)
  BY <1>1 DEF Run
<1>7. PICK r : r = [q EXCEPT !.map = m, !.parts = parts]
  OBVIOUS
<1>8. /\ r.map = m /\ r.parts = parts /\ r.draining
      /\ r.nread = 0 /\ r.seen = q.seen
  BY <1>1, <1>5, <1>7 DEF Run
<1>11. r \in Run
  BY <1>1, <1>3, <1>7 DEF Run
<1>9. Sound(NextPartition(r), docs')
  BY <1>3, <1>5, <1>6, <1>8, <1>11, NextPartitionSound DEF Grounded
<1>10. Become(i, NextPartition(r))
  BY <1>2, <1>6, <1>7
<1> QED
  BY <1>9, <1>10 DEF Steps

LEMMA SeedStep ==
    ASSUME GongInv, NEW i \in Instances, Seed(i)
    PROVE  Steps(i) /\ faults' \in 0..MaxFaults
<1>1. PICK q : q = run[i] /\ q \in Run /\ RunInv(q, docs)
  BY RunFacts DEF Sound
<1>2. q.pc = "seed" /\ docs' = docs
  BY <1>1 DEF Seed, store
<1>3. PICK k \in Customers : k = q.cust /\ q.route \in Routes[k] /\ q.route # <<>>
  BY <1>1, <1>2 DEF RunInv, Placing, AtCustomer
<1>4. /\ Len(q.route) \in Nat /\ q.nread \in Nat /\ q.nread < Len(q.route)
      /\ \A n \in 1..Len(q.route) : q.route[n] \in DocsOf(k)
  BY <1>1, <1>2, <1>3, RouteDocs DEF RunInv, Progress, Run
<1>5. PICK d \in DocsOf(k) : d = q.route[q.nread + 1]
  BY <1>4
<1>6. d \in DocIds /\ docs[d] \in Doc
  BY <1>3, DocsOfType DEF GongInv, TypeOK
<1> DEFINE last == q.nread + 1 = Len(q.route)
           Next1(marks, bytes) ==
             [q EXCEPT !.seen[q.cust] = @ \cup marks,
                       !.bytes[q.cust] = @ + bytes,
                       !.seeded = IF last THEN @ \cup {q.cust} ELSE @,
                       !.nread = IF last THEN 0 ELSE @ + 1,
                       !.pc = IF ~last THEN "seed"
                              ELSE IF q.draining THEN "items" ELSE "call"]
<1>7. PICK marks \in SUBSET Marks, bytes \in Nat :
        /\ marks \subseteq Legible(docs[d].text)
        /\ Become(i, Next1(marks, bytes))
        /\ UNCHANGED faults \/ Fault("read")
  <2>1. \/ /\ Become(i, Next1(Legible(docs[d].text), docs[d].bytes))
           /\ UNCHANGED faults
        \/ Become(i, Next1({}, 0)) /\ Fault("read")
    BY <1>1, <1>5 DEF Seed
  <2> HIDE DEF Next1
  <2>2. Legible(docs[d].text) \in SUBSET Marks /\ docs[d].bytes \in Nat
    BY <1>6 DEF Doc, Legible
  <2> QED
    BY <2>1, <2>2
<1>8. faults' \in 0..MaxFaults
  BY <1>7, FaultType DEF GongInv, TypeOK
<1>20. PICK pc : pc = IF ~last THEN "seed" ELSE IF q.draining THEN "items" ELSE "call"
  OBVIOUS
<1>9. PICK nread \in Nat, seeded \in SUBSET Customers :
        /\ nread = IF last THEN 0 ELSE q.nread + 1
        /\ seeded = IF last THEN q.seeded \cup {q.cust} ELSE q.seeded
  <2>1. (IF last THEN 0 ELSE q.nread + 1) \in Nat
    BY <1>4
  <2>2. (IF last THEN q.seeded \cup {q.cust} ELSE q.seeded) \in SUBSET Customers
    BY <1>1, <1>3 DEF Run
  <2> QED
    BY <2>1, <2>2
<1>10. /\ \/ pc = "seed" /\ nread < Len(q.route)
          \/ pc \in {"items", "call"} /\ nread = 0
       /\ pc = "items" => q.draining
       /\ pc = "call" => ~q.draining
  <2>1. CASE last
    <3>1. nread = 0
      BY <1>9, <2>1
    <3>2. pc = IF q.draining THEN "items" ELSE "call"
      BY <1>20, <2>1
    <3> QED
      BY <3>1, <3>2
  <2>2. CASE ~last
    <3>1. nread = q.nread + 1 /\ nread < Len(q.route)
      BY <1>4, <1>9, <2>2
    <3>2. pc = "seed"
      BY <1>20, <2>2
    <3> QED
      BY <3>1, <3>2
  <2> QED
    BY <2>1, <2>2
<1>11. PICK seen \in [Customers -> SUBSET Marks], size \in [Customers -> Nat] :
         /\ seen = [q.seen EXCEPT ![k] = @ \cup marks]
         /\ size = [q.bytes EXCEPT ![k] = @ + bytes]
  <2>1. q.seen \in [Customers -> SUBSET Marks] /\ q.bytes \in [Customers -> Nat]
    BY <1>1 DEF Run
  <2>2. /\ [q.seen EXCEPT ![k] = @ \cup marks] \in [Customers -> SUBSET Marks]
        /\ [q.bytes EXCEPT ![k] = @ + bytes] \in [Customers -> Nat]
    BY <2>1
  <2> QED
    BY <2>2
<1>12. PICK r : r = [q EXCEPT !.seen = seen, !.bytes = size, !.seeded = seeded,
                              !.nread = nread, !.pc = pc]
  OBVIOUS
<1>13. Become(i, r)
  <2>1. Next1(marks, bytes) = r
    BY <1>1, <1>3, <1>9, <1>11, <1>12, <1>20 DEF Run
  <2> QED
    BY <1>7, <2>1
<1> HIDE DEF last, Next1
<1>14. /\ r.pc = pc /\ r.nread = nread /\ r.seen = seen /\ r.draining = q.draining
       /\ r.parts = q.parts /\ r.map = q.map /\ r.cust = k /\ r.route = q.route
       /\ r.todo = q.todo
  BY <1>1, <1>3, <1>12 DEF Run
<1>15. r \in Run
  BY <1>1, <1>10, <1>12 DEF Run
<1>16. Phase(r) /\ Placing(r) /\ Partitions(r) /\ Progress(r, docs)
  <2>1. q.draining \in BOOLEAN
    BY <1>1 DEF Run
  <2>2. Phase(r) /\ Placing(r)
    BY <1>3, <1>10, <1>14, <2>1 DEF Phase, Placing, AtCustomer
  <2>3. Partitions(r)
    BY <1>1, <1>2, <1>14 DEF RunInv, Partitions
  <2>4. Progress(r, docs)
    BY <1>10, <1>14 DEF Progress
  <2> QED
    BY <2>2, <2>3, <2>4
<1>17. Claimed(r) /\ Placed(r, docs) /\ Dated(r, docs)
  <2>1. \A p \in q.todo : q.draining \/ Current(q, p) => Claims(k, p.call)
    BY <1>1, <1>2, <1>3 DEF RunInv, Claimed, AtCustomer
  <2>2. \A p \in q.todo : Current(r, p) => Current(q, p)
    BY <1>14 DEF Current
  <2>3. Claimed(r)
    BY <1>14, <2>1, <2>2 DEF Claimed
  <2> QED
    BY <1>10, <1>14, <2>3 DEF Placed, Dated
<1>18. Grounded(r, docs)
  <2>1. \A x \in marks : x[1] \in TextOf(k, docs)
    <3>1. \A x \in marks : x[1] \in Written(docs[d].text)
      BY <1>6, <1>7, LegibleIsWritten DEF GongInv
    <3> QED
      BY <3>1, Zenon DEF TextOf
  <2>2. \A c \in Customers : \A x \in q.seen[c] : x[1] \in TextOf(c, docs)
    BY <1>1 DEF RunInv, Grounded
  <2>3. \A c \in Customers : seen[c] = IF c = k THEN q.seen[k] \cup marks ELSE q.seen[c]
    BY <1>1, <1>11 DEF Run
  <2>4. \A c \in Customers : \A x \in seen[c] : x[1] \in TextOf(c, docs)
    BY <1>7, <2>1, <2>2, <2>3
  <2> QED
    BY <1>14, <2>4 DEF Grounded
<1>19. Sound(r, docs')
  BY <1>2, <1>15, <1>16, <1>17, <1>18 DEF Sound, RunInv
<1> QED
  BY <1>8, <1>13, <1>19 DEF Steps

LEMMA ListItemsStep ==
    ASSUME GongInv, NEW i \in Instances, ListItems(i)
    PROVE  Steps(i)
<1>1. PICK q : q = run[i] /\ q \in Run /\ RunInv(q, docs)
  BY RunFacts DEF Sound
<1>2. q.pc = "items" /\ docs' = docs
  BY <1>1 DEF ListItems, store
<1>3. PICK mine : mine = {p \in pending : p.cust = q.cust}
  OBVIOUS
<1>4. Become(i, LoopItems([q EXCEPT !.todo = mine])) \/ Become(i, Idle)
  BY <1>1, <1>3 DEF ListItems
<1>5. CASE Become(i, Idle)
  BY <1>5, IdleSound, Empties DEF Steps
<1>6. CASE Become(i, LoopItems([q EXCEPT !.todo = mine]))
  <2>1. PICK r : r = [q EXCEPT !.todo = mine]
    OBVIOUS
  <2>2. mine \in SUBSET Item /\ \A p \in mine : Claims(q.cust, p.call)
    <3>1. \A p \in pending : p \in Item /\ Claims(p.cust, p.call)
      BY LabelsAssumption DEF GongInv, TypeOK, Waiting, Item
    <3> QED
      BY <1>3, <3>1
  <2>3. /\ r \in Run /\ r.nread = q.nread /\ r.seen = q.seen /\ r.draining = q.draining
        /\ r.parts = q.parts /\ r.map = q.map /\ r.cust = q.cust /\ r.route = q.route
        /\ r.todo = mine
    BY <1>1, <2>1, <2>2 DEF Run
  <2>4. /\ q.draining /\ q.nread = 0
        /\ q.parts \subseteq Mapped(q.map) /\ Loaded(q.map)
        /\ q.cust \in Customers /\ q.route \in Routes[q.cust] \ {<<>>}
    BY <1>1, <1>2 DEF RunInv, Phase, Progress, Partitions, Placing, AtCustomer
  <2>5. Grounded(r, docs')
    BY <1>1, <1>2, <2>3 DEF RunInv, Grounded
  <2>6. Sound(LoopItems(r), docs')
    BY <2>2, <2>3, <2>4, <2>5, LoopItemsSound
  <2> QED
    BY <1>6, <2>1, <2>6 DEF Steps
<1> QED
  BY <1>4, <1>5, <1>6

\* A run that just leaves its item behind.
LEMMA PastStep ==
    ASSUME GongInv, NEW i \in Instances, NEW p, Become(i, Past(run[i], p)), docs' = docs,
           run[i].pc \in {"drain", "insert", "delete", "route", "call", "alert"}
    PROVE  Steps(i)
<1>1. Sound(run[i], docs)
  BY RunFacts
<1>2. Sound(Past(run[i], p), docs')
  BY <1>1, PastSound DEF Sound
<1> QED
  BY <1>2 DEF Steps

LEMMA StopPartitionStep ==
    ASSUME GongInv, NEW i \in Instances, StopPartition(i)
    PROVE  Steps(i)
<1>1. PICK q : q = run[i] /\ q \in Run /\ RunInv(q, docs)
  BY RunFacts DEF Sound
<1>2. q.pc = "drain" /\ docs' = docs
  BY <1>1 DEF StopPartition, store
<1>3. Become(i, NextPartition(Alerted(q))) \/ Become(i, Idle)
  BY <1>1 DEF StopPartition
<1>4. CASE Become(i, Idle)
  BY <1>4, IdleSound, Empties DEF Steps
<1>5. CASE Become(i, NextPartition(Alerted(q)))
  <2>1. /\ q.draining /\ q.nread = 0
        /\ q.parts \subseteq Mapped(q.map) /\ Loaded(q.map) /\ q.cust \in Customers
    BY <1>1, <1>2 DEF RunInv, Phase, Progress, Partitions, Placing, AtCustomer
  <2>2. PICK r : r = [q EXCEPT !.alerted = @ \cup {q.cust}]
    OBVIOUS
  <2>3. /\ r \in Run /\ r.nread = 0 /\ r.seen = q.seen /\ r.draining
        /\ r.parts = q.parts /\ r.map = q.map
    BY <1>1, <2>1, <2>2 DEF Run
  <2>4. Grounded(r, docs')
    BY <1>1, <1>2, <2>3 DEF RunInv, Grounded
  <2>5. Sound(NextPartition(r), docs')
    BY <2>1, <2>3, <2>4, NextPartitionSound
  <2> QED
    BY <1>5, <2>2, <2>5 DEF Steps, Alerted
<1> QED
  BY <1>3, <1>4, <1>5

-----------------------------------------------------------------------------
(* The steps of an append *)

LEMMA WritableFacts ==
    ASSUME GongInv, NEW i \in Instances, NEW p \in run[i].todo, Writable(run[i], p)
    PROVE  /\ run[i].pc \in {"drain", "call"}
           /\ run[i].cust \in Customers
           /\ run[i].route \in Routes[run[i].cust] /\ run[i].route # <<>>
           /\ Target(run[i]) \in DocsOf(run[i].cust)
           /\ Claims(run[i].cust, p.call)
           /\ p \in Item
<1>1. PICK q : q = run[i] /\ q \in Run /\ RunInv(q, docs)
  BY RunFacts DEF Sound
<1>2. q.pc \in {"drain", "call"} /\ Current(q, p) /\ p \in q.todo
  BY <1>1 DEF Writable
<1>3. q.cust \in Customers /\ q.route \in Routes[q.cust] /\ q.route # <<>>
  BY <1>1, <1>2 DEF RunInv, Placing, AtCustomer
<1>4. Target(q) \in DocsOf(q.cust)
  BY <1>3, RouteDocs DEF Target
<1>5. Claims(q.cust, p.call)
  BY <1>1, <1>2 DEF RunInv, Claimed, AtCustomer
<1>6. p \in Item
  BY <1>1, <1>2 DEF Run
<1> QED
  BY <1>1, <1>2, <1>3, <1>4, <1>5, <1>6

LEMMA MeasureStep ==
    ASSUME GongInv, NEW i \in Instances, Measure(i)
    PROVE  Steps(i)
<1>1. PICK q : q = run[i] /\ q \in Run /\ RunInv(q, docs)
  BY RunFacts DEF Sound
<1>2. PICK p \in q.todo : Writable(q, p)
  BY <1>1 DEF Measure
<1>3. /\ q.pc \in {"drain", "call"}
      /\ q.cust \in Customers /\ q.route \in Routes[q.cust] /\ q.route # <<>>
      /\ Target(q) \in DocIds
  BY <1>1, <1>2, WritableFacts, DocsOfType
<1>4. PICK n \in Nat : n = Len(docs[Target(q)].text)
  BY <1>3 DEF GongInv, TypeOK, Doc
<1>5. PICK r : r = [q EXCEPT !.pc = "insert", !.end = n]
  OBVIOUS
<1>6. Become(i, r) /\ docs' = docs
  BY <1>1, <1>4, <1>5 DEF Measure, store
<1>7. /\ r.pc = "insert" /\ r.end = n /\ r.nread = q.nread /\ r.seen = q.seen
      /\ r.draining = q.draining /\ r.parts = q.parts /\ r.map = q.map
      /\ r.cust = q.cust /\ r.route = q.route /\ r.todo = q.todo
  BY <1>1, <1>5 DEF Run
<1>8. r \in Run
  BY <1>1, <1>5 DEF Run
<1>9. q.nread = 0
  BY <1>1, <1>3 DEF RunInv, Progress
<1>10. Phase(r) /\ Placing(r) /\ Partitions(r)
  BY <1>1, <1>3, <1>7 DEF RunInv, Phase, Placing, Partitions, AtCustomer
<1>11. Progress(r, docs)
  BY <1>4, <1>7, <1>9 DEF Progress, Target
<1>12. Claimed(r)
  <2>1. \A x \in q.todo : q.draining \/ Current(q, x) => Claims(q.cust, x.call)
    BY <1>1, <1>3 DEF RunInv, Claimed, AtCustomer
  <2>2. \A x \in q.todo : Current(r, x) => Current(q, x)
    BY <1>7 DEF Current
  <2> QED
    BY <1>7, <2>1, <2>2 DEF Claimed
<1>13. Placed(r, docs) /\ Grounded(r, docs) /\ Dated(r, docs)
  BY <1>1, <1>7 DEF RunInv, Placed, Grounded, Dated
<1> QED
  BY <1>6, <1>8, <1>10, <1>11, <1>12, <1>13 DEF Steps, Sound, RunInv

\* The run is about to insert the call p of its customer in that customer's last doc.
LEMMA InsertPosition ==
    ASSUME GongInv, NEW i \in Instances, run[i].pc = "insert",
           NEW p \in run[i].todo, Current(run[i], p)
    PROVE  /\ run[i].cust \in Customers
           /\ Target(run[i]) \in DocsOf(run[i].cust) /\ Target(run[i]) \in DocIds
           /\ run[i].end \in 0..Len(docs[Target(run[i])].text)
           /\ p \in Item /\ p.call \in Calls /\ Claims(run[i].cust, p.call)
<1>1. PICK q : q = run[i] /\ q \in Run /\ RunInv(q, docs)
  BY RunFacts DEF Sound
<1>2. q.cust \in Customers /\ q.route \in Routes[q.cust] /\ q.route # <<>>
  BY <1>1 DEF RunInv, Placing, AtCustomer
<1>3. Target(q) \in DocsOf(q.cust) /\ Target(q) \in DocIds
  BY <1>2, RouteDocs, DocsOfType DEF Target
<1>4. PICK n \in Nat : n = Len(docs[Target(q)].text)
  BY <1>3 DEF GongInv, TypeOK, Doc
<1>5. q.end \in 0..n
  BY <1>1, <1>4 DEF RunInv, Progress, Target, Run
<1>6. p \in Item /\ p.call \in Calls /\ Claims(q.cust, p.call)
  BY <1>1 DEF RunInv, Claimed, AtCustomer, Run, Item
<1> QED
  BY <1>1, <1>2, <1>3, <1>4, <1>5, <1>6

LEMMA InsertStep ==
    ASSUME GongInv, NEW i \in Instances, Insert(i)
    PROVE  Steps(i)
<1>1. PICK q : q = run[i] /\ q \in Run /\ RunInv(q, docs)
  BY RunFacts DEF Sound
<1>2. q.pc = "insert"
  BY <1>1 DEF Insert
<1> DEFINE With(c) == [Cached(q, c) EXCEPT !.end = 0]
<1>3. PICK p \in q.todo :
        /\ Current(With(p.call), p)
        /\ Write(Target(With(p.call)), q.end, p.call)
        /\ Become(i, IF With(p.call).draining THEN [With(p.call) EXCEPT !.pc = "delete"]
                     ELSE Past(With(p.call), p))
  BY <1>1 DEF Insert
<1>4. PICK c, k : c = p.call /\ k = q.cust
  OBVIOUS
<1>5. PICK seen, size :
        /\ seen = [q.seen EXCEPT ![k] = @ \cup MarksOf(c)]
        /\ size = [q.bytes EXCEPT ![k] = @ + Size[c]]
  OBVIOUS
<1>6. PICK b : b = [q EXCEPT !.seen = seen, !.bytes = size, !.end = 0]
  OBVIOUS
<1>7. With(c) = b
  BY <1>1, <1>4, <1>5, <1>6 DEF Cached, Run
<1> HIDE DEF With
<1>8. /\ b.pc = "insert" /\ b.end = 0 /\ b.nread = q.nread /\ b.seen = seen
      /\ b.draining = q.draining /\ b.parts = q.parts /\ b.map = q.map
      /\ b.cust = k /\ b.route = q.route /\ b.todo = q.todo
  BY <1>1, <1>2, <1>4, <1>6 DEF Run
<1>9. Target(b) = Target(q) /\ \A x : Current(b, x) <=> Current(q, x)
  BY <1>8 DEF Target, Current
<1>10. /\ k \in Customers /\ Target(q) \in DocsOf(k) /\ Target(q) \in DocIds
       /\ q.end \in 0..Len(docs[Target(q)].text)
       /\ c \in Calls
  BY <1>1, <1>2, <1>3, <1>4, <1>7, <1>9, InsertPosition
<1>11. Write(Target(q), q.end, c)
  BY <1>3, <1>4, <1>7, <1>9
<1>12. /\ Grown(docs, docs')
       /\ Written(docs'[Target(q)].text) = Written(docs[Target(q)].text) \cup {c}
       /\ WrittenIn(docs') = WrittenIn(docs) \cup {c}
  BY <1>10, <1>11, WriteStep DEF GongInv, TypeOK
<1>13. RunInv(q, docs')
  BY <1>1, <1>12, GrownSound DEF Sound
<1>14. b \in Run
  <2>1. q.seen \in [Customers -> SUBSET Marks] /\ q.bytes \in [Customers -> Nat]
    BY <1>1 DEF Run
  <2>2. Size[c] \in Nat
    BY <1>10, CallsAssumption
  <2>4. MarksOf(c) \subseteq Marks
    BY <1>10 DEF MarksOf, Marks
  <2>3. seen \in [Customers -> SUBSET Marks] /\ size \in [Customers -> Nat]
    BY <1>5, <1>10, <2>1, <2>2, <2>4
  <2> QED
    BY <1>1, <1>6, <2>3 DEF Run
<1>15. RunInv(b, docs')
  <2>1. Phase(b) /\ Placing(b) /\ Partitions(b)
    BY <1>2, <1>4, <1>8, <1>13 DEF RunInv, Phase, Placing, Partitions, AtCustomer
  <2>2. Progress(b, docs')
    <3>1. docs'[Target(q)] \in Doc
      BY <1>10, <1>12 DEF Grown
    <3>2. Len(docs'[Target(q)].text) \in Nat
      BY <3>1 DEF Doc
    <3> QED
      BY <1>2, <1>8, <1>13, <3>2 DEF RunInv, Progress, Target
  <2>3. Claimed(b)
    BY <1>2, <1>4, <1>8, <1>9, <1>13 DEF RunInv, Claimed, AtCustomer
  <2>4. Placed(b, docs') /\ Dated(b, docs')
    BY <1>8 DEF Placed, Dated
  <2>5. Grounded(b, docs')
    <3>1. c \in TextOf(k, docs')
      BY <1>10, <1>12 DEF TextOf
    <3>2. \A o \in Customers : \A x \in q.seen[o] : x[1] \in TextOf(o, docs')
      BY <1>13 DEF RunInv, Grounded
    <3>3. \A o \in Customers : seen[o] = IF o = k THEN q.seen[k] \cup MarksOf(c) ELSE q.seen[o]
      BY <1>1, <1>5 DEF Run
    <3>5. \A x \in MarksOf(c) : x[1] = c
      BY DEF MarksOf
    <3>4. \A o \in Customers : \A x \in seen[o] : x[1] \in TextOf(o, docs')
      BY <3>1, <3>2, <3>3, <3>5
    <3> QED
      BY <1>8, <3>4 DEF Grounded
  <2> QED
    BY <2>1, <2>2, <2>3, <2>4, <2>5 DEF RunInv
<1>16. CASE b.draining
  <2>1. PICK r : r = [b EXCEPT !.pc = "delete"]
    OBVIOUS
  <2>2. /\ r \in Run /\ r.pc = "delete" /\ r.nread = b.nread /\ r.seen = b.seen
        /\ r.draining = b.draining /\ r.parts = b.parts /\ r.map = b.map
        /\ r.cust = b.cust /\ r.route = b.route /\ r.todo = b.todo
    BY <1>14, <2>1 DEF Run
  <2>3. \A x : Current(r, x) <=> Current(b, x)
    BY <2>2 DEF Current
  <2>4. Phase(r) /\ Placing(r) /\ Partitions(r)
    BY <1>8, <1>15, <1>16, <2>2 DEF RunInv, Phase, Placing, Partitions, AtCustomer
  <2>5. Progress(r, docs') /\ Claimed(r) /\ Grounded(r, docs') /\ Dated(r, docs')
    BY <1>8, <1>15, <2>2, <2>3
       DEF RunInv, Progress, Claimed, Grounded, Dated, AtCustomer
  <2>6. Placed(r, docs')
    <3>1. ASSUME NEW x \in r.todo, Current(r, x)
          PROVE  x.call \in WrittenIn(docs')
      <4>1. x \in q.todo /\ Current(q, x) /\ Current(q, p)
        BY <1>3, <1>4, <1>7, <1>8, <1>9, <2>2, <2>3, <3>1
      <4>2. x = p
        BY <1>1, <4>1, CurrentUnique
      <4> QED
        BY <1>4, <1>12, <4>2
    <3> QED
      BY <3>1 DEF Placed
  <2>7. Become(i, r)
    BY <1>3, <1>4, <1>7, <1>16, <2>1
  <2> QED
    BY <2>2, <2>4, <2>5, <2>6, <2>7 DEF Steps, Sound, RunInv
<1>17. CASE ~b.draining
  <2>1. Become(i, Past(b, p))
    BY <1>3, <1>4, <1>7, <1>17
  <2>2. Sound(Past(b, p), docs')
    BY <1>8, <1>14, <1>15, PastSound
  <2> QED
    BY <2>1, <2>2 DEF Steps
<1> QED
  BY <1>16, <1>17

LEMMA InsertErrorStep ==
    ASSUME GongInv, NEW i \in Instances, InsertError(i)
    PROVE  Steps(i) /\ Grown(docs, docs')
<1>1. PICK q : q = run[i] /\ q \in Run /\ RunInv(q, docs)
  BY RunFacts DEF Sound
<1>2. q.pc = "insert"
  BY <1>1 DEF InsertError
<1>3. PICK p \in q.todo :
        /\ Current(q, p)
        /\ docs' = docs \/ Write(Target(q), q.end, p.call)
        /\ Become(i, Past([q EXCEPT !.end = 0], p))
  BY <1>1 DEF InsertError
<1>4. docs \in [DocIds -> Doc]
  BY DEF GongInv, TypeOK
<1>5. Grown(docs, docs')
  <2>1. PICK c \in Calls, d \in DocIds :
          c = p.call /\ d = Target(q) /\ q.end \in 0..Len(docs[d].text)
    BY <1>1, <1>2, <1>3, InsertPosition
  <2>2. CASE docs' = docs
    BY <1>4, <2>2, SameGrown
  <2>3. CASE Write(d, q.end, c)
    BY <1>4, <2>1, <2>3, WriteStep
  <2> QED
    BY <1>3, <2>1, <2>2, <2>3
<1>6. RunInv(q, docs')
  BY <1>1, <1>5, GrownSound DEF Sound
<1>7. PICK b : b = [q EXCEPT !.end = 0]
  OBVIOUS
<1>8. /\ b \in Run /\ b.pc = "insert" /\ b.end = 0 /\ b.nread = q.nread /\ b.seen = q.seen
      /\ b.draining = q.draining /\ b.parts = q.parts /\ b.map = q.map
      /\ b.cust = q.cust /\ b.route = q.route /\ b.todo = q.todo
  BY <1>1, <1>2, <1>7 DEF Run
<1>9. RunInv(b, docs')
  <2>1. Phase(b) /\ Placing(b) /\ Partitions(b)
    BY <1>2, <1>6, <1>8 DEF RunInv, Phase, Placing, Partitions, AtCustomer
  <2>2. Progress(b, docs')
    <3>1. Last(q.route) \in DocIds
      BY <1>1, <1>2, <1>3, InsertPosition DEF Target
    <3>2. Len(docs'[Last(q.route)].text) \in Nat
      BY <1>5, <3>1 DEF Grown, Doc
    <3> QED
      BY <1>2, <1>6, <1>8, <3>2 DEF RunInv, Progress
  <2>3. Claimed(b)
    BY <1>2, <1>6, <1>8 DEF RunInv, Claimed, AtCustomer, Current
  <2>4. Placed(b, docs') /\ Grounded(b, docs') /\ Dated(b, docs')
    BY <1>6, <1>8 DEF RunInv, Placed, Grounded, Dated
  <2> QED
    BY <2>1, <2>2, <2>3, <2>4 DEF RunInv
<1>10. Sound(Past(b, p), docs')
  BY <1>8, <1>9, PastSound
<1> QED
  BY <1>3, <1>5, <1>7, <1>10 DEF Steps

-----------------------------------------------------------------------------
(* The steps of process_calls *)

LEMMA FetchCallsStep ==
    ASSUME GongInv, NEW i \in Instances, FetchCalls(i)
    PROVE  Steps(i)
<1>1. PICK q : q = run[i] /\ q \in Run /\ RunInv(q, docs)
  BY RunFacts DEF Sound
<1>2. q.pc = "fetch" /\ docs' = docs
  BY <1>1 DEF FetchCalls, store
<1> DEFINE Listed(calls) == {[at |-> 0, cust |-> 0, call |-> c] : c \in calls}
           Got(calls) == Become(i, IF calls = {} THEN [Idle EXCEPT !.pc = "sheet"]
                                   ELSE [q EXCEPT !.pc = "details", !.todo = Listed(calls)])
<1>3. Become(i, Idle) \/ \E calls \in SUBSET Calls : Got(calls)
  <2> DEFINE all == IF i = Hourly THEN Since ELSE {c \in Calls : Hour[c] <= hour}
  <2>1. all \subseteq Calls
    BY DEF Since, FirstOf
  <2>2. \/ Got(all)
        \/ \E pages \in 0..(Cardinality(all) - 1) \div PageSize :
             Got(FirstOf(pages * PageSize, all))
        \/ Become(i, Idle)
    BY <1>1 DEF FetchCalls
  <2>3. \A n : FirstOf(n, all) \subseteq all
    BY DEF FirstOf
  <2> HIDE DEF all, Got
  <2> QED
    BY <2>1, <2>2, <2>3
<1>4. CASE Become(i, Idle)
  BY <1>4, IdleSound, Empties DEF Steps
<1>5. CASE \E calls \in SUBSET Calls : Got(calls)
  <2>1. PICK calls \in SUBSET Calls : Got(calls)
    BY <1>5
  <2>2. CASE calls = {}
    <3>1. Become(i, [Idle EXCEPT !.pc = "sheet"])
      BY <2>1, <2>2
    <3> QED
      BY <3>1, IdleSound, Empties DEF Steps
  <2>3. CASE calls # {}
    <3>1. PICK todo \in SUBSET Item : todo = Listed(calls)
      <4>1. \A c \in calls : [at |-> 0, cust |-> 0, call |-> c] \in Item
        BY Empties DEF Item
      <4> QED
        BY <4>1
    <3>2. PICK r : r = [q EXCEPT !.pc = "details", !.todo = todo]
      OBVIOUS
    <3>3. Become(i, r)
      BY <2>1, <2>3, <3>1, <3>2
    <3>4. /\ r \in Run /\ r.pc = "details" /\ r.nread = q.nread /\ r.seen = q.seen
          /\ r.draining = q.draining
      BY <1>1, <3>2 DEF Run
    <3>5. q.draining = FALSE /\ q.nread = 0
      BY <1>1, <1>2 DEF RunInv, Phase, Progress, Run
    <3>6. Phase(r) /\ Placing(r) /\ Progress(r, docs) /\ Partitions(r)
      BY <3>4, <3>5 DEF Phase, Placing, Progress, Partitions, AtCustomer
    <3>7. Claimed(r) /\ Placed(r, docs) /\ Grounded(r, docs) /\ Dated(r, docs)
      BY <1>1, <3>4 DEF RunInv, Claimed, Placed, Grounded, Dated, AtCustomer
    <3> QED
      BY <1>2, <3>3, <3>4, <3>6, <3>7 DEF Steps, Sound, RunInv
  <2> QED
    BY <2>2, <2>3
<1> QED
  BY <1>3, <1>4, <1>5

LEMMA FetchDetailsStep ==
    ASSUME GongInv, NEW i \in Instances, FetchDetails(i)
    PROVE  Steps(i)
<1>1. PICK q : q = run[i] /\ q \in Run /\ RunInv(q, docs)
  BY RunFacts DEF Sound
<1>2. q.pc = "details" /\ docs' = docs
  BY <1>1 DEF FetchDetails, store
<1>3. \/ Become(i, Idle)
      \/ \E todo \in SUBSET q.todo : \/ Become(i, LoopCalls([q EXCEPT !.todo = todo]))
                                    \/ Become(i, [q EXCEPT !.todo = todo])
  BY <1>1 DEF FetchDetails
<1>4. CASE Become(i, Idle)
  BY <1>4, IdleSound, Empties DEF Steps
<1>5. CASE \E todo \in SUBSET q.todo : Become(i, LoopCalls([q EXCEPT !.todo = todo]))
  <2>1. PICK todo \in SUBSET q.todo : Become(i, LoopCalls([q EXCEPT !.todo = todo]))
    BY <1>5
  <2>2. PICK r : r = [q EXCEPT !.todo = todo]
    OBVIOUS
  <2>3. /\ r \in Run /\ r.nread = q.nread /\ r.seen = q.seen /\ r.draining = q.draining
    BY <1>1, <2>2 DEF Run
  <2>4. q.draining = FALSE /\ q.nread = 0 /\ Grounded(r, docs')
    BY <1>1, <1>2, <2>3 DEF RunInv, Phase, Progress, Run, Grounded
  <2>5. Sound(LoopCalls(r), docs')
    BY <2>3, <2>4, LoopCallsSound
  <2> QED
    BY <2>1, <2>2, <2>5 DEF Steps
<1>6. CASE \E todo \in SUBSET q.todo : Become(i, [q EXCEPT !.todo = todo])
  <2>1. PICK todo \in SUBSET q.todo : Become(i, [q EXCEPT !.todo = todo])
    BY <1>6
  <2>2. PICK r : r = [q EXCEPT !.todo = todo]
    OBVIOUS
  <2>3. /\ r \in Run /\ r.nread = q.nread /\ r.seen = q.seen /\ r.draining = q.draining
        /\ r.pc = "details"
    BY <1>1, <1>2, <2>2 DEF Run
  <2>4. q.draining = FALSE /\ q.nread = 0 /\ Grounded(r, docs)
    BY <1>1, <1>2, <2>3 DEF RunInv, Phase, Progress, Run, Grounded
  <2>5. Phase(r) /\ Placing(r) /\ Progress(r, docs) /\ Partitions(r)
    BY <2>3, <2>4 DEF Phase, Placing, Progress, Partitions, AtCustomer
  <2>6. Claimed(r) /\ Placed(r, docs) /\ Dated(r, docs)
    BY <2>3 DEF Claimed, Placed, Dated, AtCustomer
  <2> QED
    BY <1>2, <2>1, <2>2, <2>3, <2>4, <2>5, <2>6 DEF Steps, Sound, RunInv
<1> QED
  BY <1>3, <1>4, <1>5, <1>6

LEMMA RouteStep ==
    ASSUME GongInv, NEW i \in Instances, Route(i)
    PROVE  Steps(i)
<1>1. PICK q : q = run[i] /\ q \in Run /\ RunInv(q, docs)
  BY RunFacts DEF Sound
<1>2. q.pc = "route" /\ docs' = docs
  BY <1>1 DEF Route, store
<1>3. PICK p, m :
        /\ p \in q.todo /\ Current(q, p)
        /\ LoadMapping(i, m)
        /\ Become(i, IF Find(m, p.call) = 0 THEN Past(q, p)
                     ELSE [q EXCEPT !.cust = Find(m, p.call), !.route = m[Find(m, p.call)],
                                    !.pc = IF Find(m, p.call) \in q.seeded THEN "call"
                                           ELSE "seed"])
  BY <1>1 DEF Route
<1>4. m \in Lists /\ Loaded(m) /\ p.call \in Calls
  BY <1>1, <1>3, LoadStep DEF Run, Item
<1>5. PICK k : k = Find(m, p.call)
  OBVIOUS
<1>6. CASE k = 0
  BY <1>1, <1>2, <1>3, <1>5, <1>6, PastStep
<1>7. CASE k # 0
  <2>1. k \in Mapped(m) /\ Claims(k, p.call)
    BY <1>4, <1>5, <1>7, FindClaims
  <2>2. k \in Customers /\ m[k] \in Routes[k] \ {<<>>}
    BY <1>4, <2>1, MappedType
  <2>3. PICK list, pc : list = m[k] /\ pc = IF k \in q.seeded THEN "call" ELSE "seed"
    OBVIOUS
  <2>4. /\ list \in Seq(DocIds) /\ Len(list) \in Nat /\ 0 < Len(list) /\ list # <<>>
        /\ k \in Labels /\ pc \in {"call", "seed"}
    BY <2>2, <2>3, RouteDocs, LabelsAssumption
  <2>5. PICK r : r = [q EXCEPT !.cust = k, !.route = list, !.pc = pc]
    OBVIOUS
  <2>6. Become(i, r)
    BY <1>3, <1>5, <1>7, <2>3, <2>5
  <2>7. /\ r.pc = pc /\ r.cust = k /\ r.route = list /\ r.nread = q.nread /\ r.seen = q.seen
        /\ r.draining = q.draining /\ r.todo = q.todo
    BY <1>1, <2>5 DEF Run
  <2>8. r \in Run
    BY <1>1, <2>4, <2>5 DEF Run
  <2>9. q.draining = FALSE /\ q.nread = 0
    BY <1>1, <1>2 DEF RunInv, Phase, Progress, Run
  <2>10. Phase(r) /\ Placing(r) /\ Progress(r, docs) /\ Partitions(r)
    BY <2>2, <2>3, <2>4, <2>7, <2>9 DEF Phase, Placing, Progress, Partitions
  <2>11. Claimed(r)
    <3>1. ASSUME NEW x \in q.todo, Current(r, x)
          PROVE  Claims(k, x.call)
      <4>1. Current(q, x)
        BY <2>7, <3>1 DEF Current
      <4>2. x = p
        BY <1>1, <1>3, <4>1, CurrentUnique
      <4> QED
        BY <2>1, <4>2
    <3> QED
      BY <2>7, <2>9, <3>1 DEF Claimed
  <2>12. Placed(r, docs) /\ Grounded(r, docs) /\ Dated(r, docs)
    BY <1>1, <2>4, <2>7 DEF RunInv, Placed, Grounded, Dated
  <2> QED
    BY <1>2, <2>6, <2>8, <2>10, <2>11, <2>12 DEF Steps, Sound, RunInv
<1> QED
  BY <1>6, <1>7

LEMMA BufferStep ==
    ASSUME GongInv, NEW i \in Instances, Buffer(i)
    PROVE  Steps(i)
<1>1. PICK q : q = run[i] /\ q \in Run /\ RunInv(q, docs)
  BY RunFacts DEF Sound
<1>2. q.pc = "call" /\ docs' = docs
  BY <1>1 DEF Buffer
<1>3. PICK p : Become(i, [q EXCEPT !.pc = "alert"]) \/ Become(i, Past(q, p))
  BY <1>1 DEF Buffer
<1>4. CASE Become(i, Past(q, p))
  BY <1>1, <1>2, <1>4, PastStep
<1>5. CASE Become(i, [q EXCEPT !.pc = "alert"])
  <2>1. PICK r : r = [q EXCEPT !.pc = "alert"]
    OBVIOUS
  <2>2. /\ r \in Run /\ r.pc = "alert" /\ r.nread = q.nread /\ r.seen = q.seen
        /\ r.draining = q.draining /\ r.parts = q.parts /\ r.map = q.map
        /\ r.cust = q.cust /\ r.route = q.route /\ r.todo = q.todo
    BY <1>1, <2>1 DEF Run
  <2>3. Phase(r) /\ Placing(r) /\ Progress(r, docs) /\ Partitions(r)
    BY <1>1, <1>2, <2>2 DEF RunInv, Phase, Placing, Progress, Partitions, AtCustomer
  <2>4. Claimed(r)
    BY <1>1, <1>2, <2>2 DEF RunInv, Claimed, AtCustomer, Current
  <2>5. Placed(r, docs) /\ Grounded(r, docs) /\ Dated(r, docs)
    BY <1>1, <1>2, <2>2 DEF RunInv, Placed, Grounded, Dated
  <2> QED
    BY <1>2, <1>5, <2>1, <2>2, <2>3, <2>4, <2>5 DEF Steps, Sound, RunInv
<1> QED
  BY <1>3, <1>4, <1>5

LEMMA AlertStep ==
    ASSUME GongInv, NEW i \in Instances, Alert(i)
    PROVE  Steps(i)
<1>1. PICK q : q = run[i] /\ q \in Run /\ RunInv(q, docs)
  BY RunFacts DEF Sound
<1>2. q.pc = "alert" /\ docs' = docs
  BY <1>1 DEF Alert, store
<1>3. PICK p : Become(i, Past(Alerted(q), p)) \/ Become(i, Past(q, p))
  BY <1>1 DEF Alert
<1>4. CASE Become(i, Past(q, p))
  BY <1>1, <1>2, <1>4, PastStep
<1>5. CASE Become(i, Past(Alerted(q), p))
  <2>1. q.cust \in Customers
    BY <1>1, <1>2 DEF RunInv, Placing, AtCustomer
  <2>2. PICK r : r = [q EXCEPT !.alerted = @ \cup {q.cust}]
    OBVIOUS
  <2>3. /\ r \in Run /\ r.pc = "alert" /\ r.nread = q.nread /\ r.seen = q.seen
        /\ r.draining = q.draining /\ r.parts = q.parts /\ r.map = q.map
        /\ r.cust = q.cust /\ r.route = q.route /\ r.todo = q.todo
    BY <1>1, <1>2, <2>1, <2>2 DEF Run
  <2>4. Phase(r) /\ Placing(r) /\ Progress(r, docs) /\ Partitions(r)
    BY <1>1, <1>2, <2>3 DEF RunInv, Phase, Placing, Progress, Partitions
  <2>5. Claimed(r)
    BY <1>1, <1>2, <2>3 DEF RunInv, Claimed, AtCustomer, Current
  <2>6. Placed(r, docs) /\ Grounded(r, docs) /\ Dated(r, docs)
    BY <1>1, <1>2, <2>3 DEF RunInv, Placed, Grounded, Dated
  <2>7. Sound(Past(r, p), docs')
    BY <1>2, <2>3, <2>4, <2>5, <2>6, PastSound DEF RunInv
  <2> QED
    BY <1>5, <2>2, <2>7 DEF Steps, Alerted
<1> QED
  BY <1>3, <1>4, <1>5

\* The steps that leave an item behind and have no effect on the docs.
LEMMA PassingSteps ==
    ASSUME GongInv, NEW i \in Instances, SkipUnreadable(i) \/ SkipCall(i) \/ Delete(i)
    PROVE  Steps(i)
<1>1. /\ run[i].pc \in {"drain", "call", "delete"} /\ docs' = docs
      /\ \E p : Become(i, Past(run[i], p))
  BY DEF SkipUnreadable, SkipCall, Delete, store
<1> QED
  BY <1>1, PastStep

-----------------------------------------------------------------------------
(* The steps that tell the dates *)

LEMMA BoundedUnion ==
    ASSUME NEW S \in SUBSET Nat, NEW T \in SUBSET Nat, Bounded(S), Bounded(T)
    PROVE  Bounded(S \cup T)
<1>1. PICK a \in Nat, b \in Nat : (\A x \in S : x <= a) /\ (\A x \in T : x <= b)
  BY DEF Bounded
<1>2. a + b \in Nat /\ \A x \in S \cup T : x <= a + b
  <2>1. ASSUME NEW x \in S \cup T PROVE x <= a + b
    <3>1. x \in Nat /\ (x <= a \/ x <= b)
      BY <1>1
    <3> QED
      BY <3>1
  <2> QED
    BY <2>1
<1> QED
  BY <1>2 DEF Bounded

\* The dates in a doc are those of calls in it; one of them is the last.
LEMMA DatesInDoc ==
    ASSUME GongInv, NEW d \in DocIds
    PROVE  /\ DatesIn(d) \in SUBSET Nat /\ Bounded(DatesIn(d))
           /\ DatesIn(d) \subseteq {Date[c] : c \in WrittenIn(docs)}
<1>1. PICK s \in Seq(Calls \X Nat) : s = docs[d].text
  BY DEF GongInv, TypeOK, Doc
<1>2. PICK shown : shown = {x \in Calls : Shows(s, x, RuleAt[x], DateAt[x][2])}
  OBVIOUS
<1>3. DatesIn(d) = {Date[c] : c \in shown} \ {0}
  BY <1>1, <1>2 DEF DatesIn
<1>4. ASSUME NEW c \in shown PROVE \E j \in DOMAIN s : s[j][1] = c
  <2>1. c \in Calls /\ Shows(s, c, RuleAt[c], DateAt[c][2])
    BY <1>2
  <2>2. /\ RuleAt[c] \in Nat /\ DateAt[c][2] \in Nat
        /\ RuleAt[c] <= DateAt[c][2]
    <3>1. /\ TitleAt[c] \in Nat \X Nat /\ DateAt[c] \in Nat \X Nat
          /\ TitleAt[c][1] <= TitleAt[c][2]
          /\ TitleAt[c][2] < DateAt[c][1] /\ DateAt[c][1] <= DateAt[c][2]
      BY <2>1, CallsAssumption
    <3>2. RuleAt[c] \in Nat /\ RuleAt[c] <= TitleAt[c][1]
      BY <2>1, RuleAssumption
    <3> QED
      BY <3>1, <3>2
  <2>3. PICK j \in DOMAIN s : s[j] = <<c, RuleAt[c]>>
    BY <2>1, <2>2, ShownIsThere
  <2> QED
    BY <2>3
<1>5. DatesIn(d) \in SUBSET Nat
  BY <1>2, <1>3, CallsAssumption
<1>6. DatesIn(d) \subseteq {Date[c] : c \in WrittenIn(docs)}
  <2>1. \A j \in DOMAIN s : s[j][1] \in WrittenIn(docs)
    BY <1>1 DEF GongInv, Complete, WrittenIn
  <2>2. shown \subseteq WrittenIn(docs)
    BY <1>4, <2>1
  <2> QED
    BY <1>3, <2>2
<1>7. Bounded(DatesIn(d))
  <2>1. PICK len \in Nat : len = Len(s) /\ DOMAIN s = 1..len
    OBVIOUS
  <2>2. PICK f : f = [j \in 1..len |-> Date[s[j][1]]]
    OBVIOUS
  <2>3. f \in [1..len -> Nat]
    <3>1. ASSUME NEW j \in 1..len PROVE Date[s[j][1]] \in Nat
      <4>1. s[j] \in Calls \X Nat
        BY <2>1, ElementType, Zenon
      <4>2. s[j][1] \in Calls /\ Date \in [Calls -> Nat]
        BY <4>1, CallsAssumption
      <4> QED
        BY <4>2
    <3> QED
      BY <2>2, <3>1
  <2>4. Bounded({f[j] : j \in 1..len})
    BY <2>3, ValuesBounded
  <2>5. DatesIn(d) \subseteq {f[j] : j \in 1..len}
    <3>1. ASSUME NEW x \in DatesIn(d) PROVE x \in {f[j] : j \in 1..len}
      <4>1. PICK c \in shown : x = Date[c]
        BY <1>3
      <4>2. PICK j \in 1..len : s[j][1] = c
        BY <1>4, <2>1
      <4> QED
        BY <2>2, <4>1, <4>2
    <3> QED
      BY <3>1
  <2> QED
    BY <2>4, <2>5 DEF Bounded
<1> QED
  BY <1>5, <1>6, <1>7

LEMMA ReadSheetStep ==
    ASSUME GongInv, NEW i \in Instances, ReadSheet(i)
    PROVE  Steps(i)
<1>1. docs' = docs
  BY DEF ReadSheet, store
<1>2. PICK left, found :
        /\ left = UNION {{n} \X ToSet(lists[rows[n].key]) : n \in DOMAIN rows}
        /\ found = [n \in DOMAIN rows |-> {}]
        /\ \/ Become(i, Idle)
           \/ Become(i, [Idle EXCEPT !.pc = "dates", !.left = left, !.found = found])
  BY DEF ReadSheet
<1>3. CASE Become(i, Idle)
  BY <1>3, IdleSound, Empties DEF Steps
<1>4. CASE Become(i, [Idle EXCEPT !.pc = "dates", !.left = left, !.found = found])
  <2>1. PICK len \in Nat : len = Len(rows) /\ DOMAIN rows = 1..len
    BY DEF GongInv, TypeOK
  <2>2. found \in Seq(SUBSET Nat) /\ DOMAIN found = DOMAIN rows
    BY <1>2, <2>1
  <2>3. left \in SUBSET (Nat \X DocIds) /\ \A x \in left : x[1] \in DOMAIN rows
    <3>1. ASSUME NEW x \in left
          PROVE  x \in Nat \X DocIds /\ x[1] \in DOMAIN rows
      <4>1. PICK n \in DOMAIN rows : x \in {n} \X ToSet(lists[rows[n].key])
        BY <1>2
      <4>2. rows \in Seq(Row)
        BY DEF GongInv, TypeOK
      <4>3. rows[n] \in Row
        BY <4>2, ElementType, Zenon
      <4>4. rows[n].key \in Customers /\ n \in Nat
        BY <2>1, <4>3 DEF Row
      <4>5. lists[rows[n].key] \in Seq(DocIds)
        BY <4>4 DEF GongInv, TypeOK, Lists
      <4>6. ToSet(lists[rows[n].key]) \subseteq DocIds
        BY <4>5 DEF ToSet
      <4> QED
        BY <4>1, <4>4, <4>6
    <3> QED
      BY <3>1
  <2>4. PICK idle \in Run : idle = Idle
    BY IdleType
  <2>5. PICK r : r = [idle EXCEPT !.pc = "dates", !.left = left, !.found = found]
    OBVIOUS
  <2>6. r \in Run
    BY <2>2, <2>3, <2>4, <2>5 DEF Run
  <2>7. /\ r.pc = "dates" /\ r.left = left /\ r.found = found /\ r.nread = 0
        /\ r.draining = FALSE /\ r.seen = [k \in Customers |-> {}]
    BY <2>4, <2>5 DEF Idle
  <2>8. Phase(r) /\ Placing(r) /\ Progress(r, docs) /\ Partitions(r)
    BY <2>7 DEF Phase, Placing, Progress, Partitions, AtCustomer
  <2>9. Claimed(r) /\ Placed(r, docs) /\ Grounded(r, docs)
    BY <2>7 DEF Claimed, Placed, Grounded, AtCustomer
  <2>10. Dated(r, docs)
    <3>1. DOMAIN rows = DOMAIN FirstRows
      BY DEF GongInv
    <3>2. \A n \in DOMAIN FirstRows : found[n] = {}
      BY <1>2, <3>1
    <3> QED
      BY <2>2, <2>3, <2>7, <3>1, <3>2 DEF Dated, Bounded
  <2> QED
    BY <1>1, <1>4, <2>4, <2>5, <2>6, <2>8, <2>9, <2>10 DEF Steps, Sound, RunInv
<1> QED
  BY <1>2, <1>3, <1>4

LEMMA ReadDatesStep ==
    ASSUME GongInv, NEW i \in Instances, ReadDates(i)
    PROVE  Steps(i)
<1>1. PICK q : q = run[i] /\ q \in Run /\ RunInv(q, docs)
  BY RunFacts DEF Sound
<1>2. q.pc = "dates" /\ docs' = docs
  BY <1>1 DEF ReadDates, store
<1> DEFINE Taken(x, dates) == [q EXCEPT !.left = @ \ {x}, !.found[x[1]] = @ \cup dates]
           Got(x, dates) ==
             Become(i, IF Taken(x, dates).left # {} THEN Taken(x, dates)
                       ELSE IF \E n \in DOMAIN Taken(x, dates).found :
                                 Taken(x, dates).found[n] # {}
                       THEN [Taken(x, dates) EXCEPT !.pc = "write"]
                       ELSE Idle)
<1>3. PICK x \in q.left : Got(x, DatesIn(x[2])) \/ Got(x, {})
  BY <1>1 DEF ReadDates
<1>4. /\ x \in Nat \X DocIds /\ x[1] \in DOMAIN FirstRows
      /\ q.found \in Seq(SUBSET Nat) /\ DOMAIN q.found = DOMAIN FirstRows
      /\ \A n \in DOMAIN FirstRows :
           q.found[n] \subseteq {Date[c] : c \in WrittenIn(docs)} /\ Bounded(q.found[n])
  BY <1>1, <1>2 DEF RunInv, Dated, Run
<1>5. PICK dates \in SUBSET Nat :
        /\ Got(x, dates)
        /\ Bounded(dates)
        /\ dates \subseteq {Date[c] : c \in WrittenIn(docs)}
  <2>1. Bounded({}) /\ x[2] \in DocIds
    BY <1>4 DEF Bounded
  <2> HIDE DEF Got
  <2> QED
    BY <1>3, <2>1, DatesInDoc
<1>6. PICK n \in DOMAIN q.found : \E left : n = x[1] /\ left = q.left \ {x}
  BY <1>4
<1>7. PICK left : n = x[1] /\ left = q.left \ {x}
  BY <1>6
<1>8. PICK found : found = [q.found EXCEPT ![n] = @ \cup dates]
  OBVIOUS
<1>9. PICK r : r = [q EXCEPT !.left = left, !.found = found]
  OBVIOUS
<1>10. Taken(x, dates) = r
  BY <1>1, <1>7, <1>8, <1>9 DEF Run
<1>11. \/ Become(i, r)
       \/ Become(i, [r EXCEPT !.pc = "write"])
       \/ Become(i, Idle)
  <2> HIDE DEF Taken
  <2> QED
    BY <1>5, <1>10
<1> HIDE DEF Taken, Got
<1>12. found \in Seq(SUBSET Nat) /\ DOMAIN found = DOMAIN FirstRows
  <2>1. q.found[n] \in SUBSET Nat
    BY <1>4, ElementType, Zenon
  <2>2. q.found[n] \cup dates \in SUBSET Nat
    BY <2>1
  <2> QED
    BY <1>4, <1>8, <2>1, <2>2
<1>13. \A o \in DOMAIN FirstRows :
         found[o] \subseteq {Date[c] : c \in WrittenIn(docs)} /\ Bounded(found[o])
  <2>1. ASSUME NEW o \in DOMAIN FirstRows, o # n
        PROVE  found[o] = q.found[o]
    BY <1>4, <1>8, <2>1
  <2>2. found[n] = q.found[n] \cup dates
    BY <1>8
  <2>3. Bounded(q.found[n] \cup dates)
    <3>1. q.found[n] \in SUBSET Nat /\ Bounded(q.found[n])
      BY <1>4
    <3> QED
      BY <1>5, <3>1, BoundedUnion
  <2> QED
    BY <1>4, <1>5, <2>1, <2>2, <2>3
<1>14. left \in SUBSET (Nat \X DocIds) /\ \A o \in left : o[1] \in DOMAIN FirstRows
  BY <1>1, <1>2, <1>7 DEF RunInv, Dated, Run
<1>15. ASSUME NEW pc \in {"dates", "write"}, NEW t,
              t = [q EXCEPT !.left = left, !.found = found, !.pc = pc]
       PROVE  Sound(t, docs)
  <2>1. t \in Run
    BY <1>1, <1>12, <1>14, <1>15 DEF Run
  <2>2. /\ t.pc = pc /\ t.left = left /\ t.found = found /\ t.nread = q.nread
        /\ t.draining = q.draining /\ t.seen = q.seen
    BY <1>1, <1>15 DEF Run
  <2>3. q.draining = FALSE /\ q.nread = 0
    BY <1>1, <1>2 DEF RunInv, Phase, Progress, Run
  <2>4. Phase(t) /\ Placing(t) /\ Progress(t, docs) /\ Partitions(t)
    BY <2>2, <2>3 DEF Phase, Placing, Progress, Partitions, AtCustomer
  <2>5. Claimed(t) /\ Placed(t, docs) /\ Grounded(t, docs)
    BY <1>1, <2>2 DEF RunInv, Claimed, Placed, Grounded, AtCustomer
  <2>6. Dated(t, docs)
    BY <1>12, <1>13, <1>14, <2>2 DEF Dated
  <2> QED
    BY <2>1, <2>4, <2>5, <2>6 DEF Sound, RunInv
<1>16. r = [q EXCEPT !.left = left, !.found = found, !.pc = "dates"]
  BY <1>1, <1>2, <1>9 DEF Run
<1>17. [r EXCEPT !.pc = "write"] = [q EXCEPT !.left = left, !.found = found, !.pc = "write"]
  BY <1>1, <1>9 DEF Run
<1>18. Sound(r, docs) /\ Sound([r EXCEPT !.pc = "write"], docs)
  BY <1>15, <1>16, <1>17
<1> QED
  BY <1>2, <1>11, <1>18, IdleSound, Empties DEF Steps

\* The cells get the first and the last of the dates collected.
LEMMA WriteDatesStep ==
    ASSUME GongInv, NEW i \in Instances, WriteDates(i)
    PROVE  /\ Steps(i)
           /\ rows' \in Seq(Row) /\ DOMAIN rows' = DOMAIN FirstRows
           /\ DatesAreWritten'
<1>1. PICK q : q = run[i] /\ q \in Run /\ RunInv(q, docs)
  BY RunFacts DEF Sound
<1>2. q.pc = "write" /\ docs' = docs /\ Become(i, Idle)
  BY <1>1 DEF WriteDates, store
<1>3. Steps(i)
  BY <1>2, IdleSound, Empties DEF Steps
<1>4. rows \in Seq(Row) /\ DOMAIN rows = DOMAIN FirstRows /\ DatesAreWritten
  BY DEF GongInv, TypeOK
<1>5. InDocs' = InDocs /\ WrittenIn(docs) = InDocs
  BY <1>2 DEF InDocs, WrittenIn
<1>6. CASE UNCHANGED rows
  BY <1>3, <1>4, <1>5, <1>6 DEF DatesAreWritten
<1>7. CASE rows' = [n \in DOMAIN rows |->
                      IF q.found[n] = {} THEN rows[n]
                      ELSE [rows[n] EXCEPT !.first = Min(q.found[n]),
                                           !.last  = Max(q.found[n])]]
  <2>1. ASSUME NEW n \in DOMAIN rows
        PROVE  /\ rows'[n] \in Row
               /\ {rows'[n].first, rows'[n].last} \subseteq {0} \cup {Date[c] : c \in InDocs}
    <3>1. PICK row \in Row : row = rows[n]
      BY <1>4
    <3>2. CASE q.found[n] = {}
      <4>1. rows'[n] = row
        BY <1>7, <3>1, <3>2
      <4> QED
        BY <1>4, <3>1, <4>1 DEF DatesAreWritten
    <3>3. CASE q.found[n] # {}
      <4>1. /\ q.found[n] \in SUBSET Nat /\ Bounded(q.found[n])
            /\ q.found[n] \subseteq {Date[c] : c \in InDocs}
        BY <1>1, <1>2, <1>4, <1>5 DEF RunInv, Dated, Run
      <4>2. PICK a \in Nat, b \in Nat :
              /\ a = Min(q.found[n]) /\ b = Max(q.found[n])
              /\ {a, b} \subseteq {Date[c] : c \in InDocs}
        <5>1. Min(q.found[n]) \in q.found[n] /\ Max(q.found[n]) \in q.found[n]
          BY <3>3, <4>1, MinLeast, MaxGreatest
        <5> QED
          BY <4>1, <5>1
      <4>3. rows'[n] = [row EXCEPT !.first = a, !.last = b]
        BY <1>7, <3>1, <3>3, <4>2
      <4>4. rows'[n] \in Row /\ rows'[n].first = a /\ rows'[n].last = b
        BY <4>3 DEF Row
      <4> QED
        BY <4>2, <4>4
    <3> QED
      BY <3>2, <3>3
  <2>2. DOMAIN rows' = DOMAIN rows
    BY <1>7
  <2>3. rows' \in Seq(Row)
    <3>1. PICK len \in Nat : DOMAIN rows = 1..len
      BY <1>4
    <3>2. PICK new : new = rows' /\ new = [n \in 1..len |-> new[n]]
      BY <1>7, <3>1
    <3> QED
      BY <2>1, <3>1, <3>2
  <2> QED
    BY <1>3, <1>4, <1>5, <2>1, <2>2, <2>3 DEF DatesAreWritten
<1> QED
  BY <1>1, <1>6, <1>7 DEF WriteDates

-----------------------------------------------------------------------------
(* Every step of a run *)

LEMMA WorkSteps ==
    ASSUME GongInv, NEW i \in Instances, Work(i)
    PROVE  Steps(i)
<1>1. CASE Plan(i) \/ Seed(i) \/ ListItems(i) \/ StopPartition(i)
  BY <1>1, PlanStep, SeedStep, ListItemsStep, StopPartitionStep
<1>2. CASE Measure(i) \/ Insert(i) \/ InsertError(i)
  BY <1>2, MeasureStep, InsertStep, InsertErrorStep
<1>3. CASE SkipUnreadable(i) \/ SkipCall(i) \/ Delete(i)
  BY <1>3, PassingSteps
<1>4. CASE FetchCalls(i) \/ FetchDetails(i) \/ Route(i) \/ Buffer(i) \/ Alert(i)
  BY <1>4, FetchCallsStep, FetchDetailsStep, RouteStep, BufferStep, AlertStep
<1>5. CASE ReadSheet(i) \/ ReadDates(i) \/ WriteDates(i)
  BY <1>5, ReadSheetStep, ReadDatesStep, WriteDatesStep
<1> QED
  BY <1>1, <1>2, <1>3, <1>4, <1>5 DEF Work

\* What the run of i inserts, if it does: its current call, where it measured.
Inserts(i) ==
    /\ run[i].pc = "insert" /\ pending' = pending
    /\ \E p \in run[i].todo :
         Current(run[i], p) /\ Write(Target(run[i]), run[i].end, p.call)

LEMMA InsertInserts ==
    ASSUME NEW i \in Instances, run[i] \in Run, Insert(i)
    PROVE  Inserts(i)
<1>1. PICK q \in Run : q = run[i]
  OBVIOUS
<1>2. q.pc = "insert" /\ pending' = pending
  BY <1>1 DEF Insert
<1> DEFINE With(c) == [Cached(q, c) EXCEPT !.end = 0]
<1>3. PICK p \in q.todo :
        Current(With(p.call), p) /\ Write(Target(With(p.call)), q.end, p.call)
  BY <1>1 DEF Insert
<1>4. PICK b : b = With(p.call)
  OBVIOUS
<1>5. PICK seen, size :
        /\ seen = [q.seen EXCEPT ![q.cust] = @ \cup MarksOf(p.call)]
        /\ size = [q.bytes EXCEPT ![q.cust] = @ + Size[p.call]]
  OBVIOUS
<1>6. b = [q EXCEPT !.seen = seen, !.bytes = size, !.end = 0]
  BY <1>4, <1>5 DEF Cached, Run
<1>7. b.todo = q.todo /\ b.route = q.route
  BY <1>6 DEF Run
<1> HIDE DEF With
<1>8. Current(q, p) /\ Write(Target(q), q.end, p.call)
  BY <1>3, <1>4, <1>7 DEF Current, Target
<1> QED
  BY <1>1, <1>2, <1>8 DEF Inserts

LEMMA WorkWrites ==
    ASSUME GongInv, NEW i \in Instances, Work(i)
    PROVE  docs' = docs \/ Inserts(i)
<1>1. run[i] \in Run
  BY RunFacts DEF Sound
<1>2. CASE Insert(i)
  BY <1>1, <1>2, InsertInserts
<1>3. CASE InsertError(i)
  BY <1>3 DEF InsertError, Inserts
<1>4. CASE ~Insert(i) /\ ~InsertError(i)
  BY <1>4 DEF Work, Plan, Seed, ListItems, SkipUnreadable, StopPartition, Measure, Delete,
              FetchCalls, FetchDetails, Route, SkipCall, Buffer, Alert,
              ReadSheet, ReadDates, WriteDates, store
<1> QED
  BY <1>2, <1>3, <1>4

\* An insertion puts a call of the customer in a doc of the customer.
LEMMA InsertsKeep ==
    ASSUME GongInv, NEW i \in Instances, Inserts(i)
    PROVE  /\ Grown(docs, docs') /\ KeptApart' /\ Complete(docs)'
           /\ \E c \in Calls : WrittenIn(docs') = WrittenIn(docs) \cup {c}
<1>1. PICK p \in run[i].todo :
        Current(run[i], p) /\ Write(Target(run[i]), run[i].end, p.call)
  BY DEF Inserts
<1>2. PICK d, c, k : d = Target(run[i]) /\ c = p.call /\ k = run[i].cust
  OBVIOUS
<1>3. /\ k \in Customers /\ d \in DocsOf(k) /\ d \in DocIds
      /\ run[i].end \in 0..Len(docs[d].text)
      /\ c \in Calls /\ Claims(k, c)
  BY <1>1, <1>2, InsertPosition DEF Inserts
<1>4. /\ Grown(docs, docs')
      /\ \A s \in DOMAIN docs'[d].text :
            \/ docs'[d].text[s][1] = c
            \/ \E j \in DOMAIN docs[d].text : docs'[d].text[s] = docs[d].text[j]
      /\ \A e \in DocIds \ {d} : docs'[e] = docs[e]
      /\ WrittenIn(docs') = WrittenIn(docs) \cup {c}
      /\ Complete(docs')
  BY <1>1, <1>2, <1>3, WriteStep DEF GongInv, TypeOK
<1>5. ASSUME NEW e \in DocIds, NEW s \in DOMAIN docs'[e].text
      PROVE  \E o \in Customers :
               e \in DocsOf(o) /\ \E l \in Signs(docs'[e].text[s][1]) \ {0} : Lower[o] = Lower[l]
  <2>1. CASE e = d /\ docs'[e].text[s][1] = c
    BY <1>3, <2>1 DEF Claims
  <2>2. CASE \E j \in DOMAIN docs[e].text : docs'[e].text[s] = docs[e].text[j]
    BY <2>2 DEF GongInv, KeptApart
  <2> QED
    BY <1>4, <1>5, <2>1, <2>2
<1>6. KeptApart'
  BY <1>5 DEF KeptApart
<1> QED
  BY <1>3, <1>4, <1>6

LEMMA WorkDocs ==
    ASSUME GongInv, NEW i \in Instances, Work(i)
    PROVE  Grown(docs, docs') /\ KeptApart' /\ Complete(docs)'
<1>1. CASE docs' = docs
  BY <1>1, SameGrown DEF GongInv, TypeOK, KeptApart, Complete
<1> QED
  BY <1>1, WorkWrites, InsertsKeep

\* What waits is of the customer it waits for.
LEMMA BufferPending ==
    ASSUME GongInv, NEW i \in Instances, Buffer(i)
    PROVE  /\ pending' \subseteq [at : Nat, cust : Customers, call : Calls]
           /\ ticket' \in Nat /\ accepted' \subseteq Calls /\ Waiting'
<1>1. PICK p \in run[i].todo :
        /\ Writable(run[i], p)
        /\ \/ Enqueue(run[i].cust, p.call)
           \/ UNCHANGED <<pending, ticket, accepted>>
  BY DEF Buffer
<1>2. PICK k, c : k = run[i].cust /\ c = p.call
  OBVIOUS
<1>3. k \in Customers /\ c \in Calls /\ Claims(k, c)
  BY <1>1, <1>2, WritableFacts DEF Item
<1>4. /\ pending \subseteq [at : Nat, cust : Customers, call : Calls]
      /\ ticket \in Nat /\ accepted \subseteq Calls
      /\ \A x \in pending : Claims(x.cust, x.call)
  BY DEF GongInv, TypeOK, Waiting
<1>5. CASE UNCHANGED <<pending, ticket, accepted>>
  BY <1>4, <1>5 DEF Waiting
<1>6. CASE Enqueue(k, c)
  <2>1. PICK new : new = [at |-> ticket + 1, cust |-> k, call |-> c]
    OBVIOUS
  <2>2. /\ new \in [at : Nat, cust : Customers, call : Calls]
        /\ new.cust = k /\ new.call = c
    BY <1>3, <1>4, <2>1
  <2>3. pending' = pending \cup {new} /\ ticket' = ticket + 1 /\ accepted' = accepted \cup {c}
    BY <1>6, <2>1 DEF Enqueue
  <2> QED
    BY <1>3, <1>4, <2>2, <2>3 DEF Waiting
<1> QED
  BY <1>1, <1>2, <1>5, <1>6

LEMMA WorkPending ==
    ASSUME GongInv, NEW i \in Instances, Work(i)
    PROVE  /\ pending' \subseteq [at : Nat, cust : Customers, call : Calls]
           /\ ticket' \in Nat /\ accepted' \subseteq Calls /\ Waiting'
<1>1. CASE Buffer(i)
  BY <1>1, BufferPending
<1>2. CASE Delete(i)
  <2>1. pending' \subseteq pending /\ UNCHANGED <<ticket, accepted>>
    BY <1>2 DEF Delete
  <2> QED
    BY <2>1 DEF GongInv, TypeOK, Waiting
<1>3. CASE ~Buffer(i) /\ ~Delete(i)
  <2>1. UNCHANGED <<pending, ticket, accepted>>
    BY <1>3 DEF Work, Plan, Seed, ListItems, SkipUnreadable, StopPartition, Measure, Insert,
                InsertError, FetchCalls, FetchDetails, Route, SkipCall, Alert,
                ReadSheet, ReadDates, WriteDates, store
  <2> QED
    BY <2>1 DEF GongInv, TypeOK, Waiting
<1> QED
  BY <1>1, <1>2, <1>3

LEMMA WorkSheet ==
    ASSUME GongInv, NEW i \in Instances, Work(i)
    PROVE  /\ rows' \in Seq(Row) /\ DOMAIN rows' = DOMAIN FirstRows /\ DatesAreWritten'
           /\ UNCHANGED <<lists, edits, clock>>
<1>1. CASE WriteDates(i)
  BY <1>1, WriteDatesStep DEF WriteDates
<1>2. CASE ~WriteDates(i)
  <2>1. UNCHANGED <<sheet, clock>>
    BY <1>2 DEF Work, Plan, Seed, ListItems, SkipUnreadable, StopPartition, Measure, Insert,
                InsertError, Delete, FetchCalls, FetchDetails, Route, SkipCall, Buffer, Alert,
                ReadSheet, ReadDates
  <2>2. UNCHANGED rows /\ UNCHANGED <<lists, edits, clock>>
    BY <2>1 DEF sheet
  <2>3. InDocs \subseteq InDocs'
    <3>1. WrittenIn(docs) \subseteq WrittenIn(docs')
      BY WorkDocs, GrownTexts
    <3> QED
      BY <3>1 DEF InDocs, WrittenIn
  <2>4. DatesAreWritten'
    BY <2>2, <2>3 DEF GongInv, DatesAreWritten
  <2> QED
    BY <2>2, <2>4 DEF GongInv, TypeOK
<1> QED
  BY <1>1, <1>2

LEMMA WorkCaches ==
    ASSUME GongInv, NEW i \in Instances, Work(i)
    PROVE  /\ mapCache' \in [Instances -> MapEntry]
           /\ \A j \in Instances : Loaded(mapCache'[j].lists)
           /\ faults' \in 0..MaxFaults
<1>1. CASE Plan(i) \/ Route(i)
  <2>1. \E m : LoadMapping(i, m)
    BY <1>1 DEF Plan, Route
  <2> QED
    BY <2>1, LoadStep
<1>2. CASE ~Plan(i) /\ ~Route(i)
  <2>1. UNCHANGED mapCache
    BY <1>2 DEF Work, Seed, ListItems, SkipUnreadable, StopPartition, Measure, Insert,
                InsertError, Delete, FetchCalls, FetchDetails, SkipCall, Buffer, Alert,
                ReadSheet, ReadDates, WriteDates
  <2>2. faults' = faults \/ \E k : Fault(k)
    <3>1. CASE Seed(i) \/ ListItems(i) \/ SkipUnreadable(i) \/ StopPartition(i)
      BY <3>1 DEF Seed, ListItems, SkipUnreadable, StopPartition
    <3>2. CASE Measure(i) \/ Insert(i) \/ InsertError(i) \/ Delete(i)
      BY <3>2 DEF Measure, Insert, InsertError, Delete
    <3>3. CASE FetchCalls(i) \/ FetchDetails(i) \/ SkipCall(i) \/ Buffer(i) \/ Alert(i)
      BY <3>3 DEF FetchCalls, FetchDetails, SkipCall, Buffer, Alert
    <3>4. CASE ReadSheet(i) \/ ReadDates(i) \/ WriteDates(i)
      BY <3>4 DEF ReadSheet, ReadDates, WriteDates
    <3> QED
      BY <1>2, <3>1, <3>2, <3>3, <3>4 DEF Work
  <2> QED
    BY <2>1, <2>2, FaultType DEF GongInv, TypeOK, Mappings
<1> QED
  BY <1>1, <1>2

LEMMA WorkReports ==
    ASSUME GongInv, NEW i \in Instances, Work(i)
    PROVE  reported' \subseteq Customers
<1>1. reported \subseteq Customers
  BY DEF GongInv, TypeOK
<1>2. CASE StopPartition(i) \/ Alert(i)
  <2>1. PICK q : q = run[i] /\ q \in Run /\ RunInv(q, docs)
    BY RunFacts DEF Sound
  <2>2. q.pc \in {"drain", "alert"}
    BY <1>2, <2>1 DEF StopPartition, Alert
  <2>3. q.cust \in Customers
    BY <2>1, <2>2 DEF RunInv, Placing, AtCustomer
  <2>4. LogDocFull(q) \/ UNCHANGED reported
    BY <1>2, <2>1 DEF StopPartition, Alert
  <2> QED
    BY <1>1, <2>3, <2>4 DEF LogDocFull
<1>3. CASE ~StopPartition(i) /\ ~Alert(i)
  <2>1. UNCHANGED reported
    BY <1>3 DEF Work, Plan, Seed, ListItems, SkipUnreadable, Measure, Insert, InsertError,
                Delete, FetchCalls, FetchDetails, Route, SkipCall, Buffer,
                ReadSheet, ReadDates, WriteDates
  <2> QED
    BY <1>1, <2>1
<1> QED
  BY <1>2, <1>3

LEMMA WorkKeeps ==
    ASSUME GongInv, NEW i \in Instances, Work(i)
    PROVE  GongInv'
<1>1. run' \in [Instances -> Run] /\ Runs'
  BY WorkSteps, WorkDocs, StepsRuns
<1>2. docs' \in [DocIds -> Doc] /\ KeptApart' /\ Complete(docs)'
  BY WorkDocs DEF Grown
<1>3. /\ pending' \subseteq [at : Nat, cust : Customers, call : Calls]
      /\ ticket' \in Nat /\ accepted' \subseteq Calls /\ Waiting'
  BY WorkPending
<1>4. /\ rows' \in Seq(Row) /\ DOMAIN rows' = DOMAIN FirstRows /\ DatesAreWritten'
      /\ UNCHANGED <<lists, edits, clock>>
  BY WorkSheet
<1>5. /\ mapCache' \in [Instances -> MapEntry]
      /\ \A j \in Instances : Loaded(mapCache'[j].lists)
      /\ faults' \in 0..MaxFaults
  BY WorkCaches
<1>6. reported' \subseteq Customers
  BY WorkReports
<1>7. TypeOK'
  BY <1>1, <1>2, <1>3, <1>4, <1>5, <1>6 DEF GongInv, TypeOK, clock
<1>8. Mappings'
  BY <1>4, <1>5 DEF GongInv, Mappings
<1> QED
  BY <1>1, <1>2, <1>3, <1>4, <1>7, <1>8 DEF GongInv

-----------------------------------------------------------------------------
(* The surroundings, and the theorems *)

\* A run begins or is cut short, docs, buffer and sheet unchanged.
LEMMA StoresKeep ==
    ASSUME GongInv, UNCHANGED <<store, sheet>>,
           run' \in [Instances -> Run], Runs',
           mapCache' \in [Instances -> MapEntry],
           \A j \in Instances : Loaded(mapCache'[j].lists),
           hour' \in 0..MaxHour, due' \in BOOLEAN, backfills' \in 0..MaxBackfills,
           faults' \in 0..MaxFaults, reported' \subseteq Customers
    PROVE  GongInv'
<1>1. UNCHANGED <<docs, pending, ticket, accepted, lists, rows, edits>>
  BY DEF store, sheet
<1>2. TypeOK'
  BY <1>1 DEF GongInv, TypeOK
<1>3. Mappings' /\ Waiting'
  BY <1>1 DEF GongInv, Mappings, Waiting
<1>4. KeptApart' /\ DatesAreWritten' /\ Complete(docs)'
  BY <1>1 DEF GongInv, KeptApart, DatesAreWritten, InDocs, Complete
<1> QED
  BY <1>1, <1>2, <1>3, <1>4 DEF GongInv

LEMMA UnloadedType == Unloaded \in MapEntry /\ Loaded(Unloaded.lists)
<1>1. Unloaded.lists = NoLists /\ Unloaded \in MapEntry
  BY NoListsType DEF Unloaded, MapEntry
<1>2. Loaded(NoLists)
  BY DEF Loaded, NoLists
<1> QED
  BY <1>1, <1>2

LEMMA SameRuns ==
    ASSUME GongInv, UNCHANGED <<docs, run>>
    PROVE  run' \in [Instances -> Run] /\ Runs'
  BY DEF GongInv, TypeOK, Runs

LEMMA StartKeeps ==
    ASSUME GongInv, StartHourly \/ \E i \in Instances, k \in Customers : StartBackfill(i, k)
    PROVE  GongInv'
<1>1. PICK i \in Instances, filter \in Labels :
        /\ Begin(i, filter)
        /\ UNCHANGED <<store, sheet, hour, mapCache, reported>>
        /\ due' \in BOOLEAN /\ backfills' \in 0..MaxBackfills
  <2>1. due \in BOOLEAN /\ backfills \in 0..MaxBackfills /\ MaxBackfills \in Nat
    BY BoundsAssumption DEF GongInv, TypeOK
  <2>2. Hourly \in Instances /\ 0 \in Labels /\ Customers \subseteq Labels
    BY BoundsAssumption, LabelsAssumption
  <2>3. CASE StartHourly
    BY <2>1, <2>2, <2>3 DEF StartHourly
  <2>4. CASE \E i \in Instances, k \in Customers : StartBackfill(i, k)
    BY <2>1, <2>2, <2>4 DEF StartBackfill
  <2> QED
    BY <2>3, <2>4
<1>2. UNCHANGED docs
  BY <1>1 DEF store
<1>3. Steps(i) /\ faults' \in 0..MaxFaults
  BY <1>1, <1>2, BeginStep
<1>4. Grown(docs, docs')
  BY <1>2, SameGrown DEF GongInv, TypeOK
<1>5. run' \in [Instances -> Run] /\ Runs'
  BY <1>3, <1>4, StepsRuns
<1>6. /\ mapCache \in [Instances -> MapEntry] /\ hour \in 0..MaxHour
      /\ \A j \in Instances : Loaded(mapCache[j].lists)
      /\ reported \subseteq Customers
  BY DEF GongInv, TypeOK, Mappings
<1> QED
  BY <1>1, <1>3, <1>5, <1>6, StoresKeep

LEMMA CrashKeeps ==
    ASSUME GongInv, NEW i \in Instances, Crash(i)
    PROVE  GongInv'
<1>1. Steps(i)
  BY IdleSound, Empties DEF Crash, Steps
<1>2. docs' = docs /\ UNCHANGED <<store, sheet, clock, reported>>
  BY DEF Crash, store
<1>3. run' \in [Instances -> Run] /\ Runs'
  BY <1>1, <1>2, SameGrown, StepsRuns DEF GongInv, TypeOK
<1>4. PICK none : none = Unloaded /\ none \in MapEntry /\ Loaded(none.lists)
  BY UnloadedType
<1>5. /\ mapCache' \in [Instances -> MapEntry]
      /\ \A j \in Instances : Loaded(mapCache'[j].lists)
  <2>1. mapCache' = [mapCache EXCEPT ![i] = none]
    BY <1>4 DEF Crash
  <2> QED
    BY <1>4, <2>1 DEF GongInv, TypeOK, Mappings
<1>6. faults' \in 0..MaxFaults
  BY FaultType DEF Crash, GongInv, TypeOK
<1>7. /\ hour' \in 0..MaxHour /\ due' \in BOOLEAN /\ backfills' \in 0..MaxBackfills
      /\ reported' \subseteq Customers
  BY <1>2 DEF GongInv, TypeOK, clock
<1> QED
  BY <1>2, <1>3, <1>5, <1>6, <1>7, StoresKeep

LEMMA ClockKeeps ==
    ASSUME GongInv, Tick \/ MissTrigger \/ \E i \in Instances : Expire(i)
    PROVE  GongInv'
<1>1. UNCHANGED <<store, sheet, run>> /\ UNCHANGED docs
  BY DEF Tick, MissTrigger, Expire, store
<1>2. run' \in [Instances -> Run] /\ Runs'
  BY <1>1, SameRuns
<1>3. /\ hour \in 0..MaxHour /\ due \in BOOLEAN /\ backfills \in 0..MaxBackfills
      /\ reported \subseteq Customers /\ faults \in 0..MaxFaults /\ MaxHour \in Nat
      /\ mapCache \in [Instances -> MapEntry]
      /\ \A j \in Instances : Loaded(mapCache[j].lists)
  BY BoundsAssumption DEF GongInv, TypeOK, Mappings
<1>4. CASE Tick
  <2>1. hour' \in 0..MaxHour
    BY <1>3, <1>4 DEF Tick
  <2> QED
    BY <1>1, <1>2, <1>3, <1>4, <2>1, StoresKeep DEF Tick
<1>5. CASE MissTrigger
  <2>1. faults' \in 0..MaxFaults
    BY <1>3, <1>5, FaultType DEF MissTrigger
  <2> QED
    BY <1>1, <1>2, <1>3, <1>5, <2>1, StoresKeep DEF MissTrigger
<1>6. CASE \E i \in Instances : Expire(i)
  <2>1. PICK i \in Instances : Expire(i)
    BY <1>6
  <2>2. PICK entry : entry = [mapCache[i] EXCEPT !.fresh = FALSE]
    OBVIOUS
  <2>3. entry \in MapEntry /\ entry.lists = mapCache[i].lists
    BY <1>3, <2>2 DEF MapEntry
  <2>4. mapCache' = [mapCache EXCEPT ![i] = entry]
    BY <2>1, <2>2 DEF Expire
  <2>5. /\ mapCache' \in [Instances -> MapEntry]
        /\ \A j \in Instances : Loaded(mapCache'[j].lists)
    BY <1>3, <2>3, <2>4
  <2>6. UNCHANGED <<clock, faults, reported>>
    BY <2>1 DEF Expire
  <2> QED
    BY <1>1, <1>2, <1>3, <2>5, <2>6, StoresKeep DEF clock
<1> QED
  BY <1>4, <1>5, <1>6

\* The operator's edits.
LEMMA EditKeeps ==
    ASSUME GongInv,
           \/ \E k \in Customers : \E list \in Routes[k] : EditList(k, list)
           \/ \E n \in 2..Len(rows) : MoveRow(n)
    PROVE  GongInv'
<1>1. UNCHANGED <<docs, pending, ticket, accepted, run, mapCache, faults, hour, due, backfills>>
  BY DEF EditList, MoveRow, store, clock
<1>2. run' \in [Instances -> Run] /\ Runs'
  BY <1>1, SameRuns
<1>3. Waiting' /\ KeptApart' /\ InDocs' = InDocs /\ Complete(docs)'
  BY <1>1 DEF GongInv, Waiting, KeptApart, InDocs, Complete
<1>4. edits \in 0..MaxEdits /\ MaxEdits \in Nat
  BY BoundsAssumption DEF GongInv, TypeOK
<1>5. CASE \E k \in Customers : \E list \in Routes[k] : EditList(k, list)
  <2>1. PICK k \in Customers : \E list \in Routes[k] : EditList(k, list)
    BY <1>5
  <2>6. PICK list \in Routes[k] : EditList(k, list)
    BY <2>1
  <2>2. list \in Seq(DocIds)
    BY ListsAssumption
  <2>3. /\ edits' \in 0..MaxEdits /\ UNCHANGED rows /\ reported' \subseteq reported
        /\ lists' = [lists EXCEPT ![k] = list]
    BY <1>4, <2>6 DEF EditList
  <2>4. lists' \in Lists /\ \A o \in Customers : lists'[o] \in Routes[o]
    BY <2>2, <2>3 DEF GongInv, TypeOK, Lists, Mappings
  <2>5. TypeOK'
    BY <1>1, <1>2, <2>3, <2>4 DEF GongInv, TypeOK
  <2> QED
    BY <1>1, <1>2, <1>3, <2>3, <2>4, <2>5 DEF GongInv, Mappings, DatesAreWritten
<1>6. CASE \E n \in 2..Len(rows) : MoveRow(n)
  <2>1. PICK n \in 2..Len(rows) : MoveRow(n)
    BY <1>6
  <2>2. rows' = [rows EXCEPT ![n] = rows[n - 1], ![n - 1] = rows[n]]
    BY <2>1 DEF MoveRow
  <2>3. rows \in Seq(Row) /\ n \in DOMAIN rows /\ n - 1 \in DOMAIN rows
    BY DEF GongInv, TypeOK
  <2>4. /\ rows' \in Seq(Row) /\ DOMAIN rows' = DOMAIN rows
        /\ \A o \in DOMAIN rows : rows'[o] \in {rows[x] : x \in DOMAIN rows}
    BY <2>2, <2>3
  <2>5. DatesAreWritten'
    <3>1. PICK dates : dates = {0} \cup {Date[c] : c \in InDocs}
      OBVIOUS
    <3>2. dates = {0} \cup {Date[c] : c \in InDocs'}
      BY <1>3, <3>1
    <3>3. \A x \in DOMAIN rows : {rows[x].first, rows[x].last} \subseteq dates
      BY <3>1 DEF GongInv, DatesAreWritten
    <3>4. \A o \in DOMAIN rows' : {rows'[o].first, rows'[o].last} \subseteq dates
      BY <2>4, <3>3
    <3> QED
      BY <3>2, <3>4 DEF DatesAreWritten
  <2>6. edits' \in 0..MaxEdits /\ UNCHANGED <<lists, reported>>
    BY <1>4, <2>1 DEF MoveRow
  <2>7. TypeOK'
    BY <1>1, <1>2, <2>4, <2>6 DEF GongInv, TypeOK
  <2> QED
    BY <1>1, <1>2, <1>3, <2>4, <2>5, <2>6, <2>7 DEF GongInv, Mappings
<1> QED
  BY <1>5, <1>6

LEMMA GongInit == Init => GongInv
<1> SUFFICES ASSUME Init PROVE GongInv
  OBVIOUS
<1>1. PICK none : none = [text |-> <<>>, bytes |-> 0]
  OBVIOUS
<1>2. none \in Doc /\ DOMAIN none.text = {}
  BY <1>1 DEF Doc
<1>3. docs = [d \in DocIds |-> none]
  BY <1>1 DEF Init
<1>4. docs \in [DocIds -> Doc] /\ KeptApart /\ Complete(docs)
  BY <1>2, <1>3 DEF KeptApart, Complete
<1>5. run \in [Instances -> Run] /\ Runs
  BY IdleType, IdleSound, Empties DEF Init, Runs, Sound
<1>6. FirstLists \in Lists /\ \A k \in Customers : lists[k] \in Routes[k]
  BY ListsAssumption DEF Init, Lists
<1>7. Unloaded \in MapEntry /\ Loaded(Unloaded.lists)
  BY UnloadedType
<1>8. mapCache \in [Instances -> MapEntry] /\ Mappings
  BY <1>6, <1>7 DEF Init, Mappings
<1>9. rows \in Seq(Row) /\ DOMAIN rows = DOMAIN FirstRows /\ DatesAreWritten
  <2>1. FirstRows \in Seq(Customers)
    BY ListsAssumption
  <2>2. rows = [n \in DOMAIN FirstRows |-> [key |-> FirstRows[n], first |-> 0, last |-> 0]]
    BY DEF Init
  <2>3. \A n \in DOMAIN FirstRows :
          rows[n] \in Row /\ rows[n].first = 0 /\ rows[n].last = 0
    BY <2>1, <2>2 DEF Row
  <2>4. PICK len \in Nat : DOMAIN FirstRows = 1..len
    BY <2>1
  <2>5. DOMAIN rows = 1..len /\ rows = [n \in 1..len |-> rows[n]]
    BY <2>2, <2>4
  <2>6. rows \in Seq(Row)
    BY <2>3, <2>4, <2>5
  <2> QED
    BY <2>2, <2>3, <2>6 DEF DatesAreWritten
<1>10. TypeOK
  BY <1>4, <1>5, <1>6, <1>8, <1>9, BoundsAssumption DEF Init, TypeOK
<1> QED
  BY <1>4, <1>5, <1>8, <1>9, <1>10 DEF GongInv, Waiting, Init

LEMMA GongStep == GongInv /\ [Next]_vars => GongInv'
<1> SUFFICES ASSUME GongInv, [Next]_vars PROVE GongInv'
  OBVIOUS
<1>1. CASE \E i \in Instances : Work(i)
  BY <1>1, WorkKeeps
<1>2. CASE StartHourly \/ \E i \in Instances, k \in Customers : StartBackfill(i, k)
  BY <1>2, StartKeeps
<1>3. CASE \E i \in Instances : Crash(i)
  BY <1>3, CrashKeeps
<1>4. CASE Tick \/ MissTrigger \/ \E i \in Instances : Expire(i)
  BY <1>4, ClockKeeps
<1>5. CASE \/ \E k \in Customers : \E list \in Routes[k] : EditList(k, list)
           \/ \E n \in 2..Len(rows) : MoveRow(n)
  BY <1>5, EditKeeps
<1>6. CASE UNCHANGED vars
  <2>1. UNCHANGED <<store, sheet, clock, run, mapCache, faults, reported>>
    BY <1>6 DEF vars
  <2>2. run' \in [Instances -> Run] /\ Runs'
    BY <2>1, SameRuns DEF store
  <2> QED
    BY <2>1, <2>2, StoresKeep DEF GongInv, TypeOK, Mappings, clock
<1> QED
  BY <1>1, <1>2, <1>3, <1>4, <1>5, <1>6 DEF Next

LEMMA GongCorrect == Spec => []GongInv
  BY GongInit, GongStep, PTL DEF Spec

\* Every variable keeps its type, for any number of runs, calls and customers.
THEOREM GongTypeCorrect == Spec => []TypeOK
<1>1. GongInv => TypeOK
  BY DEF GongInv
<1> QED
  BY <1>1, GongCorrect, PTL

\* The text a run dedups a customer's calls against (customer_text_cache of
\* process_calls and _drain_pending, src/gong-sync/main.py) shows only calls that are in
\* docs of that customer with all of their text, wherever overlapping runs insert into
\* it.
THEOREM CachesAreGrounded == Spec => []SeenIsWritten
<1>1. GongInv => SeenIsWritten
  BY DEF GongInv, Runs, RunInv, Grounded, TextOf, SeenIsWritten
<1> QED
  BY <1>1, GongCorrect, PTL

\* process_calls and _drain_pending (src/gong-sync/main.py) write a call only to docs of
\* a customer that an account or a participant of the call leads to.
THEOREM CallsKeptApart == Spec => []KeptApart
<1>1. GongInv => KeptApart
  BY DEF GongInv
<1> QED
  BY <1>1, GongCorrect, PTL

\* _write_call_date_ranges (src/gong-sync/main.py) writes only dates of calls that are
\* in a doc.
THEOREM DatesTellOfDocs == Spec => []DatesAreWritten
<1>1. GongInv => DatesAreWritten
  BY DEF GongInv
<1> QED
  BY <1>1, GongCorrect, PTL

-----------------------------------------------------------------------------
(* gong-sync implements Delivery: every step writes one call, buffers one, *)
(* takes one that is written out of the buffer, or means nothing to it.    *)

\* The step means nothing to Delivery.
Unseen == InDocs' = InDocs /\ Buffered' = Buffered

LEMMA StoreUnseen ==
    ASSUME UNCHANGED docs, UNCHANGED pending
    PROVE  Unseen
  BY DEF Unseen, InDocs, Buffered

LEMMA InsertsDeliver ==
    ASSUME GongInv, NEW i \in Instances, Inserts(i)
    PROVE  Delivered!Next
<1>1. PICK c \in Calls : WrittenIn(docs') = WrittenIn(docs) \cup {c}
  BY InsertsKeep
<1>2. InDocs' = InDocs \cup {c}
  BY <1>1 DEF InDocs, WrittenIn
<1>3. Buffered' = Buffered
  BY DEF Inserts, Buffered
<1> QED
  BY <1>2, <1>3 DEF Delivered!Next, Delivered!Write

LEMMA BufferDelivers ==
    ASSUME GongInv, NEW i \in Instances, Buffer(i)
    PROVE  Unseen \/ Delivered!Next
<1>1. UNCHANGED docs
  BY DEF Buffer
<1>2. PICK p \in run[i].todo :
        /\ Writable(run[i], p)
        /\ \/ Enqueue(run[i].cust, p.call)
           \/ UNCHANGED <<pending, ticket, accepted>>
  BY DEF Buffer
<1>3. CASE UNCHANGED <<pending, ticket, accepted>>
  BY <1>1, <1>3, StoreUnseen
<1>4. CASE Enqueue(run[i].cust, p.call)
  <2>1. PICK k, c : k = run[i].cust /\ c = p.call
    OBVIOUS
  <2>2. c \in Calls
    BY <1>2, <2>1, WritableFacts DEF Item
  <2>3. PICK new : new = [at |-> ticket + 1, cust |-> k, call |-> c]
    OBVIOUS
  <2>4. pending' = pending \cup {new} /\ new.call = c
    BY <1>4, <2>1, <2>3 DEF Enqueue
  <2>5. Buffered' = Buffered \cup {c}
    BY <2>4 DEF Buffered
  <2>6. InDocs' = InDocs
    BY <1>1 DEF InDocs
  <2> QED
    BY <2>2, <2>5, <2>6 DEF Delivered!Next, Delivered!Queue
<1> QED
  BY <1>2, <1>3, <1>4

\* The drain deletes the blob of a call that it found in the docs or put there.
LEMMA DeleteDelivers ==
    ASSUME GongInv, NEW i \in Instances, Delete(i)
    PROVE  Unseen \/ Delivered!Next
<1>1. UNCHANGED docs /\ run[i].pc = "delete"
  BY DEF Delete
<1>2. PICK p \in run[i].todo :
        Current(run[i], p) /\ (pending' = pending \ {p} \/ UNCHANGED pending)
  BY DEF Delete
<1>3. CASE p \notin pending \/ UNCHANGED pending
  <2>1. UNCHANGED pending
    BY <1>2, <1>3
  <2> QED
    BY <1>1, <2>1, StoreUnseen
<1>4. CASE p \in pending /\ pending' = pending \ {p}
  <2>1. PICK c : c = p.call
    OBVIOUS
  <2>2. c \in WrittenIn(docs)
    BY <1>1, <1>2, <2>1, RunFacts DEF Sound, RunInv, Placed
  <2>3. c \in InDocs /\ InDocs' = InDocs
    BY <1>1, <2>2 DEF InDocs, WrittenIn
  <2>4. c \in Calls /\ c \in Buffered
    BY <1>4, <2>1 DEF GongInv, TypeOK, Buffered
  <2>5. Buffered' = Buffered \/ Buffered' = Buffered \ {c}
    <3>1. Buffered' \subseteq Buffered /\ Buffered \ {c} \subseteq Buffered'
      BY <1>4, <2>1 DEF Buffered
    <3> QED
      BY <3>1
  <2> QED
    BY <2>3, <2>4, <2>5 DEF Unseen, Delivered!Next, Delivered!Leave
<1> QED
  BY <1>2, <1>3, <1>4

LEMMA WorkDelivers ==
    ASSUME GongInv, NEW i \in Instances, Work(i)
    PROVE  Unseen \/ Delivered!Next
<1>1. CASE Buffer(i) \/ Delete(i)
  BY <1>1, BufferDelivers, DeleteDelivers
<1>2. CASE ~Buffer(i) /\ ~Delete(i)
  <2>1. UNCHANGED pending
    BY <1>2 DEF Work, Plan, Seed, ListItems, SkipUnreadable, StopPartition, Measure, Insert,
                InsertError, FetchCalls, FetchDetails, Route, SkipCall, Alert,
                ReadSheet, ReadDates, WriteDates, store
  <2> QED
    BY <2>1, WorkWrites, InsertsDeliver, StoreUnseen
<1> QED
  BY <1>1, <1>2

LEMMA DeliveryStep ==
    GongInv /\ [Next]_vars => [Delivered!Next]_<<InDocs, Buffered>>
<1> SUFFICES ASSUME GongInv, [Next]_vars PROVE Unseen \/ Delivered!Next
  BY DEF Unseen
<1>1. CASE \E i \in Instances : Work(i)
  BY <1>1, WorkDelivers
<1>2. CASE StartHourly \/ \E i \in Instances, k \in Customers : StartBackfill(i, k)
  <2>1. UNCHANGED store
    BY <1>2 DEF StartHourly, StartBackfill
  <2> QED
    BY <2>1, StoreUnseen DEF store
<1>3. CASE Tick \/ MissTrigger \/ \E i \in Instances : Crash(i) \/ Expire(i)
  <2>1. UNCHANGED store
    BY <1>3 DEF Tick, MissTrigger, Crash, Expire
  <2> QED
    BY <2>1, StoreUnseen DEF store
<1>4. CASE \/ \E k \in Customers : \E list \in Routes[k] : EditList(k, list)
           \/ \E n \in 2..Len(rows) : MoveRow(n)
  <2>1. UNCHANGED store
    BY <1>4 DEF EditList, MoveRow
  <2> QED
    BY <2>1, StoreUnseen DEF store
<1>5. CASE UNCHANGED vars
  BY <1>5, StoreUnseen DEF vars, store
<1> QED
  BY <1>1, <1>2, <1>3, <1>4, <1>5 DEF Next

LEMMA DeliveryInit == Init => Delivered!Init
<1> SUFFICES ASSUME Init PROVE Delivered!Init
  OBVIOUS
<1>1. PICK none : none = [text |-> <<>>, bytes |-> 0]
  OBVIOUS
<1>2. docs = [d \in DocIds |-> none]
  BY <1>1 DEF Init
<1>3. InDocs = {}
  <2>1. \A c \in Calls : ~Holds(<<>>, c, Chars[c])
    <3>1. ASSUME NEW c \in Calls PROVE Chars[c] \in Nat \ {0}
      <4>1. /\ TitleAt[c] \in Nat \X Nat /\ DateAt[c] \in Nat \X Nat /\ Chars[c] \in Nat
            /\ 1 <= TitleAt[c][1] /\ TitleAt[c][1] <= TitleAt[c][2]
            /\ TitleAt[c][2] < DateAt[c][1] /\ DateAt[c][1] <= DateAt[c][2]
            /\ DateAt[c][2] <= Chars[c]
        BY CallsAssumption
      <4> QED
        BY <4>1
    <3> QED
      BY <3>1, EmptyHoldsNothing
  <2>2. \A d \in DocIds : docs[d].text = <<>>
    BY <1>1, <1>2
  <2> QED
    BY <2>1, <2>2 DEF InDocs, Written
<1>4. Buffered = {}
  BY DEF Init, Buffered
<1> QED
  BY <1>3, <1>4 DEF Delivered!Init

\* For any runs, calls, customers and failures, gong-sync keeps the promise of
\* Delivery: all the text of a call that was written stays in a doc, even when other
\* runs insert inside it, and a call leaves the buffer only once its text is there.
THEOREM GongSyncDelivers == Spec => ImplementsDelivery
  BY GongCorrect, DeliveryInit, DeliveryStep, PTL
     DEF Spec, ImplementsDelivery, Delivered!Spec

=============================================================================
